------------------------------ MODULE SurfaceParts -----------------------------
(* The pages among the parts of MCSurfaces, each with its inductive invariant: what they *)
(* show, ask and lose, for any number of brands, creators, threads, rooms and requests.  *)
(* A page blocks its button by a flag and marks what it shows by a brand; either says    *)
(* what is under way only together with what the brand, the room and the list on the     *)
(* screen are.  The invariant of each page adds that, and its steps keep it.             *)
EXTENDS Surfaces, Naturals, Sequences, FiniteSetTheorems, WellFoundedInduction, TLAPS

-------------------------------------------------------------------------------
(* The page that learns a brand *)
H == INSTANCE BrandLearning WITH
  Brands <- Names, Urls <- Ids, MaxChanges <- Bound.changes, brand <- v1, visit <- v2,
  profileData <- v3, answers <- v4, url <- v5, analysed <- v6, profileBusy <- v7,
  loading <- v8, learning <- v9, stored <- v10, chatBusy <- v11, chat <- v12,
  chatting <- v13, raced <- v14

ASSUME LearningAssumption == Bound.changes \in Nat

LearningInv ==
  H!TypeOK /\ H!AnswersOfTheBrand /\ H!OneLearning /\ H!AskedInv /\ H!AnswersWhatIsAsked

\* Nothing is learnt, and nothing asked, of the first brand.
LEMMA LearningBegins == H!HInit => LearningInv
<1>1. 0 \in 0..Bound.changes
  BY LearningAssumption
<1>2. H!HInit => H!TypeOK
  BY <1>1 DEF H!HInit, H!TypeOK
<1>. QED
  BY <1>2 DEF H!HInit, H!AnswersOfTheBrand, H!OneLearning, H!AskedInv, H!AnswersWhatIsAsked,
      LearningInv

\* Every step of the learning page and of what it asks keeps the invariant.
LEMMA LearningKeeps == LearningInv /\ [H!HNext]_(H!hvars) => LearningInv'
<1>. SUFFICES ASSUME LearningInv, [H!HNext]_(H!hvars) PROVE LearningInv'
  OBVIOUS
<1>1. ASSUME NEW b \in Names \cup {None}, H!ReloadBrand(b) PROVE LearningInv'
  <2>1. H!TypeOK'
    BY <1>1, LearningAssumption DEF LearningInv, H!TypeOK, H!Given, H!Learning, H!Page, H!Talk,
        H!ReloadBrand
  <2>2. (H!AnswersOfTheBrand /\ H!OneLearning)'
    BY <1>1, LearningAssumption DEF LearningInv, H!AnswersOfTheBrand, H!OneLearning, H!AskedInv,
        H!TypeOK, H!Given, H!Learning, H!Page, H!Talk, H!ReloadBrand
  <2>3. H!AskedInv'
    BY <1>1, LearningAssumption DEF LearningInv, H!AskedInv, H!OneLearning, H!AnswersOfTheBrand,
        H!TypeOK, H!Given, H!Learning, H!Page, H!Talk, H!ReloadBrand
  <2>4. H!AnswersWhatIsAsked'
    BY <1>1, LearningAssumption DEF LearningInv, H!AnswersWhatIsAsked, H!AskedInv, H!TypeOK,
        H!Given, H!Learning, H!Page, H!Talk, H!ReloadBrand
  <2>. QED  BY <2>1, <2>2, <2>3, <2>4 DEF LearningInv
<1>2. ASSUME NEW b \in v8, H!OnProfile(b) \/ H!OnProfileFailed(b) PROVE LearningInv'
  <2>1. H!TypeOK'
    BY <1>2, LearningAssumption DEF LearningInv, H!TypeOK, H!Given, H!Learning, H!Page, H!Talk,
        H!OnProfile, H!OnProfileFailed
  <2>2. (H!AnswersOfTheBrand /\ H!OneLearning)'
    BY <1>2, LearningAssumption DEF LearningInv, H!AnswersOfTheBrand, H!OneLearning, H!AskedInv,
        H!TypeOK, H!Given, H!Learning, H!Page, H!Talk, H!OnProfile, H!OnProfileFailed
  <2>3. H!AskedInv'
    BY <1>2, LearningAssumption DEF LearningInv, H!AskedInv, H!OneLearning, H!AnswersOfTheBrand,
        H!TypeOK, H!Given, H!Learning, H!Page, H!Talk, H!OnProfile, H!OnProfileFailed
  <2>4. H!AnswersWhatIsAsked'
    BY <1>2, LearningAssumption DEF LearningInv, H!AnswersWhatIsAsked, H!AskedInv, H!TypeOK,
        H!Given, H!Learning, H!Page, H!Talk, H!OnProfile, H!OnProfileFailed
  <2>. QED  BY <2>1, <2>2, <2>3, <2>4 DEF LearningInv
<1>3. ASSUME H!ProfileAnswer PROVE LearningInv'
  <2>1. H!TypeOK'
    BY <1>3, LearningAssumption DEF LearningInv, H!TypeOK, H!Given, H!Learning, H!Page, H!Talk,
        H!ProfileAnswer
  <2>2. (H!AnswersOfTheBrand /\ H!OneLearning)'
    BY <1>3, LearningAssumption DEF LearningInv, H!AnswersOfTheBrand, H!OneLearning, H!AskedInv,
        H!TypeOK, H!Given, H!Learning, H!Page, H!Talk, H!ProfileAnswer
  <2>3. H!AskedInv'
    BY <1>3, LearningAssumption DEF LearningInv, H!AskedInv, H!OneLearning, H!AnswersOfTheBrand,
        H!TypeOK, H!Given, H!Learning, H!Page, H!Talk, H!ProfileAnswer
  <2>4. H!AnswersWhatIsAsked'
    BY <1>3, LearningAssumption DEF LearningInv, H!AnswersWhatIsAsked, H!AskedInv, H!TypeOK,
        H!Given, H!Learning, H!Page, H!Talk, H!ProfileAnswer
  <2>. QED  BY <2>1, <2>2, <2>3, <2>4 DEF LearningInv
<1>4. ASSUME NEW u \in Ids, H!ProfileUrlChanged(u) PROVE LearningInv'
  <2>1. H!TypeOK'
    BY <1>4, LearningAssumption DEF LearningInv, H!TypeOK, H!Given, H!Learning, H!Page, H!Talk,
        H!ProfileUrlChanged
  <2>2. (H!AnswersOfTheBrand /\ H!OneLearning)'
    BY <1>4, LearningAssumption DEF LearningInv, H!AnswersOfTheBrand, H!OneLearning, H!AskedInv,
        H!TypeOK, H!Given, H!Learning, H!Page, H!Talk, H!ProfileUrlChanged
  <2>3. H!AskedInv'
    BY <1>4, LearningAssumption DEF LearningInv, H!AskedInv, H!OneLearning, H!AnswersOfTheBrand,
        H!TypeOK, H!Given, H!Learning, H!Page, H!Talk, H!ProfileUrlChanged
  <2>4. H!AnswersWhatIsAsked'
    BY <1>4, LearningAssumption DEF LearningInv, H!AnswersWhatIsAsked, H!AskedInv, H!TypeOK,
        H!Given, H!Learning, H!Page, H!Talk, H!ProfileUrlChanged
  <2>. QED  BY <2>1, <2>2, <2>3, <2>4 DEF LearningInv
<1>5. ASSUME H!LiveLearn PROVE LearningInv'
  <2>1. H!TypeOK'
    <3>1. [kind |-> "learn", brand |-> v1, url |-> v5, answers |-> None, saved |-> FALSE] \in H!Learning
      BY <1>5, LearningAssumption DEF LearningInv, H!TypeOK, H!Given, H!Learning, H!LiveLearn
    <3>. QED  BY <1>5, <3>1 DEF LearningInv, H!TypeOK, H!LiveLearn, H!Page, H!Talk
  <2>2. (H!AnswersOfTheBrand /\ H!OneLearning)'
    BY <1>5, LearningAssumption DEF LearningInv, H!AnswersOfTheBrand, H!OneLearning, H!AskedInv,
        H!TypeOK, H!Given, H!Learning, H!Page, H!Talk, H!LiveLearn
  <2>3. H!AskedInv'
    BY <1>5, LearningAssumption DEF LearningInv, H!AskedInv, H!OneLearning, H!AnswersOfTheBrand,
        H!TypeOK, H!Given, H!Learning, H!Page, H!Talk, H!LiveLearn
  <2>4. H!AnswersWhatIsAsked'
    BY <1>5, LearningAssumption DEF LearningInv, H!AnswersWhatIsAsked, H!AskedInv, H!TypeOK,
        H!Given, H!Learning, H!Page, H!Talk, H!LiveLearn
  <2>. QED  BY <2>1, <2>2, <2>3, <2>4 DEF LearningInv
<1>6. ASSUME H!LiveSaveProfile PROVE LearningInv'
  <2>1. H!TypeOK'
    <3>1. (IF v6 = None THEN None ELSE v6.url) \in Ids \cup {None}
      BY DEF LearningInv, H!TypeOK
    <3>2. [kind |-> "save", brand |-> v1, url |-> IF v6 = None THEN None ELSE v6.url,
           answers |-> v4, saved |-> FALSE] \in H!Learning
      BY <1>6, <3>1 DEF LearningInv, H!TypeOK, H!Learning, H!LiveSaveProfile
    <3>. QED  BY <1>6, <3>2 DEF LearningInv, H!TypeOK, H!LiveSaveProfile, H!Page, H!Talk
  <2>2. (H!AnswersOfTheBrand /\ H!OneLearning)'
    BY <1>6, LearningAssumption DEF LearningInv, H!AnswersOfTheBrand, H!OneLearning, H!AskedInv,
        H!TypeOK, H!Given, H!Learning, H!Page, H!Talk, H!LiveSaveProfile
  <2>3. H!AskedInv'
    BY <1>6, LearningAssumption DEF LearningInv, H!AskedInv, H!OneLearning, H!AnswersOfTheBrand,
        H!TypeOK, H!Given, H!Learning, H!Page, H!Talk, H!LiveSaveProfile
  <2>4. H!AnswersWhatIsAsked'
    BY <1>6, LearningAssumption DEF LearningInv, H!AnswersWhatIsAsked, H!AskedInv, H!TypeOK,
        H!Given, H!Learning, H!Page, H!Talk, H!LiveSaveProfile
  <2>. QED  BY <2>1, <2>2, <2>3, <2>4 DEF LearningInv
<1>7. ASSUME NEW r \in v9, H!ServeSave(r) PROVE LearningInv'
  <2>1. H!TypeOK'
    <3>1. r \in H!Learning
      BY DEF LearningInv, H!TypeOK
    <3>2. [r EXCEPT !.saved = TRUE] \in H!Learning
      BY <3>1 DEF H!Learning
    <3>3. (IF r.answers = None THEN r.brand ELSE r.answers.brand) \in Names
      BY <3>1 DEF H!Learning, H!Given
    <3>. QED  BY <1>7, <3>2, <3>3 DEF LearningInv, H!TypeOK, H!ServeSave, H!Page, H!Talk
  <2>2. (H!AnswersOfTheBrand /\ H!OneLearning)'
    BY <1>7, LearningAssumption DEF LearningInv, H!AnswersOfTheBrand, H!OneLearning, H!AskedInv,
        H!TypeOK, H!Given, H!Learning, H!Page, H!Talk, H!ServeSave
  <2>3. H!AskedInv'
    BY <1>7, LearningAssumption DEF LearningInv, H!AskedInv, H!OneLearning, H!AnswersOfTheBrand,
        H!TypeOK, H!Given, H!Learning, H!Page, H!Talk, H!ServeSave
  <2>4. H!AnswersWhatIsAsked'
    BY <1>7, LearningAssumption DEF LearningInv, H!AnswersWhatIsAsked, H!AskedInv, H!TypeOK,
        H!Given, H!Learning, H!Page, H!Talk, H!ServeSave
  <2>. QED  BY <2>1, <2>2, <2>3, <2>4 DEF LearningInv
<1>8. ASSUME NEW r \in v9, H!OnLearned(r) PROVE LearningInv'
  <2>1. H!TypeOK'
    <3>1. r \in H!Learning /\ r.brand \in Names
      BY DEF LearningInv, H!TypeOK, H!Learning
    <3>2. r.url \in Ids
      BY <1>8, <3>1 DEF LearningInv, H!AskedInv, H!Learning, H!OnLearned
    <3>3. v1 = r.brand => [brand |-> v1, by |-> "analysis"] \in H!Given
      BY <3>1 DEF H!Given
    <3>4. v1 = r.brand => [brand |-> v1, url |-> r.url] \in [brand : Names, url : Ids]
      BY <3>1, <3>2
    <3>5. v4' \in H!Given \cup {None} /\ v6' \in [brand : Names, url : Ids] \cup {None}
      BY <1>8, <3>3, <3>4 DEF LearningInv, H!TypeOK, H!OnLearned
    <3>. QED  BY <1>8, <3>5 DEF LearningInv, H!TypeOK, H!OnLearned, H!Talk
  <2>2. (H!AnswersOfTheBrand /\ H!OneLearning)'
    BY <1>8, LearningAssumption DEF LearningInv, H!AnswersOfTheBrand, H!OneLearning, H!AskedInv,
        H!TypeOK, H!Given, H!Learning, H!Page, H!Talk, H!OnLearned
  <2>3. H!AskedInv'
    BY <1>8, LearningAssumption DEF LearningInv, H!AskedInv, H!OneLearning, H!AnswersOfTheBrand,
        H!TypeOK, H!Given, H!Learning, H!Page, H!Talk, H!OnLearned
  <2>4. H!AnswersWhatIsAsked'
    BY <1>8, LearningAssumption DEF LearningInv, H!AnswersWhatIsAsked, H!AskedInv, H!TypeOK,
        H!Given, H!Learning, H!Page, H!Talk, H!OnLearned
  <2>. QED  BY <2>1, <2>2, <2>3, <2>4 DEF LearningInv
<1>9. ASSUME NEW r \in v9, H!OnSaved(r) PROVE LearningInv'
  <2>1. H!TypeOK'
    BY <1>9, LearningAssumption DEF LearningInv, H!TypeOK, H!Given, H!Learning, H!Page, H!Talk,
        H!OnSaved
  <2>2. (H!AnswersOfTheBrand /\ H!OneLearning)'
    BY <1>9, LearningAssumption DEF LearningInv, H!AnswersOfTheBrand, H!OneLearning, H!AskedInv,
        H!TypeOK, H!Given, H!Learning, H!Page, H!Talk, H!OnSaved
  <2>3. H!AskedInv'
    BY <1>9, LearningAssumption DEF LearningInv, H!AskedInv, H!OneLearning, H!AnswersOfTheBrand,
        H!TypeOK, H!Given, H!Learning, H!Page, H!Talk, H!OnSaved
  <2>4. H!AnswersWhatIsAsked'
    BY <1>9, LearningAssumption DEF LearningInv, H!AnswersWhatIsAsked, H!AskedInv, H!TypeOK,
        H!Given, H!Learning, H!Page, H!Talk, H!OnSaved
  <2>. QED  BY <2>1, <2>2, <2>3, <2>4 DEF LearningInv
<1>10. ASSUME NEW r \in v9, H!OnLearningFailed(r) PROVE LearningInv'
  <2>1. H!TypeOK'
    BY <1>10, LearningAssumption DEF LearningInv, H!TypeOK, H!Given, H!Learning, H!Page, H!Talk,
        H!OnLearningFailed
  <2>2. (H!AnswersOfTheBrand /\ H!OneLearning)'
    BY <1>10, LearningAssumption DEF LearningInv, H!AnswersOfTheBrand, H!OneLearning, H!AskedInv,
        H!TypeOK, H!Given, H!Learning, H!Page, H!Talk, H!OnLearningFailed
  <2>3. H!AskedInv'
    BY <1>10, LearningAssumption DEF LearningInv, H!AskedInv, H!OneLearning, H!AnswersOfTheBrand,
        H!TypeOK, H!Given, H!Learning, H!Page, H!Talk, H!OnLearningFailed
  <2>4. H!AnswersWhatIsAsked'
    BY <1>10, LearningAssumption DEF LearningInv, H!AnswersWhatIsAsked, H!AskedInv, H!TypeOK,
        H!Given, H!Learning, H!Page, H!Talk, H!OnLearningFailed
  <2>. QED  BY <2>1, <2>2, <2>3, <2>4 DEF LearningInv
<1>11. ASSUME H!LiveChat PROVE LearningInv'
  <2>1. H!TypeOK'
    BY <1>11, LearningAssumption DEF LearningInv, H!TypeOK, H!Given, H!Learning, H!Page, H!Talk,
        H!LiveChat
  <2>2. (H!AnswersOfTheBrand /\ H!OneLearning)'
    BY <1>11, LearningAssumption DEF LearningInv, H!AnswersOfTheBrand, H!OneLearning, H!AskedInv,
        H!TypeOK, H!Given, H!Learning, H!Page, H!Talk, H!LiveChat
  <2>3. H!AskedInv'
    BY <1>11, LearningAssumption DEF LearningInv, H!AskedInv, H!OneLearning, H!AnswersOfTheBrand,
        H!TypeOK, H!Given, H!Learning, H!Page, H!Talk, H!LiveChat
  <2>4. H!AnswersWhatIsAsked'
    BY <1>11, LearningAssumption DEF LearningInv, H!AnswersWhatIsAsked, H!AskedInv, H!TypeOK,
        H!Given, H!Learning, H!Page, H!Talk, H!LiveChat
  <2>. QED  BY <2>1, <2>2, <2>3, <2>4 DEF LearningInv
<1>12. ASSUME H!OnReply PROVE LearningInv'
  <2>1. H!TypeOK'
    <3>1. [visit |-> v13.visit, who |-> "assistant"] \in
            [visit : 0..Bound.changes, who : {"user", "assistant"}]
      BY <1>12 DEF LearningInv, H!TypeOK, H!OnReply
    <3>. QED  BY <1>12, <3>1 DEF LearningInv, H!TypeOK, H!OnReply, H!Page
  <2>2. (H!AnswersOfTheBrand /\ H!OneLearning)'
    BY <1>12, LearningAssumption DEF LearningInv, H!AnswersOfTheBrand, H!OneLearning, H!AskedInv,
        H!TypeOK, H!Given, H!Learning, H!Page, H!Talk, H!OnReply
  <2>3. H!AskedInv'
    BY <1>12, LearningAssumption DEF LearningInv, H!AskedInv, H!OneLearning, H!AnswersOfTheBrand,
        H!TypeOK, H!Given, H!Learning, H!Page, H!Talk, H!OnReply
  <2>4. H!AnswersWhatIsAsked'
    BY <1>12, LearningAssumption DEF LearningInv, H!AnswersWhatIsAsked, H!AskedInv, H!TypeOK,
        H!Given, H!Learning, H!Page, H!Talk, H!OnReply
  <2>. QED  BY <2>1, <2>2, <2>3, <2>4 DEF LearningInv
<1>13. CASE UNCHANGED H!hvars
  BY <1>13 DEF H!hvars, LearningInv, H!TypeOK, H!Given, H!Learning, H!Page, H!Talk,
      H!AnswersOfTheBrand, H!OneLearning, H!AskedInv, H!AnswersWhatIsAsked
<1>. QED  BY <1>1, <1>2, <1>3, <1>4, <1>5, <1>6, <1>7, <1>8, <1>9, <1>10, <1>11, <1>12, <1>13 DEF
    H!HNext

-------------------------------------------------------------------------------
(* The conversations of a brand *)
G == INSTANCE BrandRoom WITH
  Brands <- Names, MaxVersion <- Bound.turns, MaxPosts <- Bound.posts, brand <- v1, version <- v2,
  cells <- v3, room <- v4, draft <- v5, busy <- v6, retrying <- v7, wire <- v8,
  posts <- v9, misplaced <- v10, older <- v11, crossed <- v12

ASSUME RoomsAssumption ==
  /\ Bound.turns \in Nat /\ Bound.posts \in Nat \ {0}
  /\ None \notin G!Request \cup G!Cells \cup [cell : G!Cells, shown : 0..Bound.posts]

RoomsInv ==
  /\ G!TypeOK /\ G!AskedInv
  /\ G!BlockedWhileReplying /\ G!RepliedWhereTyped /\ G!OlderOnlyByRetry

\* No room is open, and nothing is asked.
LEMMA RoomsBegin == G!GInit => RoomsInv
<1>1. 0 \in 0..Bound.turns /\ 1 \in 1..Bound.posts
  BY RoomsAssumption
<1>2. G!GInit => G!TypeOK
  BY <1>1 DEF G!GInit, G!TypeOK
<1>3. G!GInit => G!Flying = {}
  BY DEF G!GInit, G!Flying
<1>. QED
  BY <1>2, <1>3 DEF G!GInit, G!AskedInv, G!BlockedWhileReplying, G!RepliedWhereTyped,
     G!OlderOnlyByRetry, RoomsInv

\* A request is sent, or becomes the next one.
LEMMA RoomsSent ==
  ASSUME G!TypeOK, NEW i \in Ids, NEW r \in G!Request, v8' = [v8 EXCEPT ![i] = r]
  PROVE  /\ v8' \in [Ids -> G!Request \cup {None}] /\ G!Flying' = G!Flying \cup {i} /\ v8'[i] = r
         /\ \A j \in G!Flying \ {i} : v8'[j] = v8[j]
BY RoomsAssumption DEF G!TypeOK, G!Flying

\* A request that has ended leaves the others as they are.
LEMMA RoomsLanded ==
  ASSUME G!TypeOK, NEW i \in Ids, G!Land(i)
  PROVE  /\ v8' \in [Ids -> G!Request \cup {None}] /\ G!Flying' = G!Flying \ {i}
         /\ \A j \in G!Flying' : v8'[j] = v8[j]
BY RoomsAssumption DEF G!TypeOK, G!Flying, G!Land

\* Every step of the rooms of a brand keeps the invariant.
LEMMA RoomsKeep == RoomsInv /\ [G!GNext]_(G!gvars) => RoomsInv'
<1>. SUFFICES ASSUME RoomsInv, [G!GNext]_(G!gvars) PROVE RoomsInv'
  OBVIOUS
<1>. USE DEF G!Current, G!Replying, G!Retrying, G!Owner
<1>a. /\ v2 \in Nat /\ v2 \in 0..Bound.turns /\ {v6, v7, v10, v11, v12} \subseteq BOOLEAN
      /\ v9 \in [G!Cells -> 1..Bound.posts] /\ (v4 # None => v4.cell \in G!Cells /\ v4.shown \in Nat)
      /\ \A j \in G!Flying : /\ j \in Ids /\ v8[j] \in G!Request /\ v8[j].version \in Nat
                              /\ v8[j].saw \in Nat /\ v8[j].cell \in G!Cells \cup {None}
  BY RoomsAssumption DEF RoomsInv, G!TypeOK, G!Flying, G!Request
<1>1. ASSUME NEW b \in Names \cup {None}, G!ReloadBrand(b) PROVE RoomsInv'
  <2>a. v2' = v2 + 1 /\ v2' \in 0..Bound.turns
    BY <1>1, <1>a, RoomsAssumption DEF G!ReloadBrand, G!Turn, RoomsInv, G!TypeOK
  <2>b. v8' = v8 /\ G!Flying' = G!Flying
    BY <1>1 DEF G!ReloadBrand, G!Flying
  <2>1. G!TypeOK'
    BY <1>1, <2>a, <2>b, RoomsAssumption DEF RoomsInv, G!TypeOK, G!ReloadBrand, G!Turn
  <2>2. G!AskedInv'
    BY <1>1, <2>a, <2>b, <1>a, RoomsAssumption DEF RoomsInv, G!AskedInv, G!AskedOfTheRoom,
        G!OneOfAKind, G!ReloadBrand, G!Turn
  <2>3. (G!BlockedWhileReplying /\ G!RepliedWhereTyped /\ G!OlderOnlyByRetry)'
    BY <1>1, <2>a, <2>b, <1>a, RoomsAssumption DEF RoomsInv, G!BlockedWhileReplying,
        G!RepliedWhereTyped, G!OlderOnlyByRetry, G!AskedInv, G!AskedOfTheRoom, G!OneOfAKind,
            G!ReloadBrand, G!Turn
  <2>. QED  BY <2>1, <2>2, <2>3 DEF RoomsInv
<1>2. ASSUME G!BrandCommunityDraft PROVE RoomsInv'
  <2>a. v8' = v8 /\ G!Flying' = G!Flying
    BY <1>2 DEF G!BrandCommunityDraft, G!Flying
  <2>1. G!TypeOK'
    BY <1>2, <2>a, RoomsAssumption DEF RoomsInv, G!TypeOK, G!BrandCommunityDraft
  <2>2. G!AskedInv'
    BY <1>2, <2>a, <1>a, RoomsAssumption DEF RoomsInv, G!AskedInv, G!AskedOfTheRoom, G!OneOfAKind,
        G!BrandCommunityDraft
  <2>3. (G!BlockedWhileReplying /\ G!RepliedWhereTyped /\ G!OlderOnlyByRetry)'
    BY <1>2, <2>a, <1>a, RoomsAssumption DEF RoomsInv, G!BlockedWhileReplying, G!RepliedWhereTyped,
        G!OlderOnlyByRetry, G!AskedInv, G!AskedOfTheRoom, G!OneOfAKind, G!BrandCommunityDraft
  <2>. QED  BY <2>1, <2>2, <2>3 DEF RoomsInv
<1>3. ASSUME NEW c \in G!Cells, G!MemberPosts(c) PROVE RoomsInv'
  <2>a. v8' = v8 /\ G!Flying' = G!Flying
    BY <1>3 DEF G!MemberPosts, G!Flying
  <2>1. G!TypeOK'
    BY <1>3, <2>a, RoomsAssumption DEF RoomsInv, G!TypeOK, G!MemberPosts
  <2>2. G!AskedInv'
    BY <1>3, <2>a, <1>a, RoomsAssumption DEF RoomsInv, G!AskedInv, G!AskedOfTheRoom, G!OneOfAKind,
        G!MemberPosts
  <2>3. (G!BlockedWhileReplying /\ G!RepliedWhereTyped /\ G!OlderOnlyByRetry)'
    BY <1>3, <2>a, <1>a, RoomsAssumption DEF RoomsInv, G!BlockedWhileReplying, G!RepliedWhereTyped,
        G!OlderOnlyByRetry, G!AskedInv, G!AskedOfTheRoom, G!OneOfAKind, G!MemberPosts
  <2>. QED  BY <2>1, <2>2, <2>3 DEF RoomsInv
<1>4. ASSUME NEW i \in Ids, G!BrandCommunityRefresh(i) PROVE RoomsInv'
  <2>a. v2' = v2 + 1 /\ v2' \in 0..Bound.turns
    BY <1>4, <1>a, RoomsAssumption DEF G!BrandCommunityRefresh, G!Turn, RoomsInv, G!TypeOK
  <2>b. PICK r \in G!Request :
          /\ r = [kind |-> "list", brand |-> v1, version |-> v2 + 1,
                  cell |-> None, draft |-> v5, reply |-> "open", saw |-> 0]
          /\ v8' = [v8 EXCEPT ![i] = r]
    <3>. DEFINE r == [kind |-> "list", brand |-> v1, version |-> v2 + 1,
                      cell |-> None, draft |-> v5, reply |-> "open", saw |-> 0]
    <3>1. r \in G!Request
      BY <1>4, <1>a, <2>a, RoomsAssumption DEF G!BrandCommunityRefresh, RoomsInv, G!TypeOK,
          G!Request, G!Kinds, G!RepliedWhereTyped, G!Owner, G!Cells
    <3>2. v8' = [v8 EXCEPT ![i] = r]
      BY <1>4, <2>a DEF G!BrandCommunityRefresh, G!Send, G!Ask
    <3>. QED  BY <3>1, <3>2
  <2>c. /\ v8' \in [Ids -> G!Request \cup {None}] /\ G!Flying' = G!Flying \cup {i} /\ v8'[i] = r
        /\ \A j \in G!Flying \ {i} : v8'[j] = v8[j]
    BY <2>b, RoomsSent DEF RoomsInv
  <2>d. i \notin G!Flying
    BY <1>4 DEF G!BrandCommunityRefresh, G!Send, G!Flying
  <2>1. G!TypeOK'
    BY <1>4, <2>a, <2>b, <2>c, <2>d, RoomsAssumption DEF RoomsInv, G!TypeOK,
        G!BrandCommunityRefresh
  <2>2. G!AskedInv'
    BY <1>4, <2>a, <2>b, <2>c, <2>d, <1>a, RoomsAssumption DEF RoomsInv, G!AskedInv,
        G!AskedOfTheRoom, G!OneOfAKind,
        G!BrandCommunityRefresh
  <2>3. (G!BlockedWhileReplying /\ G!RepliedWhereTyped /\ G!OlderOnlyByRetry)'
    BY <1>4, <2>a, <2>b, <2>c, <2>d, <1>a, RoomsAssumption DEF RoomsInv, G!BlockedWhileReplying,
        G!RepliedWhereTyped, G!OlderOnlyByRetry, G!AskedInv, G!AskedOfTheRoom, G!OneOfAKind,
            G!BrandCommunityRefresh
  <2>. QED  BY <2>1, <2>2, <2>3 DEF RoomsInv
<1>5. ASSUME NEW i \in Ids, G!BrandCommunitySend(i) PROVE RoomsInv'
  <2>b. PICK r \in G!Request :
          /\ r = [kind |-> "send", brand |-> v1, version |-> v2,
                  cell |-> v4.cell, draft |-> v5, reply |-> "open", saw |-> 0]
          /\ v8' = [v8 EXCEPT ![i] = r]
    <3>. DEFINE r == [kind |-> "send", brand |-> v1, version |-> v2,
                      cell |-> v4.cell, draft |-> v5, reply |-> "open", saw |-> 0]
    <3>1. r \in G!Request
      BY <1>5, <1>a, RoomsAssumption DEF G!BrandCommunitySend, RoomsInv, G!TypeOK, G!Request,
          G!Kinds, G!RepliedWhereTyped, G!Owner, G!Cells
    <3>2. v8' = [v8 EXCEPT ![i] = r]
      BY <1>5 DEF G!BrandCommunitySend, G!Send, G!Ask
    <3>. QED  BY <3>1, <3>2
  <2>c. /\ v8' \in [Ids -> G!Request \cup {None}] /\ G!Flying' = G!Flying \cup {i} /\ v8'[i] = r
        /\ \A j \in G!Flying \ {i} : v8'[j] = v8[j]
    BY <2>b, RoomsSent DEF RoomsInv
  <2>d. i \notin G!Flying
    BY <1>5 DEF G!BrandCommunitySend, G!Send, G!Flying
  <2>1. G!TypeOK'
    BY <1>5, <2>b, <2>c, <2>d, RoomsAssumption DEF RoomsInv, G!TypeOK, G!BrandCommunitySend
  <2>2. G!AskedInv'
    <3>1. v3' \in {None, v1'} /\ (v4' # None => v4'.shown <= v9'[v4'.cell])
      BY <1>5, <2>b, <2>c, <2>d, <1>a DEF RoomsInv, G!AskedInv, G!AskedOfTheRoom,
          G!BrandCommunitySend
    <3>2. ASSUME NEW k \in G!Flying' PROVE G!AskedOfTheRoom(k)'
      <4>1. CASE k = i
        BY <4>1, <1>5, <2>b, <2>c, <2>d, <1>a DEF RoomsInv, G!AskedInv, G!AskedOfTheRoom,
            G!OneOfAKind, G!RepliedWhereTyped, G!BrandCommunitySend
      <4>2. CASE k # i
        BY <3>2, <4>2, <1>5, <2>b, <2>c, <2>d, <1>a DEF RoomsInv, G!AskedInv, G!AskedOfTheRoom,
            G!OneOfAKind, G!BrandCommunitySend
      <4>. QED  BY <4>1, <4>2
    <3>3. ASSUME NEW k \in G!Flying', NEW l \in G!Flying' PROVE G!OneOfAKind(k, l)'
      BY <3>3, <1>5, <2>b, <2>c, <2>d, <1>a DEF RoomsInv, G!AskedInv, G!AskedOfTheRoom,
          G!OneOfAKind, G!BlockedWhileReplying, G!BrandCommunitySend
    <3>. QED  BY <3>1, <3>2, <3>3 DEF G!AskedInv
  <2>3. (G!BlockedWhileReplying /\ G!RepliedWhereTyped /\ G!OlderOnlyByRetry)'
    BY <1>5, <2>b, <2>c, <2>d, <1>a, RoomsAssumption DEF RoomsInv, G!BlockedWhileReplying,
        G!RepliedWhereTyped, G!OlderOnlyByRetry, G!AskedInv, G!AskedOfTheRoom, G!OneOfAKind,
            G!BrandCommunitySend
  <2>. QED  BY <2>1, <2>2, <2>3 DEF RoomsInv
<1>6. ASSUME NEW i \in Ids, G!BrandTranslationRetry(i) PROVE RoomsInv'
  <2>b. PICK r \in G!Request :
          /\ r = [kind |-> "retry", brand |-> v1, version |-> v2,
                  cell |-> v4.cell, draft |-> v5, reply |-> "open", saw |-> 0]
          /\ v8' = [v8 EXCEPT ![i] = r]
    <3>. DEFINE r == [kind |-> "retry", brand |-> v1, version |-> v2,
                      cell |-> v4.cell, draft |-> v5, reply |-> "open", saw |-> 0]
    <3>1. r \in G!Request
      BY <1>6, <1>a, RoomsAssumption DEF G!BrandTranslationRetry, RoomsInv, G!TypeOK, G!Request,
          G!Kinds, G!RepliedWhereTyped, G!Owner, G!Cells
    <3>2. v8' = [v8 EXCEPT ![i] = r]
      BY <1>6 DEF G!BrandTranslationRetry, G!Send, G!Ask
    <3>. QED  BY <3>1, <3>2
  <2>c. /\ v8' \in [Ids -> G!Request \cup {None}] /\ G!Flying' = G!Flying \cup {i} /\ v8'[i] = r
        /\ \A j \in G!Flying \ {i} : v8'[j] = v8[j]
    BY <2>b, RoomsSent DEF RoomsInv
  <2>d. i \notin G!Flying
    BY <1>6 DEF G!BrandTranslationRetry, G!Send, G!Flying
  <2>1. G!TypeOK'
    BY <1>6, <2>b, <2>c, <2>d, RoomsAssumption DEF RoomsInv, G!TypeOK, G!BrandTranslationRetry
  <2>2. G!AskedInv'
    <3>1. v3' \in {None, v1'} /\ (v4' # None => v4'.shown <= v9'[v4'.cell])
      BY <1>6, <2>b, <2>c, <2>d, <1>a DEF RoomsInv, G!AskedInv, G!AskedOfTheRoom,
          G!BrandTranslationRetry
    <3>2. ASSUME NEW k \in G!Flying' PROVE G!AskedOfTheRoom(k)'
      <4>1. CASE k = i
        BY <4>1, <1>6, <2>b, <2>c, <2>d, <1>a, RoomsAssumption DEF RoomsInv, G!AskedInv,
            G!AskedOfTheRoom, G!OneOfAKind, G!RepliedWhereTyped, G!BrandTranslationRetry
      <4>2. CASE k # i
        BY <3>2, <4>2, <1>6, <2>b, <2>c, <2>d, <1>a DEF RoomsInv, G!AskedInv, G!AskedOfTheRoom,
            G!OneOfAKind, G!BrandTranslationRetry
      <4>. QED  BY <4>1, <4>2
    <3>3. ASSUME NEW k \in G!Flying', NEW l \in G!Flying' PROVE G!OneOfAKind(k, l)'
      BY <3>3, <1>6, <2>b, <2>c, <2>d, <1>a DEF RoomsInv, G!AskedInv, G!AskedOfTheRoom,
          G!OneOfAKind, G!BlockedWhileReplying, G!BrandTranslationRetry
    <3>. QED  BY <3>1, <3>2, <3>3 DEF G!AskedInv
  <2>3. (G!BlockedWhileReplying /\ G!RepliedWhereTyped /\ G!OlderOnlyByRetry)'
    BY <1>6, <2>b, <2>c, <2>d, <1>a, RoomsAssumption DEF RoomsInv, G!BlockedWhileReplying,
        G!RepliedWhereTyped, G!OlderOnlyByRetry, G!AskedInv, G!AskedOfTheRoom, G!OneOfAKind,
            G!BrandTranslationRetry
  <2>. QED  BY <2>1, <2>2, <2>3 DEF RoomsInv
<1>7. ASSUME NEW i \in Ids, NEW c \in G!Cells, G!BrandCommunityOpen(i, c) PROVE RoomsInv'
  <2>a. v2' = v2 + 1 /\ v2' \in 0..Bound.turns
    BY <1>7, <1>a, RoomsAssumption DEF G!BrandCommunityOpen, G!Turn, RoomsInv, G!TypeOK
  <2>b. PICK r \in G!Request :
          /\ r = [kind |-> "open", brand |-> v1, version |-> v2 + 1,
                  cell |-> c, draft |-> None, reply |-> "open", saw |-> 0]
          /\ v8' = [v8 EXCEPT ![i] = r]
    <3>. DEFINE r == [kind |-> "open", brand |-> v1, version |-> v2 + 1,
                      cell |-> c, draft |-> None, reply |-> "open", saw |-> 0]
    <3>1. r \in G!Request
      BY <1>7, <1>a, <2>a, RoomsAssumption DEF G!BrandCommunityOpen, RoomsInv, G!TypeOK, G!Request,
          G!Kinds, G!RepliedWhereTyped, G!Owner, G!Cells
    <3>2. [G!Ask("open", v2 + 1, c) EXCEPT !.draft = None] = r
      BY DEF G!Ask
    <3>3. v8' = [v8 EXCEPT ![i] = r]
      BY <1>7, <3>2 DEF G!BrandCommunityOpen, G!Send
    <3>. QED  BY <3>1, <3>3
  <2>c. /\ v8' \in [Ids -> G!Request \cup {None}] /\ G!Flying' = G!Flying \cup {i} /\ v8'[i] = r
        /\ \A j \in G!Flying \ {i} : v8'[j] = v8[j]
    BY <2>b, RoomsSent DEF RoomsInv
  <2>d. i \notin G!Flying
    BY <1>7 DEF G!BrandCommunityOpen, G!Send, G!Flying
  <2>1. G!TypeOK'
    BY <1>7, <2>a, <2>b, <2>c, <2>d, RoomsAssumption DEF RoomsInv, G!TypeOK, G!BrandCommunityOpen
  <2>2. G!AskedInv'
    <3>1. v3' \in {None, v1'} /\ (v4' # None => v4'.shown <= v9'[v4'.cell])
      BY <1>7, <2>a, <2>b, <2>c, <2>d, <1>a DEF RoomsInv, G!AskedInv, G!AskedOfTheRoom,
          G!BrandCommunityOpen
    <3>2. ASSUME NEW k \in G!Flying' PROVE G!AskedOfTheRoom(k)'
      <4>1. CASE k = i
        BY <4>1, <1>7, <2>a, <2>b, <2>c, <2>d, <1>a, RoomsAssumption, NullAssumption DEF G!Cells,
            RoomsInv, G!AskedInv, G!AskedOfTheRoom, G!OneOfAKind, G!RepliedWhereTyped,
            G!BrandCommunityOpen
      <4>2. CASE k # i
        BY <3>2, <4>2, <1>7, <2>a, <2>b, <2>c, <2>d, <1>a DEF RoomsInv, G!AskedInv,
            G!AskedOfTheRoom, G!OneOfAKind, G!BrandCommunityOpen
      <4>. QED  BY <4>1, <4>2
    <3>3. ASSUME NEW k \in G!Flying', NEW l \in G!Flying' PROVE G!OneOfAKind(k, l)'
      BY <3>3, <1>7, <2>a, <2>b, <2>c, <2>d, <1>a DEF RoomsInv, G!AskedInv, G!AskedOfTheRoom,
          G!OneOfAKind, G!BlockedWhileReplying, G!BrandCommunityOpen
    <3>. QED  BY <3>1, <3>2, <3>3 DEF G!AskedInv
  <2>3. (G!BlockedWhileReplying /\ G!RepliedWhereTyped /\ G!OlderOnlyByRetry)'
    BY <1>7, <2>a, <2>b, <2>c, <2>d, <1>a, RoomsAssumption DEF RoomsInv, G!BlockedWhileReplying,
        G!RepliedWhereTyped, G!OlderOnlyByRetry, G!AskedInv, G!AskedOfTheRoom, G!OneOfAKind,
            G!BrandCommunityOpen
  <2>. QED  BY <2>1, <2>2, <2>3 DEF RoomsInv
<1>8. ASSUME NEW i \in Ids, G!Serve(i) PROVE RoomsInv'
  <2>a. PICK q \in G!Request :
        /\ i \in G!Flying /\ v8[i].reply = "open" /\ UNCHANGED <<v1, v2, v3, v4, v5, v6, v7, v11, v12>>
        /\ v8' = [v8 EXCEPT ![i] = q]
        /\ q.kind = v8[i].kind /\ q.brand = v8[i].brand /\ q.version = v8[i].version
        /\ q.cell = v8[i].cell /\ q.draft = v8[i].draft
        /\ v9' \in [G!Cells -> 1..Bound.posts] /\ \A c \in G!Cells : v9[c] <= v9'[c]
        /\ (q.cell # None => q.saw \in {v8[i].saw, v9[q.cell]})
        /\ (q.cell # None /\ q.kind # "send" /\ q.reply = "done" => q.saw = v9[q.cell])
        /\ v10' \in BOOLEAN /\ (v10' => v10 \/ (v8[i].kind = "send" /\ v8[i].draft # v8[i].cell))
        /\ (v9' # v9 => v8[i].kind = "send")
    <3>. DEFINE x == v8'[i]
    <3>1. /\ i \in G!Flying /\ v8[i].reply = "open" /\ UNCHANGED <<v1, v2, v3, v4, v5, v6, v7, v11, v12>>
          /\ v8[i] \in G!Request /\ v8 \in [Ids -> G!Request \cup {None}]
          /\ (v8[i].kind # "list" => v8[i].cell \in G!Cells)
      BY <1>8, <1>a DEF G!Serve, RoomsInv, G!TypeOK, G!AskedInv, G!AskedOfTheRoom
    <3>2. CASE /\ v8[i].kind = "send" /\ v9[v8[i].cell] < Bound.posts
               /\ v9' = [v9 EXCEPT ![v8[i].cell] = @ + 1]
               /\ v10' = (v10 \/ v8[i].draft # v8[i].cell)
               /\ v8' = [v8 EXCEPT ![i].reply = "done"]
      <4>1. v8' = [v8 EXCEPT ![i] = [v8[i] EXCEPT !.reply = "done"]] /\ x = [v8[i] EXCEPT !.reply = "done"]
        BY <3>1, <3>2
      <4>2. v9' \in [G!Cells -> 1..Bound.posts] /\ \A c \in G!Cells : v9[c] <= v9'[c]
        BY <3>1, <3>2, <1>a, RoomsAssumption
      <4>3. v9' # v9
        BY <3>1, <3>2, <1>a, RoomsAssumption
      <4>. QED  BY <3>1, <3>2, <4>1, <4>2, <4>3, <1>a DEF G!Request
    <3>3. CASE /\ v8[i].kind # "send" /\ UNCHANGED <<v9, v10>>
               /\ v8' = [v8 EXCEPT ![i].reply = "done",
                                   ![i].saw = IF v8[i].cell = None THEN 0 ELSE v9[v8[i].cell]]
      <4>. DEFINE n == IF v8[i].cell = None THEN 0 ELSE v9[v8[i].cell]
      <4>1. n \in 0..Bound.posts
        BY <3>1, <1>a, RoomsAssumption
      <4>2. v8' = [v8 EXCEPT ![i].reply = "done", ![i].saw = n]
        BY <3>3
      <4>. HIDE DEF n
      <4>3. x = [v8[i] EXCEPT !.reply = "done", !.saw = n] /\ v8' = [v8 EXCEPT ![i] = x]
        BY <3>1, <4>2
      <4>4. x \in G!Request /\ x.kind = v8[i].kind /\ x.brand = v8[i].brand /\ x.version = v8[i].version
            /\ x.cell = v8[i].cell /\ x.draft = v8[i].draft /\ x.saw = n
        BY <3>1, <4>1, <4>3 DEF G!Request
      <4>5. x.cell # None => x.saw = v9[x.cell]
        BY <4>4 DEF n
      <4>6. v9' \in [G!Cells -> 1..Bound.posts] /\ (\A c \in G!Cells : v9[c] <= v9'[c])
            /\ v10' \in BOOLEAN /\ (v10' => v10)
        BY <3>3, <1>a, RoomsAssumption
      <4>. QED  BY <3>1, <3>3, <4>3, <4>4, <4>5, <4>6
    <3>4. CASE v8' = [v8 EXCEPT ![i].reply = "failed"] /\ UNCHANGED <<v9, v10>>
      <4>1. x = [v8[i] EXCEPT !.reply = "failed"] /\ v8' = [v8 EXCEPT ![i] = x]
        BY <3>1, <3>4
      <4>2. /\ x \in G!Request /\ x.kind = v8[i].kind /\ x.brand = v8[i].brand
            /\ x.version = v8[i].version /\ x.cell = v8[i].cell /\ x.draft = v8[i].draft
            /\ x.saw = v8[i].saw /\ x.reply = "failed"
        BY <3>1, <4>1 DEF G!Request
      <4>3. v9' \in [G!Cells -> 1..Bound.posts] /\ (\A c \in G!Cells : v9[c] <= v9'[c])
            /\ v10' \in BOOLEAN /\ (v10' => v10)
        BY <3>4, <1>a, RoomsAssumption
      <4>. QED  BY <3>1, <3>4, <4>1, <4>2, <4>3
    <3>. QED  BY <1>8, <3>2, <3>3, <3>4 DEF G!Serve
  <2>b. /\ v8' \in [Ids -> G!Request \cup {None}] /\ G!Flying' = G!Flying /\ v8'[i] = q
        /\ \A j \in G!Flying \ {i} : v8'[j] = v8[j]
    <3>1. G!Flying \cup {i} = G!Flying
      BY <2>a
    <3>2. G!TypeOK /\ v8' = [v8 EXCEPT ![i] = q]
      BY <2>a DEF RoomsInv
    <3>. QED  BY <3>1, <3>2, RoomsSent
  <2>1. G!TypeOK'
    BY <2>a, <2>b DEF RoomsInv, G!TypeOK
  <2>2. G!AskedInv'
    <3>1. v3' \in {None, v1'} /\ (v4' # None => v4'.shown <= v9'[v4'.cell])
      BY <2>a, <1>a, RoomsAssumption DEF RoomsInv, G!AskedInv
    <3>2. ASSUME NEW k \in G!Flying PROVE G!AskedOfTheRoom(k)'
      <4>0. /\ G!AskedOfTheRoom(k)
            /\ \A c \in G!Cells : v9[c] <= v9'[c] /\ v9[c] \in Nat /\ v9'[c] \in Nat
        BY <2>a, <1>a, RoomsAssumption DEF RoomsInv, G!AskedInv
      <4>1. CASE k = i
        BY <4>0, <4>1, <2>a, <2>b, <1>a DEF RoomsInv, G!AskedInv, G!AskedOfTheRoom
      <4>2. CASE k # i
        BY <4>0, <4>2, <2>a, <2>b, <1>a DEF G!AskedOfTheRoom
      <4>. QED  BY <4>1, <4>2
    <3>3. ASSUME NEW k \in G!Flying, NEW l \in G!Flying PROVE G!OneOfAKind(k, l)'
      BY <2>a, <2>b DEF RoomsInv, G!AskedInv, G!OneOfAKind
    <3>. QED  BY <2>b, <3>1, <3>2, <3>3 DEF G!AskedInv
  <2>3. G!BlockedWhileReplying' /\ G!OlderOnlyByRetry'
    BY <2>a, <2>b DEF RoomsInv, G!BlockedWhileReplying, G!OlderOnlyByRetry
  <2>4. G!RepliedWhereTyped'
    BY <2>a DEF RoomsInv, G!RepliedWhereTyped, G!AskedInv, G!AskedOfTheRoom
  <2>. QED  BY <2>1, <2>2, <2>3, <2>4 DEF RoomsInv
<1>9. ASSUME NEW i \in Ids, G!OnList(i) PROVE RoomsInv'
  <2>a. /\ i \in G!Flying /\ v8' \in [Ids -> G!Request \cup {None}] /\ G!Flying' = G!Flying \ {i}
        /\ \A j \in G!Flying' : v8'[j] = v8[j]
    BY <1>9, RoomsLanded DEF G!OnList, G!Answered, RoomsInv
  <2>1. G!TypeOK'
    BY <1>9, <2>a, RoomsAssumption DEF RoomsInv, G!TypeOK, G!OnList, G!Answered, G!Good, G!Wanted
  <2>2. G!AskedInv'
    BY <1>9, <2>a, <1>a, RoomsAssumption DEF RoomsInv, G!AskedInv, G!AskedOfTheRoom, G!OneOfAKind,
        G!OnList, G!Answered, G!Good, G!Wanted
  <2>3. (G!BlockedWhileReplying /\ G!RepliedWhereTyped /\ G!OlderOnlyByRetry)'
    BY <1>9, <2>a, <1>a, RoomsAssumption DEF RoomsInv, G!BlockedWhileReplying, G!RepliedWhereTyped,
        G!OlderOnlyByRetry, G!AskedInv, G!AskedOfTheRoom, G!OneOfAKind, G!OnList, G!Answered,
            G!Good, G!Wanted
  <2>. QED  BY <2>1, <2>2, <2>3 DEF RoomsInv
<1>10. ASSUME NEW i \in Ids, G!OnOpen(i) PROVE RoomsInv'
  <2>a. /\ i \in G!Flying /\ v8' \in [Ids -> G!Request \cup {None}] /\ G!Flying' = G!Flying \ {i}
        /\ \A j \in G!Flying' : v8'[j] = v8[j]
    BY <1>10, RoomsLanded DEF G!OnOpen, G!Answered, RoomsInv
  <2>b. v8[i].kind = "open" /\ v8[i].cell \in G!Cells /\ v8[i].saw \in 0..Bound.posts
    BY <1>10, <2>a, <1>a, RoomsAssumption DEF RoomsInv, G!AskedInv, G!AskedOfTheRoom, G!Request,
        G!OnOpen, G!Answered
  <2>c. v4' = v4 \/ (/\ v4' = [cell |-> v8[i].cell, shown |-> v8[i].saw] /\ v4' # None
                    /\ v8[i].version = v2 /\ v8[i].brand = v1)
    BY <1>10, <2>b, RoomsAssumption DEF G!OnOpen, G!Wanted
  <2>d. UNCHANGED <<v1, v2, v3, v5, v6, v7, v9, v10, v11, v12>>
    BY <1>10 DEF G!OnOpen
  <2>1. G!TypeOK'
    BY <2>a, <2>b, <2>c, <2>d DEF RoomsInv, G!TypeOK
  <2>2. G!AskedInv'
    BY <2>a, <2>b, <2>c, <2>d, <1>a, RoomsAssumption DEF RoomsInv, G!AskedInv, G!AskedOfTheRoom,
        G!OneOfAKind
  <2>3. (G!BlockedWhileReplying /\ G!RepliedWhereTyped /\ G!OlderOnlyByRetry)'
    BY <2>a, <2>b, <2>c, <2>d, <1>a, RoomsAssumption DEF RoomsInv, G!BlockedWhileReplying,
        G!RepliedWhereTyped, G!OlderOnlyByRetry, G!AskedInv, G!AskedOfTheRoom, G!OneOfAKind
  <2>. QED  BY <2>1, <2>2, <2>3 DEF RoomsInv
<1>11. ASSUME NEW i \in Ids, G!OnSend(i) PROVE RoomsInv'
  <2>a. /\ i \in G!Flying /\ v8[i].kind = "send" /\ v8[i] \in G!Request /\ v8[i].cell \in G!Cells
        /\ UNCHANGED <<v1, v2, v3, v4, v9, v10, v11, v12>>
    BY <1>11, <1>a DEF G!OnSend, G!Answered, RoomsInv, G!AskedInv, G!AskedOfTheRoom
  <2>b. CASE G!Good(i) /\ G!Wanted(i)
    <3>. DEFINE r == [kind |-> "sent", brand |-> v1, version |-> v2,
                      cell |-> v8[i].cell, draft |-> v5,
                      reply |-> "open", saw |-> 0]
    <3>1. r \in G!Request
      BY <2>a, <2>b, <1>a, RoomsAssumption DEF RoomsInv, G!TypeOK, G!Wanted, G!Request, G!Kinds
    <3>2. v8' = [v8 EXCEPT ![i] = r] /\ v8[i].version = v2 /\ v5' = None /\ UNCHANGED <<v6, v7>>
      BY <1>11, <2>b DEF G!OnSend, G!Ask, G!Wanted
    <3>3. r.kind = "sent" /\ r.version = v2 /\ r.cell = v8[i].cell /\ r.saw = 0 /\ r.reply = "open"
      OBVIOUS
    <3>. HIDE DEF r
    <3>4. /\ v8' \in [Ids -> G!Request \cup {None}] /\ G!Flying' = G!Flying /\ v8'[i] = r
          /\ \A j \in G!Flying \ {i} : v8'[j] = v8[j]
      <4>1. G!Flying' = G!Flying \cup {i} /\ G!Flying \cup {i} = G!Flying
        BY <2>a, <3>1, <3>2, RoomsSent DEF RoomsInv
      <4>. QED  BY <2>a, <3>1, <3>2, <4>1, RoomsSent DEF RoomsInv
    <3>5. G!TypeOK'
      BY <2>a, <3>2, <3>4 DEF RoomsInv, G!TypeOK
    <3>6. G!AskedInv'
      <4>1. ASSUME NEW k \in G!Flying PROVE G!AskedOfTheRoom(k)'
        <5>1. CASE k = i
          BY <5>1, <2>a, <3>2, <3>3, <3>4, <1>a, RoomsAssumption DEF RoomsInv, G!AskedInv,
              G!AskedOfTheRoom
        <5>2. CASE k # i
          BY <5>2, <2>a, <3>2, <3>4, <1>a DEF RoomsInv, G!AskedInv, G!AskedOfTheRoom
        <5>. QED  BY <5>1, <5>2
      <4>2. ASSUME NEW k \in G!Flying, NEW l \in G!Flying PROVE G!OneOfAKind(k, l)'
        BY <2>a, <3>2, <3>3, <3>4 DEF RoomsInv, G!AskedInv, G!OneOfAKind
      <4>. QED  BY <4>1, <4>2, <2>a, <3>4 DEF RoomsInv, G!AskedInv
    <3>7. G!BlockedWhileReplying'
      BY <2>a, <3>2, <3>3, <3>4 DEF RoomsInv, G!BlockedWhileReplying
    <3>. QED  BY <2>a, <3>2, <3>5, <3>6, <3>7 DEF RoomsInv, G!RepliedWhereTyped, G!OlderOnlyByRetry
  <2>c. CASE ~(G!Good(i) /\ G!Wanted(i))
    <3>1. /\ v8' \in [Ids -> G!Request \cup {None}] /\ G!Flying' = G!Flying \ {i}
          /\ \A j \in G!Flying' : v8'[j] = v8[j]
      BY <1>11, <2>c, RoomsLanded DEF G!OnSend, RoomsInv
    <3>2. UNCHANGED <<v5, v7>> /\ v6' = (v6 /\ v8[i].version # v2)
      BY <1>11, <2>c DEF G!OnSend
    <3>3. G!TypeOK'
      BY <2>a, <3>1, <3>2 DEF RoomsInv, G!TypeOK
    <3>4. G!AskedInv'
      BY <2>a, <3>1, <3>2, <1>a DEF RoomsInv, G!AskedInv, G!AskedOfTheRoom, G!OneOfAKind
    <3>5. G!BlockedWhileReplying'
      BY <2>a, <3>1, <3>2, <1>a DEF RoomsInv, G!BlockedWhileReplying, G!AskedInv, G!OneOfAKind
    <3>. QED  BY <2>a, <3>2, <3>3, <3>4, <3>5 DEF RoomsInv, G!RepliedWhereTyped, G!OlderOnlyByRetry
  <2>. QED  BY <2>b, <2>c
<1>12. ASSUME NEW i \in Ids, G!OnSent(i) PROVE RoomsInv'
  <2>a. /\ i \in G!Flying /\ v8' \in [Ids -> G!Request \cup {None}] /\ G!Flying' = G!Flying \ {i}
        /\ \A j \in G!Flying' : v8'[j] = v8[j]
    BY <1>12, RoomsLanded DEF G!OnSent, G!Answered, RoomsInv
  <2>b. /\ v8[i].kind = "sent" /\ v8[i].saw \in 0..Bound.posts
        /\ UNCHANGED <<v1, v2, v3, v5, v9, v10, v12>> /\ v6' = (v6 /\ v8[i].version # v2) /\ v7' = v7
    BY <1>12, <2>a, <1>a DEF G!OnSent, G!Answered, G!Request
  <2>c. \/ UNCHANGED <<v4, v11>>
        \/ /\ v8[i].version = v2 /\ v4 # None /\ v8[i].cell = v4.cell
           /\ v4' = [cell |-> v4.cell, shown |-> v8[i].saw] /\ v4' # None
           /\ v8[i].reply = "done" /\ v8[i].saw <= v9[v4.cell]
           /\ v11' \in BOOLEAN /\ (v11' => v11 \/ v8[i].saw < v4.shown)
    <3>1. CASE G!Good(i) /\ G!Wanted(i)
      <4>1. v8[i].version = v2 /\ v8[i].reply = "done"
        BY <3>1 DEF G!Good, G!Wanted
      <4>2. v4 # None /\ v8[i].cell = v4.cell /\ v8[i].saw <= v9[v4.cell]
        BY <2>a, <2>b, <4>1 DEF RoomsInv, G!AskedInv, G!AskedOfTheRoom
      <4>3. v4 \in [cell : G!Cells, shown : 0..Bound.posts]
        BY <4>2 DEF RoomsInv, G!TypeOK
      <4>4. v4' = [v4 EXCEPT !.shown = v8[i].saw] /\ v11' = (v11 \/ v8[i].saw < v4.shown)
        BY <1>12, <3>1 DEF G!OnSent, G!Shows
      <4>5. v4' = [cell |-> v4.cell, shown |-> v8[i].saw]
        BY <4>3, <4>4
      <4>6. v4' # None
        BY <2>b, <4>3, <4>5, RoomsAssumption
      <4>7. v11' \in BOOLEAN /\ (v11' => v11 \/ v8[i].saw < v4.shown)
        BY <4>4
      <4>. QED  BY <4>1, <4>2, <4>5, <4>6, <4>7
    <3>2. CASE ~(G!Good(i) /\ G!Wanted(i))
      BY <1>12, <3>2 DEF G!OnSent, G!Shows
    <3>. QED  BY <3>1, <3>2
  <2>1. G!TypeOK'
    <3>1. v4' \in [cell : G!Cells, shown : 0..Bound.posts] \cup {None}
      BY <2>b, <2>c, <1>a DEF RoomsInv, G!TypeOK
    <3>. QED  BY <2>a, <2>b, <2>c, <3>1, <1>a DEF RoomsInv, G!TypeOK
  <2>2. G!AskedInv'
    <3>1. ASSUME NEW k \in G!Flying' PROVE G!AskedOfTheRoom(k)'
      BY <2>a, <2>b, <2>c, <1>a DEF RoomsInv, G!AskedInv, G!AskedOfTheRoom, G!OneOfAKind
    <3>2. ASSUME NEW k \in G!Flying', NEW l \in G!Flying' PROVE G!OneOfAKind(k, l)'
      BY <2>a, <2>b DEF RoomsInv, G!AskedInv, G!OneOfAKind
    <3>3. v4' # None => v4'.shown <= v9'[v4'.cell]
      BY <2>b, <2>c DEF RoomsInv, G!AskedInv
    <3>. QED  BY <2>b, <3>1, <3>2, <3>3 DEF RoomsInv, G!AskedInv
  <2>3. G!BlockedWhileReplying'
    BY <2>a, <2>b, <1>a DEF RoomsInv, G!BlockedWhileReplying, G!AskedInv, G!OneOfAKind
  <2>4. G!RepliedWhereTyped'
    BY <2>b, <2>c DEF RoomsInv, G!RepliedWhereTyped
  <2>5. G!OlderOnlyByRetry'
    <3>1. CASE UNCHANGED v11
      BY <2>b, <3>1 DEF RoomsInv, G!OlderOnlyByRetry
    <3>2. CASE ~UNCHANGED v11
      <4>1. ~v12 => v4.shown <= v8[i].saw
        BY <2>a, <2>b, <2>c, <3>2 DEF RoomsInv, G!AskedInv, G!AskedOfTheRoom
      <4>2. ~v12 => ~(v8[i].saw < v4.shown)
        BY <2>a, <2>c, <3>2, <4>1, <1>a
      <4>3. v11' => v11 \/ v8[i].saw < v4.shown
        BY <2>c, <3>2
      <4>4. v11 => v12
        BY DEF RoomsInv, G!OlderOnlyByRetry
      <4>5. v12' = v12
        BY <2>b
      <4>. QED  BY <4>2, <4>3, <4>4, <4>5 DEF G!OlderOnlyByRetry
    <3>. QED  BY <3>1, <3>2
  <2>. QED  BY <2>1, <2>2, <2>3, <2>4, <2>5 DEF RoomsInv
<1>13. ASSUME NEW i \in Ids, G!OnRetry(i) PROVE RoomsInv'
  <2>a. /\ i \in G!Flying /\ v8[i].kind = "retry" /\ v8[i] \in G!Request /\ v8[i].cell \in G!Cells
        /\ UNCHANGED <<v1, v2, v3, v4, v9, v10, v11, v12>>
    BY <1>13, <1>a DEF G!OnRetry, G!Answered, RoomsInv, G!AskedInv, G!AskedOfTheRoom
  <2>b. CASE G!Good(i) /\ G!Wanted(i)
    <3>. DEFINE r == [kind |-> "retried", brand |-> v1, version |-> v2,
                      cell |-> v8[i].cell, draft |-> v5,
                      reply |-> "open", saw |-> 0]
    <3>1. r \in G!Request
      BY <2>a, <2>b, <1>a, RoomsAssumption DEF RoomsInv, G!TypeOK, G!Wanted, G!Request, G!Kinds
    <3>2. v8' = [v8 EXCEPT ![i] = r] /\ v8[i].version = v2 /\ UNCHANGED <<v5, v6, v7>>
      BY <1>13, <2>b DEF G!OnRetry, G!Ask, G!Wanted
    <3>3. r.kind = "retried" /\ r.version = v2 /\ r.cell = v8[i].cell /\ r.saw = 0 /\ r.reply = "open"
      OBVIOUS
    <3>. HIDE DEF r
    <3>4. /\ v8' \in [Ids -> G!Request \cup {None}] /\ G!Flying' = G!Flying /\ v8'[i] = r
          /\ \A j \in G!Flying \ {i} : v8'[j] = v8[j]
      <4>1. G!Flying' = G!Flying \cup {i} /\ G!Flying \cup {i} = G!Flying
        BY <2>a, <3>1, <3>2, RoomsSent DEF RoomsInv
      <4>. QED  BY <2>a, <3>1, <3>2, <4>1, RoomsSent DEF RoomsInv
    <3>5. G!TypeOK'
      BY <2>a, <3>2, <3>4 DEF RoomsInv, G!TypeOK
    <3>6. G!AskedInv'
      <4>1. ASSUME NEW k \in G!Flying PROVE G!AskedOfTheRoom(k)'
        <5>1. CASE k = i
          BY <5>1, <2>a, <3>2, <3>3, <3>4, <1>a, RoomsAssumption DEF RoomsInv, G!AskedInv,
              G!AskedOfTheRoom
        <5>2. CASE k # i
          BY <5>2, <2>a, <3>2, <3>4, <1>a DEF RoomsInv, G!AskedInv, G!AskedOfTheRoom
        <5>. QED  BY <5>1, <5>2
      <4>2. ASSUME NEW k \in G!Flying, NEW l \in G!Flying PROVE G!OneOfAKind(k, l)'
        BY <2>a, <3>2, <3>3, <3>4 DEF RoomsInv, G!AskedInv, G!OneOfAKind
      <4>. QED  BY <4>1, <4>2, <2>a, <3>4 DEF RoomsInv, G!AskedInv
    <3>7. G!BlockedWhileReplying'
      BY <2>a, <3>2, <3>3, <3>4 DEF RoomsInv, G!BlockedWhileReplying
    <3>. QED  BY <2>a, <3>2, <3>5, <3>6, <3>7 DEF RoomsInv, G!RepliedWhereTyped, G!OlderOnlyByRetry
  <2>c. CASE ~(G!Good(i) /\ G!Wanted(i))
    <3>1. /\ v8' \in [Ids -> G!Request \cup {None}] /\ G!Flying' = G!Flying \ {i}
          /\ \A j \in G!Flying' : v8'[j] = v8[j]
      BY <1>13, <2>c, RoomsLanded DEF G!OnRetry, RoomsInv
    <3>2. UNCHANGED <<v5, v6>> /\ v7' = FALSE
      BY <1>13, <2>c DEF G!OnRetry
    <3>3. G!TypeOK'
      BY <2>a, <3>1, <3>2 DEF RoomsInv, G!TypeOK
    <3>4. G!AskedInv'
      BY <2>a, <3>1, <3>2, <1>a DEF RoomsInv, G!AskedInv, G!AskedOfTheRoom, G!OneOfAKind
    <3>5. G!BlockedWhileReplying'
      BY <2>a, <3>1, <3>2, <1>a DEF RoomsInv, G!BlockedWhileReplying, G!AskedInv, G!OneOfAKind
    <3>. QED  BY <2>a, <3>2, <3>3, <3>4, <3>5 DEF RoomsInv, G!RepliedWhereTyped, G!OlderOnlyByRetry
  <2>. QED  BY <2>b, <2>c
<1>14. ASSUME NEW i \in Ids, G!OnRetried(i) PROVE RoomsInv'
  <2>a. /\ i \in G!Flying /\ v8' \in [Ids -> G!Request \cup {None}] /\ G!Flying' = G!Flying \ {i}
        /\ \A j \in G!Flying' : v8'[j] = v8[j]
    BY <1>14, RoomsLanded DEF G!OnRetried, G!Answered, RoomsInv
  <2>b. /\ v8[i].kind = "retried" /\ v8[i].saw \in 0..Bound.posts
        /\ UNCHANGED <<v1, v2, v3, v5, v9, v10, v12>> /\ v7' = FALSE /\ v6' = v6
    BY <1>14, <2>a, <1>a DEF G!OnRetried, G!Answered, G!Request
  <2>c. \/ UNCHANGED <<v4, v11>>
        \/ /\ v8[i].version = v2 /\ v4 # None /\ v8[i].cell = v4.cell
           /\ v4' = [cell |-> v4.cell, shown |-> v8[i].saw] /\ v4' # None
           /\ v8[i].reply = "done" /\ v8[i].saw <= v9[v4.cell]
           /\ v11' \in BOOLEAN /\ (v11' => v11 \/ v8[i].saw < v4.shown)
    <3>1. CASE G!Good(i) /\ G!Wanted(i)
      <4>1. v8[i].version = v2 /\ v8[i].reply = "done"
        BY <3>1 DEF G!Good, G!Wanted
      <4>2. v4 # None /\ v8[i].cell = v4.cell /\ v8[i].saw <= v9[v4.cell]
        BY <2>a, <2>b, <4>1 DEF RoomsInv, G!AskedInv, G!AskedOfTheRoom
      <4>3. v4 \in [cell : G!Cells, shown : 0..Bound.posts]
        BY <4>2 DEF RoomsInv, G!TypeOK
      <4>4. v4' = [v4 EXCEPT !.shown = v8[i].saw] /\ v11' = (v11 \/ v8[i].saw < v4.shown)
        BY <1>14, <3>1 DEF G!OnRetried, G!Shows
      <4>5. v4' = [cell |-> v4.cell, shown |-> v8[i].saw]
        BY <4>3, <4>4
      <4>6. v4' # None
        BY <2>b, <4>3, <4>5, RoomsAssumption
      <4>7. v11' \in BOOLEAN /\ (v11' => v11 \/ v8[i].saw < v4.shown)
        BY <4>4
      <4>. QED  BY <4>1, <4>2, <4>5, <4>6, <4>7
    <3>2. CASE ~(G!Good(i) /\ G!Wanted(i))
      BY <1>14, <3>2 DEF G!OnRetried, G!Shows
    <3>. QED  BY <3>1, <3>2
  <2>1. G!TypeOK'
    <3>1. v4' \in [cell : G!Cells, shown : 0..Bound.posts] \cup {None}
      BY <2>b, <2>c, <1>a DEF RoomsInv, G!TypeOK
    <3>. QED  BY <2>a, <2>b, <2>c, <3>1, <1>a DEF RoomsInv, G!TypeOK
  <2>2. G!AskedInv'
    <3>1. ASSUME NEW k \in G!Flying' PROVE G!AskedOfTheRoom(k)'
      BY <2>a, <2>b, <2>c, <1>a DEF RoomsInv, G!AskedInv, G!AskedOfTheRoom, G!OneOfAKind
    <3>2. ASSUME NEW k \in G!Flying', NEW l \in G!Flying' PROVE G!OneOfAKind(k, l)'
      BY <2>a, <2>b DEF RoomsInv, G!AskedInv, G!OneOfAKind
    <3>3. v4' # None => v4'.shown <= v9'[v4'.cell]
      BY <2>b, <2>c DEF RoomsInv, G!AskedInv
    <3>. QED  BY <2>b, <3>1, <3>2, <3>3 DEF RoomsInv, G!AskedInv
  <2>3. G!BlockedWhileReplying'
    BY <2>a, <2>b, <1>a DEF RoomsInv, G!BlockedWhileReplying, G!AskedInv, G!OneOfAKind
  <2>4. G!RepliedWhereTyped'
    BY <2>b, <2>c DEF RoomsInv, G!RepliedWhereTyped
  <2>5. G!OlderOnlyByRetry'
    <3>1. CASE UNCHANGED v11
      BY <2>b, <3>1 DEF RoomsInv, G!OlderOnlyByRetry
    <3>2. CASE ~UNCHANGED v11
      <4>1. ~v12 => v4.shown <= v8[i].saw
        BY <2>a, <2>b, <2>c, <3>2 DEF RoomsInv, G!AskedInv, G!AskedOfTheRoom
      <4>2. ~v12 => ~(v8[i].saw < v4.shown)
        BY <2>a, <2>c, <3>2, <4>1, <1>a
      <4>3. v11' => v11 \/ v8[i].saw < v4.shown
        BY <2>c, <3>2
      <4>4. v11 => v12
        BY DEF RoomsInv, G!OlderOnlyByRetry
      <4>5. v12' = v12
        BY <2>b
      <4>. QED  BY <4>2, <4>3, <4>4, <4>5 DEF G!OlderOnlyByRetry
    <3>. QED  BY <3>1, <3>2
  <2>. QED  BY <2>1, <2>2, <2>3, <2>4, <2>5 DEF RoomsInv
<1>15. CASE UNCHANGED G!gvars
  BY <1>15 DEF G!gvars, RoomsInv, G!TypeOK, G!AskedInv, G!AskedOfTheRoom, G!OneOfAKind,
      G!BlockedWhileReplying, G!RepliedWhereTyped, G!OlderOnlyByRetry, G!Flying
<1>. QED BY <1>1, <1>2, <1>3, <1>4, <1>5, <1>6, <1>7, <1>8, <1>9, <1>10, <1>11, <1>12, <1>13,
    <1>14, <1>15 DEF G!GNext

\* A text that is typed goes with its room, or is stored in it.
LEMMA RoomsDraft == RoomsInv /\ [G!GNext]_(G!gvars) => G!DraftIsKept
<1>. SUFFICES ASSUME RoomsInv, [G!GNext]_(G!gvars), v5 # None, v5' # v5, v2' = v2
              PROVE  /\ v5' = None
                     /\ \E i \in G!Flying : /\ v8[i].kind = "send" /\ v8[i].reply = "done"
                                           /\ v8[i].cell = v5
  BY DEF G!DraftIsKept
<1>1. v2 \in Nat /\ v4 # None /\ v5 = v4.cell
  BY RoomsAssumption DEF RoomsInv, G!TypeOK, G!RepliedWhereTyped
<1>2. ~G!Turn
  BY <1>1 DEF G!Turn
<1>3. ~G!BrandCommunityDraft
  BY <1>1 DEF G!BrandCommunityDraft
<1>4. PICK i \in Ids : G!OnSend(i)
  BY <1>2, <1>3, Zenon DEF G!GNext, G!gvars, G!ReloadBrand, G!MemberPosts, G!BrandCommunityRefresh,
     G!BrandCommunityOpen, G!BrandCommunitySend, G!BrandTranslationRetry, G!Serve, G!OnList, G!OnOpen,
     G!OnSent, G!OnRetry, G!OnRetried
<1>5. /\ i \in G!Flying /\ v8[i].kind = "send" /\ v8[i].reply = "done" /\ v8[i].version = v2
      /\ v5' = None
  BY <1>4 DEF G!OnSend, G!Answered, G!Good, G!Wanted
<1>6. v8[i].cell = v4.cell
  BY <1>5 DEF RoomsInv, G!AskedInv, G!AskedOfTheRoom, G!Current, G!Replying
<1>. QED  BY <1>1, <1>5, <1>6

-------------------------------------------------------------------------------
(* The desk of an administrator *)
D == INSTANCE AdminDesk WITH
  Items <- Names, screen <- v1, decided <- v2, rows <- v3, busy <- v4, wire <- v5,
  told <- v6, overlapped <- v7

ASSUME DeskAssumption == None \notin D!Request \cup D!Verdicts

DeskInv == D!TypeOK /\ D!AskedInv /\ D!OneDecisionEach /\ D!LinkIsShown

\* Nothing is decided, and nothing asked.
LEMMA DeskBegins == D!DInit => DeskInv
<1>1. D!DInit => D!TypeOK
  BY DEF D!DInit, D!TypeOK
<1>2. D!DInit => D!Flying = {} /\ \A x \in Names : v2[x] # "granted"
  BY DeskAssumption DEF D!DInit, D!Flying, D!Verdicts
<1>. QED
  BY <1>1, <1>2 DEF D!DInit, D!AskedInv, D!OneDecisionEach, D!LinkIsShown, DeskInv

\* The steps a request goes through.
DeskSame(q, r, s) ==
  r \in D!Request /\ r.step = s /\ r.here = q.here /\ r.item = q.item /\ r.verdict = q.verdict

\* A request that is there may become another one.
LEMMA DeskMoves ==
  ASSUME NEW q \in D!Request, NEW s \in {"asked", "done", "refused", "loading", "loaded"}
  PROVE  DeskSame(q, [q EXCEPT !.step = s], s)
BY DEF D!Request, DeskSame

\* A request is sent, or becomes another one.
LEMMA DeskSent ==
  ASSUME D!TypeOK, NEW i \in Ids, NEW r \in D!Request, v5' = [v5 EXCEPT ![i] = r]
  PROVE  /\ v5' \in [Ids -> D!Request \cup {None}] /\ D!Flying' = D!Flying \cup {i} /\ v5'[i] = r
         /\ \A j \in D!Flying \ {i} : v5'[j] = v5[j]
BY DeskAssumption DEF D!TypeOK, D!Flying

\* A request that has ended leaves the others as they are.
LEMMA DeskLanded ==
  ASSUME D!TypeOK, NEW i \in Ids, D!Land(i)
  PROVE  /\ v5' \in [Ids -> D!Request \cup {None}] /\ D!Flying' = D!Flying \ {i}
         /\ \A j \in D!Flying' : v5'[j] = v5[j]
BY DeskAssumption DEF D!TypeOK, D!Flying, D!Land

\* Every step of the desk and of what it asks keeps the invariant.
LEMMA DeskKeeps == DeskInv /\ [D!DNext]_(D!dvars) => DeskInv'
<1>. SUFFICES ASSUME DeskInv, [D!DNext]_(D!dvars) PROVE DeskInv'
  OBVIOUS
<1>a. /\ v7 \in BOOLEAN
      /\ \A j \in D!Flying : /\ j \in Ids /\ v5[j] \in D!Request /\ v5[j].here \in BOOLEAN
                              /\ v5[j].item \in Names \cup {None}
  BY DeskAssumption DEF DeskInv, D!TypeOK, D!Flying, D!Request
<1>1. ASSUME D!Leave PROVE DeskInv'
  <2>a. /\ v5' \in [Ids -> D!Request \cup {None}]
        /\ \A j \in D!Flying' : /\ j \in D!Flying /\ ~v5'[j].here /\ v5'[j].step = "asked"
                                /\ v5'[j].item = v5[j].item /\ v5[j].item # None /\ v5[j].item \in v6'
    <3>1. ASSUME NEW j \in Ids
          PROVE  /\ v5'[j] \in D!Request \cup {None}
                 /\ v5'[j] # None => /\ j \in D!Flying /\ ~v5'[j].here /\ v5'[j].step = "asked"
                                      /\ v5'[j].item = v5[j].item /\ v5[j].item # None /\ v5[j].item \in v6'
      <4>1. CASE ~D!Here(j)
        BY <1>1, <4>1, <1>a DEF D!Leave, D!Here, D!Flying, DeskInv, D!AskedInv, D!AskedOfTheDesk
      <4>2. CASE D!Here(j) /\ v5[j].step = "asked"
        <5>1. v5'[j] = [v5[j] EXCEPT !.here = FALSE] /\ v5[j] \in D!Request
          BY <1>1, <4>2, <1>a DEF D!Leave, D!Here
        <5>2. v5'[j] \in D!Request /\ ~v5'[j].here /\ v5'[j].step = "asked" /\ v5'[j].item = v5[j].item
          BY <4>2, <5>1 DEF D!Request
        <5>3. v5[j].item \in v6'
          BY <1>1, <4>2 DEF D!Leave
        <5>. QED  BY <4>2, <5>2, <5>3 DEF D!Here, DeskInv, D!AskedInv, D!AskedOfTheDesk
      <4>3. CASE D!Here(j) /\ v5[j].step # "asked"
        BY <1>1, <4>3 DEF D!Leave
      <4>. QED  BY <4>1, <4>2, <4>3
    <3>2. v5' = [j \in Ids |-> v5'[j]]
      BY <1>1 DEF D!Leave
    <3>. QED  BY <3>1, <3>2 DEF D!Flying
  <2>b. \A j \in D!Flying : v5[j].step = "done" => v5[j].item \in v6'
    BY <1>1, <1>a DEF D!Leave, D!Here, DeskInv, D!AskedInv, D!AskedOfTheDesk
  <2>c. v6 \subseteq v6' /\ v6' \subseteq Names
    BY <1>1, <1>a, NullAssumption DEF D!Leave, D!Here, DeskInv, D!TypeOK, D!AskedInv,
        D!AskedOfTheDesk
  <2>d. v3' = {} /\ v4' = None /\ v7' = FALSE /\ v1' = v1 /\ v2' = v2
    BY <1>1 DEF D!Leave
  <2>1. D!TypeOK'
    BY <2>a, <2>c, <2>d DEF DeskInv, D!TypeOK
  <2>2. D!AskedInv'
    BY <1>1, <2>a, <2>b, <2>c, <2>d, <1>a, NullAssumption, DeskAssumption DEF DeskInv, D!AskedInv,
        D!AskedOfTheDesk, D!Applications, D!Leave, D!Here
  <2>3. (D!OneDecisionEach /\ D!LinkIsShown)'
    BY <2>a, <2>b, <2>c, <2>d DEF DeskInv, D!OneDecisionEach, D!LinkIsShown, D!Applications, D!Here
  <2>. QED  BY <2>1, <2>2, <2>3 DEF DeskInv
<1>2. ASSUME NEW x \in Names, D!GiveUp(x) PROVE DeskInv'
  <2>a. v5' = v5 /\ D!Flying' = D!Flying
    BY <1>2 DEF D!GiveUp, D!Flying
  <2>1. D!TypeOK'
    BY <1>2, <2>a, NullAssumption, DeskAssumption DEF DeskInv, D!TypeOK, D!GiveUp
  <2>2. D!AskedInv'
    BY <1>2, <2>a, <1>a, NullAssumption, DeskAssumption DEF DeskInv, D!AskedInv, D!AskedOfTheDesk,
        D!Applications, D!GiveUp
  <2>3. (D!OneDecisionEach /\ D!LinkIsShown)'
    BY <1>2, <2>a, <1>a, NullAssumption, DeskAssumption DEF DeskInv, D!OneDecisionEach,
        D!LinkIsShown, D!AskedInv, D!AskedOfTheDesk, D!Applications, D!Here, D!GiveUp
  <2>. QED  BY <2>1, <2>2, <2>3 DEF DeskInv
<1>3. ASSUME NEW x \in Names, NEW v \in D!Verdicts, D!OthersDecide(x, v) PROVE DeskInv'
  <2>a. v5' = v5 /\ D!Flying' = D!Flying
    BY <1>3 DEF D!OthersDecide, D!Flying
  <2>1. D!TypeOK'
    BY <1>3, <2>a, NullAssumption, DeskAssumption DEF DeskInv, D!TypeOK, D!OthersDecide
  <2>2. D!AskedInv'
    <3>1. ASSUME NEW j \in D!Flying' PROVE D!AskedOfTheDesk(j)'
      <4>1. /\ D!AskedOfTheDesk(j) /\ v5[j] \in D!Request
            /\ v2[x] = None /\ v2 \in [Names -> D!Verdicts \cup {None}]
        BY <1>3, <2>a, <1>a DEF DeskInv, D!TypeOK, D!AskedInv, D!OthersDecide
      <4>2. v5[j].step = "done" => v5[j].item # x
        BY <4>1, DeskAssumption DEF D!AskedOfTheDesk, D!Request
      <4>3. v5[j].step = "done" => v2'[v5[j].item] = v2[v5[j].item]
        BY <1>3, <2>a, <4>1, <4>2, <1>a DEF D!OthersDecide, D!AskedOfTheDesk
      <4>. QED  BY <1>3, <2>a, <4>1, <4>3 DEF D!AskedOfTheDesk, D!Applications, D!OthersDecide
    <3>. QED  BY <1>3, <3>1, <2>a, <1>a DEF DeskInv, D!AskedInv, D!Applications, D!OthersDecide
  <2>3. (D!OneDecisionEach /\ D!LinkIsShown)'
    BY <1>3, <2>a, <1>a, NullAssumption, DeskAssumption DEF DeskInv, D!OneDecisionEach,
        D!LinkIsShown, D!AskedInv, D!AskedOfTheDesk, D!Applications, D!Here, D!OthersDecide
  <2>. QED  BY <2>1, <2>2, <2>3 DEF DeskInv
<1>4. ASSUME NEW i \in Ids, D!Mount(i) PROVE DeskInv'
  <2>a. PICK r \in D!Request :
          /\ r = [here |-> TRUE, item |-> None, verdict |-> "denied", step |-> "loading", list |-> {}]
          /\ v5' = [v5 EXCEPT ![i] = r] /\ i \notin D!Flying
    BY <1>4 DEF D!Mount, D!Send, D!Flying, D!Request, D!Verdicts
  <2>b. /\ v5' \in [Ids -> D!Request \cup {None}] /\ D!Flying' = D!Flying \cup {i} /\ v5'[i] = r
        /\ \A j \in D!Flying \ {i} : v5'[j] = v5[j]
    BY <2>a, DeskSent DEF DeskInv
  <2>1. D!TypeOK'
    BY <1>4, <2>a, <2>b, NullAssumption, DeskAssumption DEF DeskInv, D!TypeOK, D!Mount
  <2>2. D!AskedInv'
    BY <1>4, <2>a, <2>b, <1>a, NullAssumption, DeskAssumption DEF DeskInv, D!AskedInv,
        D!AskedOfTheDesk, D!Applications, D!Mount
  <2>3. (D!OneDecisionEach /\ D!LinkIsShown)'
    BY <1>4, <2>a, <2>b, <1>a, NullAssumption, DeskAssumption DEF DeskInv, D!OneDecisionEach,
        D!LinkIsShown, D!AskedInv, D!AskedOfTheDesk, D!Applications, D!Here, D!Mount
  <2>. QED  BY <2>1, <2>2, <2>3 DEF DeskInv
<1>5. ASSUME NEW i \in Ids, NEW x \in Names, NEW v \in D!Verdicts, D!Decide(i, x, v) PROVE DeskInv'
  <2>a. PICK r \in D!Request :
          /\ r = [here |-> TRUE, item |-> x, verdict |-> v, step |-> "asked", list |-> {}]
          /\ v5' = [v5 EXCEPT ![i] = r] /\ i \notin D!Flying
    BY <1>5 DEF D!Decide, D!Send, D!Flying, D!Request, D!Verdicts
  <2>b. /\ v5' \in [Ids -> D!Request \cup {None}] /\ D!Flying' = D!Flying \cup {i} /\ v5'[i] = r
        /\ \A j \in D!Flying \ {i} : v5'[j] = v5[j]
    BY <2>a, DeskSent DEF DeskInv
  <2>1. D!TypeOK'
    BY <1>5, <2>a, <2>b, NullAssumption, DeskAssumption DEF DeskInv, D!TypeOK, D!Decide
  <2>2. D!AskedInv'
    BY <1>5, <2>a, <2>b, <1>a, NullAssumption, DeskAssumption DEF DeskInv, D!AskedInv,
        D!AskedOfTheDesk, D!Applications, D!Decide
  <2>3. (D!OneDecisionEach /\ D!LinkIsShown)'
    BY <1>5, <2>a, <2>b, <1>a, NullAssumption, DeskAssumption DEF DeskInv, D!OneDecisionEach,
        D!LinkIsShown, D!AskedInv, D!AskedOfTheDesk, D!Applications, D!Here, D!Decide
  <2>. QED  BY <2>1, <2>2, <2>3 DEF DeskInv
<1>6. ASSUME NEW i \in Ids, D!Serve(i) PROVE DeskInv'
  <2>a. /\ i \in D!Flying /\ v5[i] \in D!Request /\ v5[i].step = "asked" /\ v5[i].item \in Names
        /\ v5[i].verdict \in D!Verdicts /\ UNCHANGED <<v1, v3, v4, v6, v7>>
    BY <1>6, <1>a DEF D!Serve, D!Request, DeskInv, D!AskedInv, D!AskedOfTheDesk
  <2>b. \/ v2[v5[i].item] = None /\ v2' = [v2 EXCEPT ![v5[i].item] = v5[i].verdict]
        \/ v2[v5[i].item] # None /\ v2' = v2
    BY <1>6 DEF D!Serve
  <2>c. v2' \in [Names -> D!Verdicts \cup {None}]
    BY <2>a, <2>b DEF DeskInv, D!TypeOK
  <2>d. \A j \in D!Flying : v5[j].step = "done" => v2'[v5[j].item] = v5[j].verdict
    BY <2>a, <2>b, <1>a, DeskAssumption
       DEF DeskInv, D!TypeOK, D!AskedInv, D!AskedOfTheDesk, D!Request
  <2>e. \A x \in Names : v2'[x] = "granted" => v2[x] = "granted" \/ (x = v5[i].item /\ v2[x] = None)
    BY <2>a, <2>b DEF DeskInv, D!TypeOK
  <2>1. CASE v5[i].here
    <3>. DEFINE s == IF v2[v5[i].item] = None THEN "done" ELSE "refused"
    <3>1. PICK r : v5' = [v5 EXCEPT ![i] = r] /\ DeskSame(v5[i], r, s)
      <4>1. v5' = [v5 EXCEPT ![i] = [v5[i] EXCEPT !.step = s]]
        BY <1>6, <2>a, <2>1, <1>a DEF D!Serve, DeskInv, D!TypeOK
      <4>2. DeskSame(v5[i], [v5[i] EXCEPT !.step = s], s)
        BY <2>a, DeskMoves
      <4>. QED  BY <4>1, <4>2
    <3>2. /\ v5' \in [Ids -> D!Request \cup {None}] /\ D!Flying' = D!Flying \cup {i} /\ v5'[i] = r
          /\ \A j \in D!Flying \ {i} : v5'[j] = v5[j]
      BY <3>1, DeskSent DEF DeskInv, DeskSame
    <3>3. D!TypeOK'
      BY <2>a, <2>c, <3>2 DEF DeskInv, D!TypeOK
    <3>4. r.step \in {"done", "refused"} /\ (r.step = "done" => v2'[r.item] = r.verdict)
      BY <2>a, <2>b, <3>1 DEF DeskInv, D!TypeOK, DeskSame
    <3>5. D!AskedInv'
      <4>1. ASSUME NEW j \in D!Flying' PROVE D!AskedOfTheDesk(j)'
        <5>1. CASE j = i
          <6>1. D!AskedOfTheDesk(i)
            BY <2>a DEF DeskInv, D!AskedInv
          <6>. QED
            BY <5>1, <6>1, <2>a, <2>1, <3>1, <3>2, <3>4, NullAssumption
               DEF D!AskedOfTheDesk, D!Applications, DeskSame
        <5>2. CASE j # i
          BY <5>2, <2>a, <2>d, <3>2 DEF DeskInv, D!AskedInv, D!AskedOfTheDesk, D!Applications
        <5>. QED  BY <5>1, <5>2
      <4>. QED  BY <4>1, <2>a, <3>1, <3>2 DEF DeskInv, D!AskedInv, D!Applications, DeskSame
    <3>6. D!OneDecisionEach'
      BY <2>a, <3>1, <3>2 DEF DeskInv, D!OneDecisionEach, D!Applications, D!Here, DeskSame
    <3>7. D!LinkIsShown'
      BY <2>a, <2>e, <3>1, <3>2 DEF DeskInv, D!LinkIsShown, D!Applications, DeskSame
    <3>. QED  BY <3>3, <3>5, <3>6, <3>7 DEF DeskInv
  <2>2. CASE ~v5[i].here
    <3>1. /\ v5' \in [Ids -> D!Request \cup {None}] /\ D!Flying' = D!Flying \ {i}
          /\ \A j \in D!Flying' : v5'[j] = v5[j]
      BY <1>6, <2>2, DeskLanded DEF D!Serve, DeskInv
    <3>2. v5[i].item \in v6
      BY <2>a, <2>2 DEF DeskInv, D!AskedInv, D!AskedOfTheDesk
    <3>3. D!TypeOK'
      BY <2>a, <2>c, <3>1 DEF DeskInv, D!TypeOK
    <3>4. D!AskedInv'
      BY <2>a, <2>d, <3>1 DEF DeskInv, D!AskedInv, D!AskedOfTheDesk, D!Applications
    <3>5. D!OneDecisionEach'
      BY <2>a, <3>1 DEF DeskInv, D!OneDecisionEach, D!Applications, D!Here
    <3>6. D!LinkIsShown'
      BY <2>a, <2>e, <3>1, <3>2 DEF DeskInv, D!LinkIsShown, D!Applications
    <3>. QED  BY <3>3, <3>4, <3>5, <3>6 DEF DeskInv
  <2>. QED  BY <2>1, <2>2
\* Lost, listed and shown: the request stays, one step further.
<1>7. ASSUME NEW i \in D!Flying, NEW s \in {"refused", "loaded", "loading"}, NEW r,
             v5' = [v5 EXCEPT ![i] = r], DeskSame(v5[i], r, s), v5[i].step = "loading" <=> s = "loaded",
             v5[i].here, UNCHANGED <<v1, v2, v3, v4, v7>>, v6 \subseteq v6', v6' \subseteq Names,
             D!Applications /\ v5[i].step = "done" /\ v5[i].verdict = "granted" => v5[i].item \in v6',
             s = "refused" => v5[i].item # None
      PROVE  DeskInv'
  <2>1. /\ v5' \in [Ids -> D!Request \cup {None}] /\ D!Flying' = D!Flying \cup {i} /\ v5'[i] = r
        /\ \A j \in D!Flying \ {i} : v5'[j] = v5[j]
    BY <1>7, <1>a, DeskSent DEF DeskInv, DeskSame
  <2>2. D!TypeOK'
    BY <1>7, <2>1 DEF DeskInv, D!TypeOK
  <2>3. D!AskedInv'
    <3>1. ASSUME NEW j \in D!Flying' PROVE D!AskedOfTheDesk(j)'
      <4>1. CASE j = i
        <5>1. D!AskedOfTheDesk(i)
          BY DEF DeskInv, D!AskedInv
        <5>. QED  BY <4>1, <5>1, <1>7, <2>1 DEF D!AskedOfTheDesk, D!Applications, DeskSame
      <4>2. CASE j # i
        BY <4>2, <1>7, <2>1 DEF DeskInv, D!AskedInv, D!AskedOfTheDesk, D!Applications
      <4>. QED  BY <4>1, <4>2
    <3>. QED  BY <3>1, <1>7, <2>1 DEF DeskInv, D!AskedInv, D!Applications, DeskSame
  <2>4. D!OneDecisionEach'
    BY <1>7, <2>1 DEF DeskInv, D!OneDecisionEach, D!Applications, D!Here, DeskSame
  <2>5. D!LinkIsShown'
    <3>1. SUFFICES ASSUME D!Applications, NEW x \in Names, v2[x] = "granted", x \notin v6'
                   PROVE  \E j \in D!Flying' : v5'[j].item = x /\ v5'[j].step = "done"
      BY <1>7 DEF D!LinkIsShown, D!Applications
    <3>2. PICK j \in D!Flying : v5[j].item = x /\ v5[j].step = "done"
      BY <1>7, <3>1 DEF DeskInv, D!LinkIsShown
    <3>3. j # i
      BY <1>7, <3>1, <3>2 DEF DeskInv, D!AskedInv, D!AskedOfTheDesk
    <3>. QED  BY <2>1, <3>2, <3>3
  <2>. QED  BY <2>2, <2>3, <2>4, <2>5 DEF DeskInv
<1>8. ASSUME NEW i \in Ids, D!Lose(i) PROVE DeskInv'
  <2>1. /\ i \in D!Flying /\ v5[i] \in D!Request /\ v5[i].here /\ v5[i].step \in {"asked", "done"}
        /\ v5[i].item \in Names /\ v5[i].item # None
        /\ v6' = v6 \cup {v5[i].item} /\ UNCHANGED <<v1, v2, v3, v4, v7>>
    BY <1>8, <1>a DEF D!Lose, D!Here, DeskInv, D!AskedInv, D!AskedOfTheDesk
  <2>2. v5' = [v5 EXCEPT ![i] = [v5[i] EXCEPT !.step = "refused"]]
    BY <1>8, <2>1, <1>a DEF D!Lose, DeskInv, D!TypeOK
  <2>3. DeskSame(v5[i], [v5[i] EXCEPT !.step = "refused"], "refused")
    BY <2>1, DeskMoves
  <2>4. v6 \subseteq v6' /\ v6' \subseteq Names /\ v5[i].item \in v6'
    BY <2>1 DEF DeskInv, D!TypeOK
  <2>. QED  BY <2>1, <2>2, <2>3, <2>4, <1>7
<1>9. ASSUME NEW i \in Ids, D!ServeList(i) \/ D!OnDecided(i) PROVE DeskInv'
  <2>1. /\ i \in D!Flying /\ v5[i] \in D!Request /\ v5[i].here /\ UNCHANGED <<v1, v2, v3, v4, v7>>
    BY <1>9, <1>a DEF D!ServeList, D!OnDecided, DeskInv, D!AskedInv, D!AskedOfTheDesk, D!Request
  <2>2. CASE D!ServeList(i)
    <3>. DEFINE l == {y \in Names : v2[y] = None}
    <3>1. v5[i].step = "loading" /\ v6' = v6
      BY <2>2 DEF D!ServeList
    <3>2. v5' = [v5 EXCEPT ![i] = [v5[i] EXCEPT !.step = "loaded", !.list = l]]
      BY <2>1, <2>2, <1>a DEF D!ServeList, DeskInv, D!TypeOK
    <3>3. l \in SUBSET Names
      OBVIOUS
    <3>. HIDE DEF l
    <3>4. DeskSame(v5[i], [v5[i] EXCEPT !.step = "loaded", !.list = l], "loaded")
      BY <2>1, <3>3 DEF DeskSame, D!Request
    <3>5. v6' \subseteq Names
      BY <3>1 DEF DeskInv, D!TypeOK
    <3>. QED  BY <2>1, <3>1, <3>2, <3>4, <3>5, <1>7
  <2>3. CASE D!OnDecided(i)
    <3>1. /\ v5[i].step = "done"
          /\ v6' = IF D!Applications /\ v5[i].verdict = "granted"
                   THEN v6 \cup {v5[i].item} ELSE v6
      BY <2>3 DEF D!OnDecided
    <3>2. v5' = [v5 EXCEPT ![i] = [v5[i] EXCEPT !.step = "loading"]]
      BY <2>1, <2>3, <1>a DEF D!OnDecided, DeskInv, D!TypeOK
    <3>3. DeskSame(v5[i], [v5[i] EXCEPT !.step = "loading"], "loading")
      BY <2>1, DeskMoves
    <3>4. v6 \subseteq v6' /\ v6' \subseteq Names
      BY <2>1, <3>1, <1>a DEF DeskInv, D!TypeOK, D!AskedInv, D!AskedOfTheDesk
    <3>. QED  BY <2>1, <3>1, <3>2, <3>3, <3>4, <1>7
  <2>. QED  BY <1>9, <2>2, <2>3
<1>10. ASSUME NEW i \in Ids, D!OnRefused(i) PROVE DeskInv'
  <2>a. /\ i \in D!Flying /\ v5[i] \in D!Request /\ v5[i].step = "refused" /\ v5[i].here
        /\ v5[i].item # None /\ UNCHANGED <<v1, v2, v3, v6, v7>>
    BY <1>10, <1>a DEF D!OnRefused, DeskInv, D!AskedInv, D!AskedOfTheDesk
  <2>b. CASE D!Applications
    <3>1. v4' = None /\ D!Land(i)
      BY <1>10, <2>b DEF D!OnRefused
    <3>2. /\ v5' \in [Ids -> D!Request \cup {None}] /\ D!Flying' = D!Flying \ {i}
          /\ \A j \in D!Flying' : v5'[j] = v5[j]
      BY <3>1, DeskLanded DEF DeskInv
    <3>3. D!TypeOK'
      BY <2>a, <3>1, <3>2 DEF DeskInv, D!TypeOK
    <3>4. D!AskedInv'
      BY <2>a, <3>2 DEF DeskInv, D!AskedInv, D!AskedOfTheDesk, D!Applications
    <3>. QED
      BY <2>a, <3>2, <3>3, <3>4 DEF DeskInv, D!OneDecisionEach, D!LinkIsShown, D!Applications,
          D!Here
  <2>c. CASE ~D!Applications
    <3>1. v5' = [v5 EXCEPT ![i] = [v5[i] EXCEPT !.step = "loading"]] /\ v4' = v4
      BY <1>10, <2>a, <2>c, <1>a DEF D!OnRefused, DeskInv, D!TypeOK
    <3>2. DeskSame(v5[i], [v5[i] EXCEPT !.step = "loading"], "loading")
      BY <2>a, DeskMoves
    <3>3. v6' \subseteq Names
      BY <2>a DEF DeskInv, D!TypeOK
    <3>. QED  BY <2>a, <2>c, <3>1, <3>2, <3>3, <1>7
  <2>. QED  BY <2>b, <2>c
<1>11. ASSUME NEW i \in Ids, D!OnList(i) PROVE DeskInv'
  <2>a. /\ i \in D!Flying /\ v5' \in [Ids -> D!Request \cup {None}] /\ D!Flying' = D!Flying \ {i}
        /\ \A j \in D!Flying' : v5'[j] = v5[j]
    BY <1>11, DeskLanded DEF D!OnList, DeskInv
  <2>1. D!TypeOK'
    <3>1. v3' \in SUBSET Names
      BY <1>11, <2>a, <1>a DEF DeskInv, D!TypeOK, D!OnList, D!Request
    <3>. QED  BY <1>11, <2>a, <3>1, <1>a DEF DeskInv, D!TypeOK, D!OnList
  <2>2. D!AskedInv'
    BY <1>11, <2>a, <1>a, NullAssumption, DeskAssumption DEF DeskInv, D!AskedInv, D!AskedOfTheDesk,
        D!Applications, D!OnList
  <2>3. (D!OneDecisionEach /\ D!LinkIsShown)'
    BY <1>11, <2>a, <1>a, NullAssumption, DeskAssumption DEF DeskInv, D!OneDecisionEach,
        D!LinkIsShown, D!AskedInv, D!AskedOfTheDesk, D!Applications, D!Here, D!OnList
  <2>. QED  BY <2>1, <2>2, <2>3 DEF DeskInv
<1>12. CASE UNCHANGED D!dvars
  BY <1>12 DEF D!dvars, DeskInv, D!TypeOK, D!AskedInv, D!AskedOfTheDesk, D!Applications,
      D!OneDecisionEach, D!LinkIsShown, D!Here, D!Flying
<1>. QED  BY <1>1, <1>2, <1>3, <1>4, <1>5, <1>6, <1>8, <1>9, <1>10, <1>11, <1>12 DEF D!DNext

\* No step decides what was decided.
LEMMA DeskDecides == DeskInv /\ [D!DNext]_(D!dvars) => D!KeepsDecisions
<1>. SUFFICES ASSUME DeskInv, [D!DNext]_(D!dvars), NEW x \in Names, v2[x] # None
              PROVE  v2'[x] = v2[x]
  BY DEF D!KeepsDecisions
<1>1. ASSUME NEW y, NEW u, v2[y] = None, v2' = [v2 EXCEPT ![y] = u]
      PROVE  v2'[x] = v2[x]
  BY <1>1 DEF DeskInv, D!TypeOK
<1>2. ASSUME NEW y \in Names, NEW u \in D!Verdicts, D!OthersDecide(y, u)
      PROVE  v2'[x] = v2[x]
  BY <1>1, <1>2 DEF D!OthersDecide
<1>3. ASSUME NEW i \in Ids, D!Serve(i)
      PROVE  v2'[x] = v2[x]
  BY <1>1, <1>3 DEF D!Serve
<1>4. CASE v2' = v2
  BY <1>4
<1>5. (\A y \in Names, u \in D!Verdicts : ~D!OthersDecide(y, u)) /\ (\A i \in Ids : ~D!Serve(i))
        => v2' = v2
  BY DEF D!DNext, D!dvars, D!Leave, D!GiveUp, D!Mount, D!Decide, D!Lose, D!ServeList, D!OnDecided,
         D!OnRefused, D!OnList
<1>. QED  BY <1>2, <1>3, <1>4, <1>5

-------------------------------------------------------------------------------
(* The billing page *)
P == INSTANCE BillingPage WITH
  Brands <- Names, MaxVersion <- Bound.refreshes, brand <- v1, version <- v2, invoices <- v3,
  cardInfo <- v4, cardBusy <- v5, checkoutBusy <- v6, wire <- v7, card <- v8,
  missed <- v9

ASSUME BillingAssumption == Bound.refreshes \in Nat /\ None \notin P!Request

\* What is shown is of the brand, and a button is blocked while it is asked.
BillingOfNow ==
  /\ P!TypeOK /\ P!AskedInv
  /\ P!BillingOfTheBrand /\ P!BusyOnlyWhileAsked /\ P!OneCardOp

\* A page of no brand has asked nothing.
LEMMA BillingOpens == P!PInit => BillingOfNow
<1>. SUFFICES ASSUME P!PInit PROVE BillingOfNow
  OBVIOUS
<1>1. P!TypeOK
  <2>1. 0 \in 0..Bound.refreshes
    BY BillingAssumption
  <2>. QED  BY <2>1 DEF P!PInit, P!TypeOK, P!CardStates
<1>2. P!Flying = {}
  BY DEF P!PInit, P!Flying
<1>. QED
  BY <1>1, <1>2 DEF P!PInit, P!AskedInv, P!BillingOfTheBrand, P!BusyOnlyWhileAsked, P!OneCardOp,
      BillingOfNow

\* What is sent is a request.
LEMMA BillingSent ==
  ASSUME P!TypeOK, v1 # None, NEW kind \in P!Kinds, NEW v \in 0..Bound.refreshes
  PROVE  P!Sent(kind, v) \in P!Request /\ P!Sent(kind, v) # None
BY BillingAssumption, NullAssumption DEF P!TypeOK, P!Sent, P!Request

\* An answer makes a request another one.
LEMMA BillingReplied ==
  ASSUME P!TypeOK, NEW i \in P!Flying, NEW a \in {"open", "done", "failed"} \cup P!CardStates
  PROVE  [v7[i] EXCEPT !.reply = a] \in P!Request /\ [v7[i] EXCEPT !.reply = a] # None
<1>1. v7[i] \in P!Request
  BY DEF P!TypeOK, P!Flying
<1>. QED  BY <1>1, BillingAssumption, NullAssumption DEF P!Request

\* A refresh: nothing in flight is of the version that begins, but the summary.
LEMMA BillingLoads ==
  ASSUME BillingOfNow, NEW i \in Ids, NEW b \in Names \cup {None}, v1' = b,
         P!LoadBilling(b, i), UNCHANGED <<v6, v8>>, v9' \in BOOLEAN
  PROVE  BillingOfNow'
<1>. USE DEF P!CardOps, P!Kinds
<1>1. CASE b = None
  <2>1. P!TypeOK'
    BY <1>1 DEF BillingOfNow, P!TypeOK, P!LoadBilling
  <2>. QED
    BY <1>1, <2>1 DEF BillingOfNow, P!AskedInv, P!BillingOfTheBrand, P!BusyOnlyWhileAsked,
       P!OneCardOp, P!LoadBilling, P!Flying, P!Current
<1>2. CASE b # None
  <2>. DEFINE r == [P!Sent("summary", v2 + 1) EXCEPT !.brand = b]
  <2>1. v2 \in Nat /\ v2' = v2 + 1 /\ v2' \in 0..Bound.refreshes
    BY <1>2, BillingAssumption DEF BillingOfNow, P!TypeOK, P!LoadBilling
  <2>2. r = [kind |-> "summary", brand |-> b, version |-> v2', reply |-> "open"]
    BY <2>1 DEF P!Sent
  <2>3. r \in P!Request /\ r # None
    BY <1>2, <2>1, <2>2, BillingAssumption, NullAssumption DEF P!Request
  <2>4. /\ v3' = None /\ v4' = None /\ v5' = FALSE
        /\ v7[i] = None /\ v7' = [v7 EXCEPT ![i] = r]
    BY <1>2 DEF P!LoadBilling
  <2>. HIDE DEF r
  <2>5. P!TypeOK'
    BY <2>1, <2>3, <2>4 DEF BillingOfNow, P!TypeOK
  <2>6. \A j \in P!Flying' : (j = i /\ v7'[j] = r) \/ (j \in P!Flying /\ v7'[j] = v7[j])
    BY <2>4 DEF BillingOfNow, P!TypeOK, P!Flying
  <2>7. \A j \in P!Flying : v7[j].version \in Nat /\ v7[j].version <= v2
    BY BillingAssumption DEF BillingOfNow, P!TypeOK, P!AskedInv, P!Flying, P!Request
  <2>8. \A j \in P!Flying' : v7'[j].version <= v2' /\ (v7'[j].version = v2' => v7'[j] = r)
    BY <2>1, <2>2, <2>6, <2>7 DEF r
  <2>9. r.brand = v1' /\ r.kind = "summary"
    BY <2>2 DEF r
  <2>10. P!AskedInv' /\ P!OneCardOp'
    <3>1. \A j \in P!Flying' : v7'[j].kind = "card" => v7'[j].reply # "done"
      BY <2>6, <2>9 DEF BillingOfNow, P!AskedInv
    <3>. QED  BY <2>8, <2>9, <3>1 DEF P!AskedInv, P!OneCardOp, P!Current
  <2>11. \A j \in P!Flying : j \in P!Flying' /\ v7'[j] = v7[j]
    BY <2>4 DEF BillingOfNow, P!TypeOK, P!Flying
  <2>12. P!BillingOfTheBrand' /\ P!BusyOnlyWhileAsked'
    BY <2>4, <2>11 DEF BillingOfNow, P!BillingOfTheBrand, P!BusyOnlyWhileAsked
  <2>. QED
    BY <2>5, <2>10, <2>12 DEF BillingOfNow
<1>. QED  BY <1>1, <1>2

\* Every step of the billing page, its server and its answers keeps the invariant.
LEMMA BillingStays == BillingOfNow /\ [P!PNext]_(P!pvars) => BillingOfNow'
<1>. SUFFICES ASSUME BillingOfNow, [P!PNext]_(P!pvars) PROVE BillingOfNow'
  OBVIOUS
<1>. USE DEF P!CardOps
<1>1. ASSUME NEW i \in Ids, P!Refresh(i) \/ \E b \in Names \cup {None} : P!ChangeBrand(b, i)
      PROVE  BillingOfNow'
  <2>1. v9' \in BOOLEAN
    BY <1>1 DEF BillingOfNow, P!TypeOK, P!Refresh, P!ChangeBrand, P!GivesUp
  <2>2. CASE P!Refresh(i)
    BY <2>1, <2>2, BillingLoads DEF P!Refresh, BillingOfNow, P!TypeOK
  <2>3. ASSUME NEW b \in Names \cup {None}, P!ChangeBrand(b, i) PROVE BillingOfNow'
    BY <2>1, <2>3, BillingLoads DEF P!ChangeBrand
  <2>. QED  BY <1>1, <2>2, <2>3
<1>2. ASSUME NEW i \in Ids, NEW kind \in P!CardOps \cup {"checkout"},
             (P!PaySignupInvoice(i) /\ kind = "checkout") \/ (P!CardOp(kind, i) /\ kind \in P!CardOps)
      PROVE  BillingOfNow'
  <2>1. v1 # None /\ P!Send(i, kind) /\ UNCHANGED <<v1, v2, v3, v4, v8, v9>>
    BY <1>2 DEF P!PaySignupInvoice, P!CardOp, P!Offered
  <2>2. /\ P!Sent(kind, v2) \in P!Request /\ P!Sent(kind, v2) # None
        /\ P!Sent(kind, v2).kind = kind /\ P!Sent(kind, v2).version = v2 /\ P!Sent(kind, v2).brand = v1
    BY <2>1, BillingSent DEF BillingOfNow, P!TypeOK, P!Kinds, P!Sent
  <2>3. v7[i] = None /\ v7' = [v7 EXCEPT ![i] = P!Sent(kind, v2)]
    BY <2>1 DEF P!Send
  <2>4. P!TypeOK'
    BY <1>2, <2>1, <2>2, <2>3 DEF BillingOfNow, P!TypeOK, P!PaySignupInvoice, P!CardOp
  <2>5. /\ i \in P!Flying' /\ v7'[i] = P!Sent(kind, v2)
        /\ \A j \in Ids \ {i} : v7'[j] = v7[j] /\ (j \in P!Flying' <=> j \in P!Flying)
        /\ i \notin P!Flying /\ P!Flying \subseteq Ids /\ P!Flying' \subseteq Ids
    BY <2>2, <2>3 DEF BillingOfNow, P!TypeOK, P!Flying
  <2>6. v2 \in Nat
    BY BillingAssumption DEF BillingOfNow, P!TypeOK
  <2>7. CASE kind = "checkout"
    <3>1. v5' = v5 /\ v6' = TRUE
      BY <1>2, <2>7 DEF P!PaySignupInvoice
    <3>. QED
      BY <2>1, <2>2, <2>4, <2>5, <2>6, <2>7, <3>1
         DEF BillingOfNow, P!AskedInv, P!BillingOfTheBrand, P!BusyOnlyWhileAsked, P!OneCardOp, P!Current
  <2>8. CASE kind # "checkout"
    <3>1. ~v5 /\ v5' = TRUE /\ v6' = v6
      BY <1>2, <2>8 DEF P!CardOp, P!Offered
    <3>. QED
      BY <1>2, <2>1, <2>2, <2>4, <2>5, <2>6, <2>8, <3>1
         DEF BillingOfNow, P!AskedInv, P!BillingOfTheBrand, P!BusyOnlyWhileAsked, P!OneCardOp, P!Current
  <2>. QED  BY <2>7, <2>8
<1>3. ASSUME NEW i \in Ids, P!Serve(i) \/ P!LoseAnswer(i) PROVE BillingOfNow'
  <2>1. i \in P!Flying /\ v7[i] \in P!Request
    BY <1>3 DEF BillingOfNow, P!TypeOK, P!Serve, P!LoseAnswer, P!Flying
  <2>2. PICK a \in {"done", "failed"} \cup P!CardStates : P!Reply(i, a) /\ (v7[i].kind = "card" => a # "done")
    <3>1. CASE P!Serve(i) /\ P!ServeRead(i) /\ v7[i].kind = "card"
      <4>1. P!Reply(i, v8[v7[i].brand]) /\ v8[v7[i].brand] \in P!CardStates
        BY <2>1, <3>1 DEF P!ServeRead, BillingOfNow, P!TypeOK, P!Request
      <4>. QED  BY <4>1 DEF P!CardStates
    <3>2. CASE ~(P!Serve(i) /\ P!ServeRead(i) /\ v7[i].kind = "card")
      BY <1>3, <3>2 DEF P!Serve, P!ServeRead, P!ServeRegister, P!ServeExpire, P!LoseAnswer
    <3>. QED  BY <3>1, <3>2
  <2>3. v8' \in [Names -> P!CardStates] /\ v9' \in BOOLEAN /\ UNCHANGED <<v1, v2, v3, v4, v5, v6>>
    BY <1>3, <2>1 DEF BillingOfNow, P!TypeOK, P!CardStates, P!Request, P!Serve, P!ServeRead,
        P!ServeRegister, P!ServeExpire, P!LoseAnswer
  <2>4. [v7[i] EXCEPT !.reply = a] \in P!Request /\ [v7[i] EXCEPT !.reply = a] # None
    BY <2>1, BillingReplied DEF BillingOfNow
  <2>5. v7' = [v7 EXCEPT ![i] = [v7[i] EXCEPT !.reply = a]]
    BY <2>2 DEF P!Reply
  <2>6. P!TypeOK'
    BY <2>3, <2>4, <2>5 DEF BillingOfNow, P!TypeOK
  <2>7. /\ P!Flying' = P!Flying
        /\ \A j \in P!Flying :
             /\ v7'[j].kind = v7[j].kind /\ v7'[j].brand = v7[j].brand
             /\ v7'[j].version = v7[j].version
             /\ v7[j].kind = "card" /\ v7'[j].reply = "done" => v7[j].reply = "done"
    BY <2>1, <2>2, <2>4, <2>5 DEF BillingOfNow, P!TypeOK, P!Flying, P!Request
  <2>8. \A j \in P!Flying : P!Current(j)' <=> P!Current(j)
    BY <2>3, <2>7 DEF P!Current
  <2>9. P!AskedInv'
    BY <2>3, <2>7, <2>8 DEF BillingOfNow, P!AskedInv
  <2>10. P!BillingOfTheBrand' /\ P!BusyOnlyWhileAsked' /\ P!OneCardOp'
    BY <2>3, <2>7, <2>8 DEF BillingOfNow, P!BillingOfTheBrand, P!BusyOnlyWhileAsked, P!OneCardOp
  <2>. QED  BY <2>6, <2>9, <2>10 DEF BillingOfNow
\* What lands is not what a button waits for, or frees it.
<1>4. ASSUME NEW i \in Ids, P!Land(i), i \in P!Flying, UNCHANGED <<v1, v2, v8, v9>>,
             v3' = v3 \/ (v3' = v7[i].brand /\ P!Current(i)),
             v4' = v4 \/ v4' = None \/ (v7[i].brand = v1 /\ v4' \in [brand : {v1}, state : P!CardStates]),
             v5' \in BOOLEAN, v5' <=> v5 /\ ~(v7[i].kind \in P!CardOps /\ P!Current(i)),
             v6' \in BOOLEAN, v6' => v6 /\ v7[i].kind # "checkout"
      PROVE  BillingOfNow'
  <2>1. v7[i] \in P!Request /\ v7' = [v7 EXCEPT ![i] = None]
    BY <1>4 DEF BillingOfNow, P!TypeOK, P!Land, P!Flying
  <2>2. v3' \in Names \cup {None} /\ v4' \in [brand : Names, state : P!CardStates] \cup {None}
    BY <1>4, <2>1 DEF BillingOfNow, P!TypeOK, P!Request
  <2>3. P!TypeOK'
    BY <1>4, <2>1, <2>2 DEF BillingOfNow, P!TypeOK
  <2>4. P!Flying' = P!Flying \ {i} /\ \A j \in P!Flying' : v7'[j] = v7[j]
    BY <2>1 DEF BillingOfNow, P!TypeOK, P!Flying
  <2>5. P!AskedInv' /\ P!OneCardOp' /\ P!BusyOnlyWhileAsked'
    <3>1. \A j \in P!Flying' : P!Current(j)' <=> P!Current(j)
      BY <1>4, <2>4 DEF P!Current
    <3>2. P!AskedInv'
      BY <1>4, <2>4, <3>1 DEF BillingOfNow, P!AskedInv, P!OneCardOp
    <3>3. P!OneCardOp'
      BY <2>4, <3>1 DEF BillingOfNow, P!OneCardOp
    <3>4. P!BusyOnlyWhileAsked'
      BY <1>4, <2>4, <3>1 DEF BillingOfNow, P!BusyOnlyWhileAsked
    <3>. QED  BY <3>2, <3>3, <3>4
  <2>6. P!BillingOfTheBrand'
    BY <1>4 DEF BillingOfNow, P!AskedInv, P!BillingOfTheBrand
  <2>. QED  BY <2>3, <2>5, <2>6 DEF BillingOfNow
\* What is read next is read at the same version and is no operation.
<1>5. ASSUME NEW i \in Ids, NEW j \in Ids, i \in P!Flying, v1 # None, P!Current(i), j = i \/ v7[j] = None,
             NEW k \in {"invoices", "card"},
             v7' = [v7 EXCEPT ![i] = P!Sent(k, v2), ![j] = P!Sent("card", v2)],
             UNCHANGED <<v1, v2, v3, v4, v6, v8>>, v9' \in BOOLEAN,
             v5' \in BOOLEAN, v5' <=> v5 /\ v7[i].kind \notin P!CardOps, v7[i].kind # "checkout"
      PROVE  BillingOfNow'
  <2>. DEFINE s == P!Sent(k, v2)
              t == P!Sent("card", v2)
  <2>1. /\ {s, t} \subseteq P!Request /\ s # None /\ t # None
        /\ s.kind = k /\ t.kind = "card" /\ s.version = v2 /\ t.version = v2 /\ s.brand = v1 /\ t.brand = v1
        /\ s.reply = "open" /\ t.reply = "open"
    BY <1>5, BillingSent DEF BillingOfNow, P!TypeOK, P!Kinds, P!Sent
  <2>2. P!TypeOK'
    BY <1>5, <2>1 DEF BillingOfNow, P!TypeOK
  <2>9. \A l \in Ids : v7'[l] = IF l = j THEN t ELSE IF l = i THEN s ELSE v7[l]
    BY <1>5 DEF BillingOfNow, P!TypeOK
  <2>. HIDE DEF s, t
  <2>3. \A l \in P!Flying' : v7'[l] \in {s, t} \/ (l \in P!Flying \ {i, j} /\ v7'[l] = v7[l])
    BY <2>9 DEF P!Flying
  <2>4. \A l \in P!Flying \ {i} : l \in P!Flying' /\ v7'[l] = v7[l]
    <3>1. \A l \in P!Flying \ {i} : l \in Ids /\ l # i /\ l # j /\ v7[l] # None
      BY <1>5 DEF P!Flying
    <3>. QED  BY <2>9, <3>1 DEF P!Flying
  <2>5. v2 \in Nat
    BY BillingAssumption DEF BillingOfNow, P!TypeOK
  <2>6. P!AskedInv'
    <3>1. SUFFICES ASSUME NEW l \in P!Flying'
                   PROVE  /\ v7'[l].version <= v2 /\ (P!Current(l)' => v7'[l].brand = v1)
                          /\ v7'[l].kind \in P!CardOps /\ P!Current(l)' => v5'
                          /\ v7'[l].kind = "card" => v7'[l].reply # "done"
      BY <1>5 DEF P!AskedInv
    <3>2. CASE v7'[l] \in {s, t}
      BY <1>5, <2>1, <2>5, <3>2 DEF P!Current
    <3>3. CASE l \in P!Flying \ {i, j} /\ v7'[l] = v7[l]
      <4>1. P!Current(l)' <=> P!Current(l)
        BY <1>5, <3>3 DEF P!Current
      <4>2. ~(v7[l].kind \in P!CardOps /\ P!Current(l) /\ v7[i].kind \in P!CardOps)
        BY <1>5, <3>3 DEF BillingOfNow, P!OneCardOp
      <4>. QED  BY <1>5, <3>3, <4>1, <4>2 DEF BillingOfNow, P!AskedInv
    <3>. QED  BY <2>3, <3>2, <3>3
  <2>7. P!OneCardOp' /\ P!BillingOfTheBrand'
    <3>1. \A l \in P!Flying' : v7'[l].kind \in P!CardOps => l \in P!Flying /\ v7'[l] = v7[l]
      BY <1>5, <2>1, <2>3
    <3>. QED  BY <1>5, <3>1 DEF BillingOfNow, P!OneCardOp, P!BillingOfTheBrand, P!Current
  <2>8. P!BusyOnlyWhileAsked'
    BY <1>5, <2>4 DEF BillingOfNow, P!BusyOnlyWhileAsked, P!Current
  <2>. QED  BY <2>2, <2>6, <2>7, <2>8 DEF BillingOfNow
<1>6. ASSUME NEW i \in Ids, NEW j \in Ids, P!OnSummary(i, j) PROVE BillingOfNow'
  <2>1. i \in P!Flying /\ v7[i].kind = "summary" /\ UNCHANGED <<v1, v2, v3, v4, v5, v6, v8, v9>>
    BY <1>6 DEF P!OnSummary, P!Answered
  <2>2. CASE P!Land(i)
    BY <2>1, <2>2, <1>4 DEF BillingOfNow, P!TypeOK
  <2>3. CASE ~P!Land(i)
    <3>1. /\ P!Current(i) /\ v1 # None /\ v7[j] = None
          /\ v7' = [v7 EXCEPT ![i] = P!Sent("invoices", v2), ![j] = P!Sent("card", v2)]
      BY <1>6, <2>3 DEF P!OnSummary
    <3>. QED  BY <2>1, <3>1, <1>5 DEF BillingOfNow, P!TypeOK
  <2>. QED  BY <2>2, <2>3
\* Who lands.
<1>7. ASSUME NEW i \in Ids, P!OnInvoices(i) \/ P!OnCard(i) \/ P!OnCheckout(i) PROVE BillingOfNow'
  <2>1. i \in P!Flying /\ v7[i] \in P!Request /\ P!Land(i) /\ UNCHANGED <<v1, v2, v5, v8, v9>>
    BY <1>7 DEF BillingOfNow, P!TypeOK, P!Flying, P!OnInvoices, P!OnCard, P!OnCheckout, P!Answered
  <2>2. v7[i].kind \notin P!CardOps /\ v6' = (v6 /\ v7[i].kind # "checkout")
    BY <1>7 DEF BillingOfNow, P!TypeOK, P!OnInvoices, P!OnCard, P!OnCheckout, P!Answered
  <2>3. CASE P!OnInvoices(i)
    <3>1. v3' = v3 \/ (v3' = v7[i].brand /\ P!Current(i))
      BY <2>3 DEF P!OnInvoices
    <3>. QED  BY <2>1, <2>2, <2>3, <3>1, <1>4 DEF P!OnInvoices, BillingOfNow, P!TypeOK
  <2>4. CASE P!OnCard(i)
    <3>1. v7[i].reply = "failed" \/ v7[i].reply \in P!CardStates
      BY <2>1, <2>4 DEF P!OnCard, P!Answered, P!Request, BillingOfNow, P!AskedInv
    <3>2. v4' = v4 \/ v4' = None \/ (v7[i].brand = v1 /\ v4' = [brand |-> v1, state |-> v7[i].reply])
      BY <2>4 DEF P!OnCard
    <3>3. v4' = v4 \/ v4' = None \/ (v7[i].brand = v1 /\ v4' \in [brand : {v1}, state : P!CardStates])
      BY <3>1, <3>2, <2>4 DEF P!OnCard
    <3>. QED  BY <2>1, <2>2, <2>4, <3>3, <1>4 DEF P!OnCard, BillingOfNow, P!TypeOK
  <2>5. CASE P!OnCheckout(i)
    BY <2>1, <2>2, <2>5, <1>4 DEF P!OnCheckout, BillingOfNow, P!TypeOK
  <2>. QED  BY <1>7, <2>3, <2>4, <2>5
<1>8. ASSUME NEW i \in Ids, NEW kind \in P!CardOps, P!OnCardOp(kind, i) PROVE BillingOfNow'
  <2>1. /\ i \in P!Flying /\ v7[i].kind = kind /\ UNCHANGED <<v1, v2, v3, v4, v6, v8>>
        /\ v5' = (v5 /\ ~P!Current(i)) /\ v9' \in BOOLEAN
    BY <1>8 DEF BillingOfNow, P!TypeOK, P!OnCardOp, P!Answered
  <2>2. CASE P!Land(i) /\ v9' = v9
    BY <2>1, <2>2, <1>4 DEF BillingOfNow, P!TypeOK
  <2>3. CASE ~(P!Land(i) /\ v9' = v9)
    <3>1. P!Current(i) /\ v7[i].brand = v1 /\ v7' = [v7 EXCEPT ![i] = P!Sent("card", v2)]
      BY <1>8, <2>3 DEF P!OnCardOp
    <3>2. v7' = [v7 EXCEPT ![i] = P!Sent("card", v2), ![i] = P!Sent("card", v2)]
      BY <3>1
    <3>3. v1 # None
      BY <2>1, <3>1, BillingAssumption, NullAssumption DEF BillingOfNow, P!TypeOK, P!Flying, P!Request
    <3>. QED  BY <2>1, <3>1, <3>2, <3>3, <1>5 DEF BillingOfNow, P!TypeOK
  <2>. QED  BY <2>2, <2>3
<1>9. CASE UNCHANGED P!pvars
  BY <1>9 DEF P!pvars, BillingOfNow, P!TypeOK, P!AskedInv, P!BillingOfTheBrand, P!BusyOnlyWhileAsked,
              P!OneCardOp, P!Flying, P!Current
<1>. QED  BY <1>1, <1>2, <1>3, <1>6, <1>7, <1>8, <1>9 DEF P!PNext

BillingInv == BillingOfNow /\ P!LateInv

\* A page of no brand shows no card.
LEMMA BillingBegins == P!PInit => BillingInv
BY BillingOpens DEF BillingInv, P!LateInv, P!PInit

\* With nothing on its way the card that is shown is the server's, unless one was missed.
LEMMA BillingTells == BillingInv => P!StaleOnlyWhenMissed
BY DEF BillingInv, P!LateInv, P!StaleOnlyWhenMissed, P!Done

\* No step makes the card on the page wrong unless it is missed, or corrected.
LEMMA BillingLate == BillingInv /\ [P!PNext]_(P!pvars) => P!LateInv'
<1>. DEFINE Late ==
       /\ \A i \in P!Flying' : v7'[i].kind \in P!CardOps => v7'[i].version = v2'
       /\ \A i \in P!Flying' : v7'[i].kind = "card" /\ v7'[i].version = v2'
                               /\ v7'[i].reply \in P!CardStates
                               => v7'[i].reply = v8'[v1'] \/ P!Done'
       /\ v4' # None => \/ v4'.state = v8'[v1'] \/ P!Done'
                        \/ \E i \in P!Flying' : v7'[i].kind = "card" /\ v7'[i].version = v2'
<1>. SUFFICES ASSUME BillingInv, [P!PNext]_(P!pvars), v1' # None, ~v9' PROVE Late
  BY DEF P!LateInv, P!Reading, P!Current
<1>. HIDE DEF Late
<1>. USE DEF P!CardOps
<1>a. /\ v1 \in Names \cup {None} /\ v2 \in Nat /\ v7 \in [Ids -> P!Request \cup {None}]
      /\ v8 \in [Names -> P!CardStates] /\ v9 \in BOOLEAN
      /\ \A i \in P!Flying : i \in Ids /\ v7[i] # None /\ v7[i] \in P!Request /\ v7[i].version \in Nat
      /\ \A i \in P!Flying : v7[i].version <= v2
      /\ v1 # None => \A i \in P!Flying : v7[i].version = v2 => v7[i].brand = v1
  BY BillingAssumption DEF BillingInv, BillingOfNow, P!TypeOK, P!AskedInv, P!Flying, P!Current, P!Request
<1>b. v1 # None /\ ~v9 =>
        /\ \A i \in P!Flying : v7[i].kind \in P!CardOps => v7[i].version = v2
        /\ \A i \in P!Flying : v7[i].kind = "card" /\ v7[i].version = v2 /\ v7[i].reply \in P!CardStates
             => v7[i].reply = v8[v1] \/ P!Done
        /\ v4 # None => \/ v4.state = v8[v1] \/ P!Done
                        \/ \E i \in P!Flying : v7[i].kind = "card" /\ v7[i].version = v2
  BY DEF BillingInv, P!LateInv, P!Reading, P!Current
<1>1. ASSUME NEW i \in Ids, P!Refresh(i) \/ \E b \in Names \cup {None} : P!ChangeBrand(b, i)
      PROVE  Late
  <2>1. P!LoadBilling(v1', i) /\ ~P!GivesUp
    <3>1. CASE P!Refresh(i)
      <4>1. P!LoadBilling(v1, i) /\ v1' = v1 /\ v9' = (v9 \/ P!GivesUp)
        BY <3>1 DEF P!Refresh
      <4>. QED  BY <4>1
    <3>2. ASSUME NEW b \in Names \cup {None}, P!ChangeBrand(b, i) PROVE P!LoadBilling(v1', i) /\ ~P!GivesUp
      <4>1. P!LoadBilling(b, i) /\ v1' = b /\ v9' = P!GivesUp
        BY <3>2 DEF P!ChangeBrand
      <4>. QED  BY <4>1
    <3>. QED  BY <1>1, <3>1, <3>2
  <2>. DEFINE r == [P!Sent("summary", v2 + 1) EXCEPT !.brand = v1']
  <2>2. /\ v2' = v2 + 1 /\ v4' = None /\ v7' = [v7 EXCEPT ![i] = r] /\ r.kind = "summary"
    BY <2>1 DEF P!LoadBilling, P!Sent
  <2>. HIDE DEF r
  <2>3. \A j \in P!Flying' : j = i \/ (j \in P!Flying /\ v7'[j] = v7[j])
    BY <1>a, <2>2 DEF P!Flying
  <2>4. v7'[i].kind = "summary"
    BY <1>a, <2>2
  <2>5. \A j \in P!Flying' : v7'[j].kind \notin P!CardOps /\ (v7'[j].kind = "card" => v7'[j].version # v2')
    BY <1>a, <2>1, <2>2, <2>3, <2>4 DEF P!GivesUp
  <2>. QED  BY <2>2, <2>5 DEF Late
<1>2. ASSUME NEW i \in Ids, NEW kind \in P!CardOps \cup {"checkout"},
             P!CardOp(kind, i) \/ (P!PaySignupInvoice(i) /\ kind = "checkout")
      PROVE  Late
  <2>1. /\ v7[i] = None /\ v7' = [v7 EXCEPT ![i] = P!Sent(kind, v2)] /\ UNCHANGED <<v1, v2, v4, v8, v9>>
    BY <1>2 DEF P!CardOp, P!PaySignupInvoice, P!Send
  <2>2. /\ v7'[i].kind = kind /\ v7'[i].version = v2
    BY <1>a, <2>1 DEF P!Sent
  <2>3. /\ \A j \in P!Flying' : j = i \/ (j \in P!Flying /\ v7'[j] = v7[j])
        /\ \A j \in P!Flying : j \in P!Flying' /\ v7'[j] = v7[j]
    BY <1>a, <2>1 DEF P!Flying
  <2>4. P!Done => P!Done'
    BY <2>3 DEF P!Done
  <2>. QED  BY <1>a, <1>b, <2>1, <2>2, <2>3, <2>4 DEF Late
<1>3. ASSUME NEW i \in P!Flying, NEW a \in {"done", "failed"} \cup P!CardStates, P!Reply(i, a),
             UNCHANGED <<v1, v2, v4>>, ~v9, v8' = v8,
             P!Done => P!Done',
             v7[i].kind = "card" /\ v7[i].version = v2 /\ a \in P!CardStates => a = v8[v1]
      PROVE  Late
  <2>1. /\ v7'[i].kind = v7[i].kind /\ v7'[i].version = v7[i].version /\ v7'[i].reply = a
        /\ \A j \in P!Flying' : j = i \/ (j \in P!Flying /\ v7'[j] = v7[j])
        /\ \A j \in P!Flying : j \in P!Flying' /\ (j # i => v7'[j] = v7[j])
    BY <1>a, <1>3, BillingReplied DEF P!Reply, P!Flying, P!Request, BillingInv, BillingOfNow
  <2>2. \A j \in P!Flying' : v7'[j].kind = v7[j].kind /\ v7'[j].version = v7[j].version /\ j \in P!Flying
    BY <2>1
  <2>. QED  BY <1>a, <1>b, <1>3, <2>1, <2>2 DEF Late
<1>4. ASSUME NEW i \in Ids, P!Serve(i) PROVE Late
  <2>1. i \in P!Flying /\ v7[i].reply = "open" /\ UNCHANGED <<v1, v2, v4, v9>>
    BY <1>4 DEF P!Serve
  <2>2. ASSUME NEW a \in {"done", "failed"} \cup P!CardStates, P!Reply(i, a) PROVE P!Done => P!Done'
    <3>1. \A j \in P!Flying \ {i} : j \in P!Flying' /\ v7'[j] = v7[j]
      BY <1>a, <2>2 DEF P!Reply, P!Flying
    <3>. QED  BY <2>1, <3>1 DEF P!Done
  <2>3. CASE P!ServeRead(i)
    <3>1. CASE v7[i].kind = "card"
      <4>1. P!Reply(i, v8[v7[i].brand]) /\ v8' = v8
        BY <2>3, <3>1 DEF P!ServeRead
      <4>2. v8[v7[i].brand] \in P!CardStates
        BY <1>a, <2>1 DEF P!Request
      <4>. QED  BY <1>a, <1>3, <2>1, <2>2, <4>1, <4>2
    <3>2. CASE v7[i].kind # "card"
      BY <1>3, <2>1, <2>2, <2>3, <3>2 DEF P!ServeRead
    <3>. QED  BY <3>1, <3>2
  <2>4. CASE P!Reply(i, "failed") /\ UNCHANGED v8
    BY <1>3, <2>1, <2>2, <2>4 DEF P!CardStates
  <2>5. CASE P!ServeRegister(i) \/ \E left \in {"none", "expire_pending"} : P!ServeExpire(i, left)
    <3>1. v7[i].kind \in P!CardOps /\ v7' = [v7 EXCEPT ![i].reply = "done"]
      BY <2>5 DEF P!ServeRegister, P!ServeExpire, P!Reply
    <3>2. i \in P!Flying' /\ v7'[i].kind = v7[i].kind /\ v7'[i].reply = "done" /\ v7'[i].version = v7[i].version
          /\ \A j \in P!Flying' : j = i \/ (j \in P!Flying /\ v7'[j] = v7[j])
      BY <1>a, <2>1, <3>1, BillingReplied DEF P!Flying, P!Request, BillingInv, BillingOfNow
    <3>3. P!Done'
      BY <3>1, <3>2 DEF P!Done
    <3>. QED  BY <1>b, <2>1, <3>1, <3>2, <3>3 DEF Late
  <2>. QED  BY <1>4, <2>3, <2>4, <2>5 DEF P!Serve
<1>5. ASSUME NEW i \in Ids, P!LoseAnswer(i) PROVE Late
  <2>1. /\ i \in P!Flying /\ P!Reply(i, "failed") /\ UNCHANGED <<v1, v2, v4, v8>> /\ ~v9
        /\ v7[i].kind \notin P!CardOps
    BY <1>5 DEF P!LoseAnswer
  <2>2. \A j \in P!Flying \ {i} : j \in P!Flying' /\ v7'[j] = v7[j]
    BY <1>a, <2>1 DEF P!Reply, P!Flying
  <2>3. P!Done => P!Done'
    BY <2>1, <2>2 DEF P!Done
  <2>. QED  BY <1>3, <2>1, <2>3 DEF P!CardStates
\* What lands is no operation that was done, and what it tells of the card is right.
<1>6. ASSUME NEW i \in P!Flying, P!Land(i), UNCHANGED <<v1, v2, v8>>, ~v9,
             v7[i].kind \in P!CardOps => v7[i].reply # "done",
             \/ v4' = v4 /\ ~(v7[i].kind = "card" /\ v7[i].version = v2)
             \/ v4' = None
             \/ v4' # None /\ v7[i].kind = "card" /\ v7[i].version = v2
                /\ v7[i].reply \in P!CardStates /\ v4'.state = v7[i].reply
      PROVE  Late
  <2>1. P!Flying' = P!Flying \ {i} /\ \A j \in P!Flying' : v7'[j] = v7[j]
    BY <1>a, <1>6 DEF P!Land, P!Flying
  <2>2. P!Done => P!Done'
    BY <1>6, <2>1 DEF P!Done
  <2>. QED  BY <1>b, <1>6, <2>1, <2>2 DEF Late
<1>7. ASSUME NEW i \in Ids, NEW j \in Ids, P!OnSummary(i, j) PROVE Late
  <2>1. i \in P!Flying /\ v7[i].kind = "summary" /\ UNCHANGED <<v1, v2, v4, v8, v9>>
    BY <1>7 DEF P!OnSummary, P!Answered
  <2>2. CASE P!Land(i)
    BY <1>6, <2>1, <2>2
  <2>3. CASE ~P!Land(i)
    <3>1. /\ v7[j] = None
          /\ v7' = [v7 EXCEPT ![i] = P!Sent("invoices", v2), ![j] = P!Sent("card", v2)]
      BY <1>7, <2>3 DEF P!OnSummary
    <3>2. /\ P!Sent("invoices", v2).kind = "invoices" /\ P!Sent("card", v2).kind = "card"
          /\ P!Sent("card", v2).reply = "open"
      BY DEF P!Sent
    <3>3. i # j
      BY <2>1, <3>1 DEF P!Flying
    <3>4. v7'[i].kind = "invoices" /\ v7'[j].kind = "card" /\ v7'[j].reply = "open"
      BY <1>a, <2>1, <3>1, <3>2, <3>3
    <3>5. /\ \A k \in P!Flying' : k = i \/ k = j \/ (k \in P!Flying /\ v7'[k] = v7[k])
          /\ \A k \in P!Flying \ {i} : k \in P!Flying' /\ v7'[k] = v7[k]
      BY <1>a, <3>1 DEF P!Flying
    <3>6. P!Done => P!Done'
      BY <2>1, <3>5 DEF P!Done
    <3>7. "open" \notin P!CardStates
      BY DEF P!CardStates
    <3>. QED  BY <1>b, <2>1, <3>4, <3>5, <3>6, <3>7 DEF Late
  <2>. QED  BY <2>2, <2>3
<1>8. ASSUME NEW i \in Ids, P!OnInvoices(i) \/ P!OnCheckout(i) PROVE Late
  BY <1>6, <1>8 DEF P!OnInvoices, P!OnCheckout, P!Answered
<1>9. ASSUME NEW i \in Ids, P!OnCard(i) PROVE Late
  <2>1. /\ i \in P!Flying /\ v7[i].kind = "card" /\ v7[i].reply # "open" /\ P!Land(i)
        /\ UNCHANGED <<v1, v2, v8, v9>>
    BY <1>9 DEF P!OnCard, P!Answered
  <2>2. v7[i].reply = "failed" \/ v7[i].reply \in P!CardStates
    BY <1>a, <2>1 DEF P!Request, BillingInv, BillingOfNow, P!AskedInv
  <2>3. CASE v7[i].version # v2
    BY <1>6, <1>9, <2>1, <2>3 DEF P!OnCard, P!Current
  <2>4. CASE v7[i].version = v2 /\ v7[i].reply = "failed"
    <3>1. v4' = None
      BY <1>9, <2>4 DEF P!OnCard, P!Current
    <3>. QED  BY <1>6, <2>1, <3>1
  <2>5. CASE v7[i].version = v2 /\ v7[i].reply # "failed"
    <3>1. v4' = [brand |-> v1, state |-> v7[i].reply]
      BY <1>9, <1>a, <2>1, <2>5 DEF P!OnCard, P!Current
    <3>2. v4' # None => v4'.state = v7[i].reply
      BY <3>1
    <3>. QED  BY <1>6, <2>1, <2>2, <2>5, <3>2
  <2>. QED  BY <2>3, <2>4, <2>5
<1>10. ASSUME NEW i \in Ids, NEW kind \in P!CardOps, P!OnCardOp(kind, i) PROVE Late
  <2>1. /\ i \in P!Flying /\ v7[i].kind = kind /\ UNCHANGED <<v1, v2, v4, v8>> /\ ~v9
    BY <1>10 DEF P!OnCardOp, P!Answered
  <2>2. v7[i].version = v2 /\ v7[i].brand = v1
    BY <1>a, <1>b, <2>1
  <2>3. CASE v7[i].reply # "done"
    BY <1>6, <1>10, <2>1, <2>3 DEF P!OnCardOp
  <2>4. CASE v7[i].reply = "done"
    <3>1. /\ v7' = [v7 EXCEPT ![i] = P!Sent("card", v2)]
          /\ ~\E j \in P!Flying : v7[j].kind = "card" /\ v7[j].version = v2
      BY <1>10, <2>1, <2>2, <2>4 DEF P!OnCardOp, P!Current
    <3>2. /\ P!Sent("card", v2).kind = "card" /\ P!Sent("card", v2).version = v2
          /\ P!Sent("card", v2).reply = "open" /\ P!Sent("card", v2) # None
      <4>1. P!TypeOK /\ v1 # None /\ v2 \in 0..Bound.refreshes
        BY <2>1 DEF BillingInv, BillingOfNow, P!TypeOK
      <4>2. P!Sent("card", v2) # None
        BY <4>1, BillingSent DEF P!Kinds
      <4>. QED  BY <4>2 DEF P!Sent
    <3>3. /\ i \in P!Flying' /\ v7'[i].kind = "card" /\ v7'[i].version = v2 /\ v7'[i].reply = "open"
          /\ \A j \in P!Flying' : j = i \/ (j \in P!Flying /\ v7'[j] = v7[j])
      BY <1>a, <2>1, <3>1, <3>2 DEF P!Flying
    <3>4. "open" \notin P!CardStates
      BY DEF P!CardStates
    <3>. QED  BY <1>b, <2>1, <3>1, <3>3, <3>4 DEF Late
  <2>. QED  BY <2>3, <2>4
<1>11. CASE UNCHANGED P!pvars
  BY <1>b, <1>11 DEF P!pvars, Late, P!Done, P!Flying
<1>. QED  BY <1>1, <1>2, <1>4, <1>5, <1>7, <1>8, <1>9, <1>10, <1>11 DEF P!PNext, P!CardOps

\* So every step keeps the invariant.
LEMMA BillingKeeps == BillingInv /\ [P!PNext]_(P!pvars) => BillingInv'
BY BillingStays, BillingLate DEF BillingInv

-------------------------------------------------------------------------------
(* The inbox *)
N == INSTANCE InboxPage WITH
  Threads <- Names, Brands <- Ids, MaxAsked <- Bound.asked, MaxReplies <- Bound.replies, home <- v1,
  replies <- v2, brand <- v3, inbox <- v4, listing <- v5, open <- v6, rows <- v7,
  drawn <- v8, asked <- v9, syncBusy <- v10, syncing <- v11, notice <- v12, told <- v13,
  doubt <- v14

ASSUME InboxAssumption ==
  /\ Bound.asked \in Nat /\ Bound.replies \in Nat
  /\ None \notin [id : Names, seen : N!Seen] \cup [id : Names, seen : N!Seen, typed : N!Text]
              \cup [brand : Ids, of : {"result", "failure"}]

\* What is on the screen is of the brand.
InboxOfTheBrand ==
  /\ N!ListsInv /\ N!OneSync /\ N!ThreadOfTheBrand /\ N!ResultOfTheBrand

\* The list is asked for, and no thread is open.
LEMMA InboxOpens == N!NInit => InboxOfTheBrand
BY DEF N!NInit, N!ListsInv, N!OneSync, N!ThreadOfTheBrand, N!ResultOfTheBrand, InboxOfTheBrand

\* Every step of the inbox, the server and the answers keeps the invariant.
LEMMA InboxStays == InboxOfTheBrand /\ [N!NNext]_(N!nvars) => InboxOfTheBrand'
<1>. SUFFICES ASSUME InboxOfTheBrand, [N!NNext]_(N!nvars) PROVE InboxOfTheBrand'
  OBVIOUS
<1>1. ASSUME NEW b \in Ids, N!ReloadBrand(b) PROVE InboxOfTheBrand'
  <2>1. N!OneSync'
    BY <1>1, NullAssumption, InboxAssumption DEF InboxOfTheBrand, N!OneSync, N!Sync, N!ReloadBrand
  <2>2. N!ListsInv'
    BY <1>1, NullAssumption, InboxAssumption DEF InboxOfTheBrand, N!ListsInv, N!Screen, N!ReloadBrand
  <2>3. (N!ThreadOfTheBrand /\ N!ResultOfTheBrand)'
    BY <1>1, NullAssumption, InboxAssumption DEF InboxOfTheBrand, N!ThreadOfTheBrand, N!ResultOfTheBrand,
        N!ListsInv, N!Screen, N!Sync, N!Server, N!ReloadBrand
  <2>. QED  BY <2>1, <2>2, <2>3 DEF InboxOfTheBrand
<1>2. ASSUME NEW b \in Ids, N!OnSynced(b) PROVE InboxOfTheBrand'
  <2>1. N!OneSync'
    BY <1>2, NullAssumption, InboxAssumption DEF InboxOfTheBrand, N!OneSync, N!Sync, N!OnSynced, N!Synced,
        N!Render, N!LoadInbox
  <2>2. N!ListsInv'
    BY <1>2, NullAssumption, InboxAssumption DEF InboxOfTheBrand, N!ListsInv, N!Screen, N!OnSynced,
        N!Synced, N!Render, N!LoadInbox
  <2>3. (N!ThreadOfTheBrand /\ N!ResultOfTheBrand)'
    BY <1>2, NullAssumption, InboxAssumption DEF InboxOfTheBrand, N!ThreadOfTheBrand, N!ResultOfTheBrand,
        N!ListsInv, N!Screen, N!Sync, N!Server, N!OnSynced, N!Synced, N!Render, N!LoadInbox
  <2>. QED  BY <2>1, <2>2, <2>3 DEF InboxOfTheBrand
<1>3. ASSUME NEW b \in Ids, N!OnSyncFailed(b) PROVE InboxOfTheBrand'
  <2>1. N!OneSync'
    BY <1>3, NullAssumption, InboxAssumption DEF InboxOfTheBrand, N!OneSync, N!Sync, N!OnSyncFailed,
        N!Synced, N!Render
  <2>2. N!ListsInv'
    BY <1>3, NullAssumption, InboxAssumption DEF InboxOfTheBrand, N!ListsInv, N!Screen, N!OnSyncFailed,
        N!Synced, N!Render
  <2>3. (N!ThreadOfTheBrand /\ N!ResultOfTheBrand)'
    BY <1>3, NullAssumption, InboxAssumption DEF InboxOfTheBrand, N!ThreadOfTheBrand, N!ResultOfTheBrand,
        N!ListsInv, N!Screen, N!Sync, N!Server, N!OnSyncFailed, N!Synced, N!Render
  <2>. QED  BY <2>1, <2>2, <2>3 DEF InboxOfTheBrand
<1>4. ASSUME N!Refresh \/ N!OnInbox \/ N!OnInboxFailed PROVE InboxOfTheBrand'
  <2>1. N!OneSync'
    BY <1>4, NullAssumption, InboxAssumption DEF InboxOfTheBrand, N!OneSync, N!Sync, N!Refresh, N!OnInbox,
        N!OnInboxFailed, N!LoadInbox, N!Render
  <2>2. N!ListsInv'
    BY <1>4, NullAssumption, InboxAssumption DEF InboxOfTheBrand, N!ListsInv, N!Screen, N!Refresh,
        N!OnInbox, N!OnInboxFailed, N!LoadInbox, N!Render
  <2>3. (N!ThreadOfTheBrand /\ N!ResultOfTheBrand)'
    BY <1>4, NullAssumption, InboxAssumption DEF InboxOfTheBrand, N!ThreadOfTheBrand, N!ResultOfTheBrand,
        N!ListsInv, N!Screen, N!Sync, N!Server, N!Refresh, N!OnInbox, N!OnInboxFailed, N!LoadInbox,
        N!Render
  <2>. QED  BY <2>1, <2>2, <2>3 DEF InboxOfTheBrand
<1>5. ASSUME NEW t \in Names, N!InboxOpen(t) PROVE InboxOfTheBrand'
  <2>1. N!OneSync'
    BY <1>5, NullAssumption, InboxAssumption DEF InboxOfTheBrand, N!OneSync, N!Sync, N!InboxOpen, N!Render
  <2>2. N!ListsInv'
    BY <1>5, NullAssumption, InboxAssumption DEF InboxOfTheBrand, N!ListsInv, N!Screen, N!InboxOpen,
        N!Render
  <2>3. (N!ThreadOfTheBrand /\ N!ResultOfTheBrand)'
    BY <1>5, NullAssumption, InboxAssumption DEF InboxOfTheBrand, N!ThreadOfTheBrand, N!ResultOfTheBrand,
        N!ListsInv, N!Screen, N!Sync, N!Server, N!InboxOpen, N!Render
  <2>. QED  BY <2>1, <2>2, <2>3 DEF InboxOfTheBrand
<1>18. ASSUME N!Type \/ N!Redraw PROVE InboxOfTheBrand'
  <2>1. N!OneSync'
    BY <1>18 DEF InboxOfTheBrand, N!OneSync, N!Sync, N!Type, N!Redraw
  <2>2. N!ListsInv'
    BY <1>18 DEF InboxOfTheBrand, N!ListsInv, N!Type, N!Redraw, N!Render
  <2>3. N!ResultOfTheBrand'
    BY <1>18 DEF InboxOfTheBrand, N!ResultOfTheBrand, N!Sync, N!Type, N!Redraw
  <2>4. N!ThreadOfTheBrand'
    <3>1. CASE N!Type
      BY <3>1 DEF InboxOfTheBrand, N!ThreadOfTheBrand, N!Server, N!Type
    <3>2. CASE N!Redraw
      BY <3>2, NullAssumption DEF InboxOfTheBrand, N!ThreadOfTheBrand, N!ListsInv, N!Server, N!Redraw, N!Render
    <3>. QED  BY <1>18, <3>1, <3>2
  <2>. QED  BY <2>1, <2>2, <2>3, <2>4 DEF InboxOfTheBrand
<1>6. ASSUME N!InboxReply PROVE InboxOfTheBrand'
  <2>1. N!OneSync'
    BY <1>6, NullAssumption, InboxAssumption DEF InboxOfTheBrand, N!OneSync, N!Sync, N!InboxReply
  <2>2. N!ListsInv'
    BY <1>6, NullAssumption, InboxAssumption DEF InboxOfTheBrand, N!ListsInv, N!Screen, N!InboxReply
  <2>3. (N!ThreadOfTheBrand /\ N!ResultOfTheBrand)'
    BY <1>6, NullAssumption, InboxAssumption DEF InboxOfTheBrand, N!ThreadOfTheBrand, N!ResultOfTheBrand,
        N!ListsInv, N!Screen, N!Sync, N!Server, N!InboxReply
  <2>. QED  BY <2>1, <2>2, <2>3 DEF InboxOfTheBrand
<1>7. ASSUME NEW r \in N!Replies, N!InboxSend(r) PROVE InboxOfTheBrand'
  <2>1. N!OneSync'
    BY <1>7, NullAssumption, InboxAssumption DEF InboxOfTheBrand, N!OneSync, N!Sync, N!InboxSend
  <2>2. N!ListsInv'
    BY <1>7, NullAssumption, InboxAssumption DEF InboxOfTheBrand, N!ListsInv, N!Screen, N!InboxSend
  <2>3. (N!ThreadOfTheBrand /\ N!ResultOfTheBrand)'
    BY <1>7, NullAssumption, InboxAssumption DEF InboxOfTheBrand, N!ThreadOfTheBrand, N!ResultOfTheBrand,
        N!ListsInv, N!Screen, N!Sync, N!Server, N!InboxSend
  <2>. QED  BY <2>1, <2>2, <2>3 DEF InboxOfTheBrand
<1>8. ASSUME N!GmailSync PROVE InboxOfTheBrand'
  <2>1. N!OneSync'
    BY <1>8, NullAssumption, InboxAssumption DEF InboxOfTheBrand, N!OneSync, N!Sync, N!GmailSync, N!Render
  <2>2. N!ListsInv'
    BY <1>8, NullAssumption, InboxAssumption DEF InboxOfTheBrand, N!ListsInv, N!Screen, N!GmailSync,
        N!Render
  <2>3. (N!ThreadOfTheBrand /\ N!ResultOfTheBrand)'
    BY <1>8, NullAssumption, InboxAssumption DEF InboxOfTheBrand, N!ThreadOfTheBrand, N!ResultOfTheBrand,
        N!ListsInv, N!Screen, N!Sync, N!Server, N!GmailSync, N!Render
  <2>. QED  BY <2>1, <2>2, <2>3 DEF InboxOfTheBrand
<1>9. ASSUME NEW q \in v9, N!ServeThread(q) PROVE InboxOfTheBrand'
  <2>1. UNCHANGED <<N!Server, v3, v5, N!Screen, N!Sync, v13, v14>>
    BY <1>9, Zenon DEF N!ServeThread
  <2>2. N!OneSync'
    BY <2>1 DEF InboxOfTheBrand, N!OneSync, N!Sync
  <2>3. N!ListsInv'
    BY <2>1 DEF InboxOfTheBrand, N!ListsInv, N!Screen
  <2>4. (N!ThreadOfTheBrand /\ N!ResultOfTheBrand)'
    BY <2>1 DEF InboxOfTheBrand, N!ThreadOfTheBrand, N!ResultOfTheBrand, N!Screen, N!Sync, N!Server
  <2>. QED  BY <2>1, <2>2, <2>3, <2>4 DEF InboxOfTheBrand
<1>10. ASSUME NEW q \in v9, N!ServeReply(q) PROVE InboxOfTheBrand'
  <2>1. N!OneSync'
    BY <1>10, NullAssumption, InboxAssumption DEF InboxOfTheBrand, N!OneSync, N!Sync, N!ServeReply,
        N!Answer
  <2>2. N!ListsInv'
    BY <1>10, NullAssumption, InboxAssumption DEF InboxOfTheBrand, N!ListsInv, N!Screen, N!ServeReply,
        N!Answer
  <2>3. (N!ThreadOfTheBrand /\ N!ResultOfTheBrand)'
    BY <1>10, NullAssumption, InboxAssumption DEF InboxOfTheBrand, N!ThreadOfTheBrand, N!ResultOfTheBrand,
        N!ListsInv, N!Screen, N!Sync, N!Server, N!ServeReply, N!Answer
  <2>. QED  BY <2>1, <2>2, <2>3 DEF InboxOfTheBrand
<1>11. ASSUME NEW q \in v9, N!ServeTake(q) PROVE InboxOfTheBrand'
  <2>1. N!OneSync'
    BY <1>11, NullAssumption, InboxAssumption DEF InboxOfTheBrand, N!OneSync, N!Sync, N!ServeTake,
        N!Answer
  <2>2. N!ListsInv'
    BY <1>11, NullAssumption, InboxAssumption DEF InboxOfTheBrand, N!ListsInv, N!Screen, N!ServeTake,
        N!Answer
  <2>3. (N!ThreadOfTheBrand /\ N!ResultOfTheBrand)'
    BY <1>11, NullAssumption, InboxAssumption DEF InboxOfTheBrand, N!ThreadOfTheBrand, N!ResultOfTheBrand,
        N!ListsInv, N!Screen, N!Sync, N!Server, N!ServeTake, N!Answer
  <2>. QED  BY <2>1, <2>2, <2>3 DEF InboxOfTheBrand
<1>12. ASSUME NEW q \in v9, NEW state \in {"sent", "pending", "review"}, N!ServeSend(q, state) PROVE InboxOfTheBrand'
  <2>1. N!OneSync'
    BY <1>12, NullAssumption, InboxAssumption DEF InboxOfTheBrand, N!OneSync, N!Sync, N!ServeSend
  <2>2. N!ListsInv'
    BY <1>12, NullAssumption, InboxAssumption DEF InboxOfTheBrand, N!ListsInv, N!Screen, N!ServeSend
  <2>3. (N!ThreadOfTheBrand /\ N!ResultOfTheBrand)'
    BY <1>12, NullAssumption, InboxAssumption DEF InboxOfTheBrand, N!ThreadOfTheBrand, N!ResultOfTheBrand,
        N!ListsInv, N!Screen, N!Sync, N!Server, N!ServeSend
  <2>. QED  BY <2>1, <2>2, <2>3 DEF InboxOfTheBrand
<1>13. ASSUME NEW q \in v9, N!Fail(q) PROVE InboxOfTheBrand'
  <2>1. N!OneSync'
    BY <1>13, NullAssumption, InboxAssumption DEF InboxOfTheBrand, N!OneSync, N!Sync, N!Fail
  <2>2. N!ListsInv'
    BY <1>13, NullAssumption, InboxAssumption DEF InboxOfTheBrand, N!ListsInv, N!Screen, N!Fail
  <2>3. (N!ThreadOfTheBrand /\ N!ResultOfTheBrand)'
    BY <1>13, NullAssumption, InboxAssumption DEF InboxOfTheBrand, N!ThreadOfTheBrand, N!ResultOfTheBrand,
        N!ListsInv, N!Screen, N!Sync, N!Server, N!Fail
  <2>. QED  BY <2>1, <2>2, <2>3 DEF InboxOfTheBrand
<1>14. ASSUME NEW q \in v9, N!OnThread(q) PROVE InboxOfTheBrand'
  <2>1. N!OneSync'
    BY <1>14, NullAssumption, InboxAssumption DEF InboxOfTheBrand, N!OneSync, N!Sync, N!OnThread, N!Render
  <2>2. N!ListsInv'
    BY <1>14, NullAssumption, InboxAssumption DEF InboxOfTheBrand, N!ListsInv, N!Screen, N!OnThread,
        N!Render
  <2>3. (N!ThreadOfTheBrand /\ N!ResultOfTheBrand)'
    BY <1>14, NullAssumption, InboxAssumption DEF InboxOfTheBrand, N!ThreadOfTheBrand, N!ResultOfTheBrand,
        N!ListsInv, N!Screen, N!Sync, N!Server, N!OnThread, N!Render
  <2>. QED  BY <2>1, <2>2, <2>3 DEF InboxOfTheBrand
<1>15. ASSUME NEW q \in v9, N!OnReply(q) PROVE InboxOfTheBrand'
  <2>1. N!OneSync'
    BY <1>15, NullAssumption, InboxAssumption DEF InboxOfTheBrand, N!OneSync, N!Sync, N!OnReply, N!Render,
        N!LoadInbox
  <2>2. N!ListsInv'
    BY <1>15, NullAssumption, InboxAssumption DEF InboxOfTheBrand, N!ListsInv, N!Screen, N!OnReply,
        N!Render, N!LoadInbox
  <2>3. (N!ThreadOfTheBrand /\ N!ResultOfTheBrand)'
    BY <1>15, NullAssumption, InboxAssumption DEF InboxOfTheBrand, N!ThreadOfTheBrand, N!ResultOfTheBrand,
        N!ListsInv, N!Screen, N!Sync, N!Server, N!OnReply, N!Render, N!LoadInbox
  <2>. QED  BY <2>1, <2>2, <2>3 DEF InboxOfTheBrand
<1>16. ASSUME NEW q \in v9, N!OnSend(q) PROVE InboxOfTheBrand'
  <2>1. N!OneSync'
    BY <1>16, NullAssumption, InboxAssumption DEF InboxOfTheBrand, N!OneSync, N!Sync, N!OnSend,
        N!LoadInbox
  <2>2. N!ListsInv'
    BY <1>16, NullAssumption, InboxAssumption DEF InboxOfTheBrand, N!ListsInv, N!Screen, N!OnSend,
        N!LoadInbox
  <2>3. (N!ThreadOfTheBrand /\ N!ResultOfTheBrand)'
    BY <1>16, NullAssumption, InboxAssumption DEF InboxOfTheBrand, N!ThreadOfTheBrand, N!ResultOfTheBrand,
        N!ListsInv, N!Screen, N!Sync, N!Server, N!OnSend, N!LoadInbox
  <2>. QED  BY <2>1, <2>2, <2>3 DEF InboxOfTheBrand
<1>17. CASE UNCHANGED N!nvars
  BY <1>17 DEF N!nvars, InboxOfTheBrand, N!OneSync, N!Sync, N!ListsInv, N!Screen, N!ThreadOfTheBrand,
      N!ResultOfTheBrand, N!Server
<1>. QED BY <1>1, <1>2, <1>3, <1>4, <1>5, <1>6, <1>7, <1>8, <1>9, <1>10, <1>11, <1>12, <1>13,
    <1>14, <1>15, <1>16, <1>17, <1>18 DEF N!NNext

InboxInv ==
  /\ N!TypeOK /\ InboxOfTheBrand
  /\ N!ToldInv /\ N!AskedInv /\ N!OpenInv /\ N!RepliesAreShown
  /\ N!TypedInv /\ N!RepliedWhereTyped

\* None, a thread and a notice are three things; a reply has a number, and none is none.
LEMMA InboxNone ==
  /\ None \notin Names /\ None \notin Ids
  /\ \A t \in Names, s \in N!Seen : [id |-> t, seen |-> s] # None
  /\ \A t \in Names, s \in N!Seen, x \in N!Text : [id |-> t, seen |-> s, typed |-> x] # None
  /\ 0 \notin N!Replies
  /\ N!Nothing \in N!Seen /\ \A r \in N!Replies : N!Nothing[r] = "none"
BY NullAssumption, InboxAssumption DEF N!Replies, N!Nothing, N!Seen, N!States

\* An empty inbox tells nothing.
LEMMA InboxBegins == N!NInit => InboxInv
<1>. SUFFICES ASSUME N!NInit PROVE InboxInv
  OBVIOUS
<1>1. N!TypeOK
  BY InboxNone DEF N!NInit, N!TypeOK, N!States, N!Request, N!Text
<1>2. N!ToldInv /\ N!AskedInv /\ N!OpenInv /\ N!RepliesAreShown
  BY InboxNone DEF N!NInit, N!ToldInv, N!AskedInv, N!OpenInv, N!RepliesAreShown
<1>3. N!TypedInv /\ N!RepliedWhereTyped
  BY DEF N!NInit, N!TypedInv, N!RepliedWhereTyped
<1>. QED  BY <1>1, <1>2, <1>3, InboxOpens DEF InboxInv

\* What is asked is a request, and an answer makes it another one.
LEMMA InboxAsked ==
  ASSUME NEW t \in Names
  PROVE  LET n == N!Ask("open", t, 0, None)
         IN  /\ n \in N!Request /\ n.kind = "open" /\ n.id = t /\ n.answer = "asked"
             /\ n.seen = N!Nothing
BY InboxNone DEF N!Ask, N!Request, N!Text

LEMMA InboxAnswered ==
  ASSUME NEW q \in N!Request, NEW a \in {"asked", "taken", "ok"}
  PROVE  LET n == [q EXCEPT !.answer = a]
         IN  /\ n \in N!Request /\ n.answer = a /\ n.kind = q.kind /\ n.id = q.id
             /\ n.reply = q.reply /\ n.seen = q.seen /\ n.late = q.late /\ n.typed = q.typed
BY DEF N!Request

\* A load of a thread makes the others of it late, and changes no other request.
Aged(p, q, t) ==
  /\ p.kind = q.kind /\ p.id = q.id /\ p.reply = q.reply /\ p.answer = q.answer /\ p.seen = q.seen
  /\ p.typed = q.typed
  /\ q.kind = "open" /\ q.id = t => p.late
  /\ ~(q.kind = "open" /\ q.id = t) => p = q
LEMMA InboxLoads ==
  ASSUME NEW t \in Names, NEW others, others \subseteq N!Request, N!Load(t, others)
  PROVE  /\ v9' \subseteq N!Request /\ N!Coming(t)'
         /\ \A p \in v9' : p = N!Ask("open", t, 0, None) \/ \E q \in others : Aged(p, q, t)
         /\ \A q \in others : \E p \in v9' : Aged(p, q, t)
<1>. DEFINE Old(q) == [q EXCEPT !.late = @ \/ (q.kind = "open" /\ q.id = t)]
<1>1. v9' = {Old(q) : q \in others} \cup {N!Ask("open", t, 0, None)}
  BY DEF N!Load
<1>2. ASSUME NEW q \in others PROVE Old(q) \in N!Request /\ Aged(Old(q), q, t)
  <2>1. q \in N!Request /\ q.late \in BOOLEAN
    BY DEF N!Request
  <2>2. CASE q.kind = "open" /\ q.id = t
    <3>1. Old(q) = [q EXCEPT !.late = TRUE]
      BY <2>1, <2>2
    <3>. HIDE DEF Old
    <3>. QED  BY <2>1, <2>2, <3>1 DEF N!Request, Aged
  <2>3. CASE ~(q.kind = "open" /\ q.id = t)
    <3>1. Old(q) = q
      BY <2>1, <2>3 DEF N!Request
    <3>. HIDE DEF Old
    <3>. QED  BY <2>1, <2>3, <3>1 DEF Aged
  <2>. QED  BY <2>2, <2>3
<1>. HIDE DEF Old
<1>3. /\ N!Ask("open", t, 0, None) \in N!Request /\ N!Ask("open", t, 0, None).kind = "open"
     /\ N!Ask("open", t, 0, None).id = t
  BY InboxAsked
<1>. QED  BY <1>1, <1>2, <1>3 DEF N!Coming

\* What is drawn is the thread that is open, its field empty, or nothing.
Drawn == [id : Names, seen : N!Seen, typed : N!Text]
LEMMA InboxDraws ==
  ASSUME NEW list, NEW thread \in [id : Names, seen : N!Seen] \cup {None}, N!Render(list, thread)
  PROVE  /\ v7' = list /\ v8' \in Drawn \cup {None}
         /\ v8' # None => /\ thread # None /\ v8'.id = thread.id /\ v8'.seen = thread.seen
                          /\ v8'.typed = None
BY DEF N!Render, Drawn, N!Text

\* The replies stay with their threads.
Stored == \A r \in N!Replies : v2[r].id # None => v2'[r].id = v2[r].id

\* What is drawn was drawn before, or is what is open.
Shows == v8' # None => \E x \in {v6, v8} : x # None /\ v8'.id = x.id /\ v8'.seen = x.seen

\* What is open, or drawn, stays as it was, or is gone; and what the page is told of a reply
\* comes with a load of its thread.
Before ==
  /\ Stored
  /\ v6' \in {None, v6} /\ Shows
  /\ ~v14' => ~v14
  /\ \A t \in Names : N!Coming(t) => N!Coming(t)'
  /\ \A r \in N!Replies : v13'[r] = v13[r] \/ \E t \in Names : v2[r].id = t /\ N!Coming(t)'
LEMMA InboxBefore ==
  ASSUME InboxInv, N!TypeOK', N!ToldInv, Before
  PROVE  N!OpenInv' /\ N!RepliesAreShown'
<1>1. ASSUME NEW t \in Names, NEW s \in N!Seen, N!Fits(t, s)
      PROVE  \A r \in N!Replies : s[r] # "none" => v2'[r].id = t
  BY <1>1, InboxNone DEF N!Fits, Before, Stored
<1>2. ASSUME NEW t \in Names, NEW s \in N!Seen, ~v14' /\ ~(\E q \in v9' : q.kind = "open" /\ q.id = t),
             ~v14 /\ ~N!Coming(t) => N!Tells(t, s)
      PROVE  \A r \in N!Replies : v2'[r].id = t => (v13'[r] # "none" => s[r] # "none")
                                                   /\ (v13'[r] = "sent" => s[r] = "sent")
  <2>1. N!Tells(t, s)
    BY <1>2 DEF Before, N!Coming
  <2>2. SUFFICES ASSUME NEW r \in N!Replies, v2'[r].id = t
                 PROVE  (v13'[r] # "none" => s[r] # "none") /\ (v13'[r] = "sent" => s[r] = "sent")
    OBVIOUS
  <2>3. CASE v2[r].id = t
    BY <1>2, <2>1, <2>2, <2>3 DEF Before, N!Tells, N!Coming
  <2>4. CASE v2[r].id # t
    <3>1. v2[r].id = None /\ v13[r] = "none"
      BY <2>2, <2>4 DEF Before, Stored, N!ToldInv
    <3>. QED  BY <3>1, InboxNone DEF Before
  <2>. QED  BY <2>3, <2>4
<1>3. ASSUME NEW x, x \in {v6, v8}, x # None PROVE x.id \in Names /\ x.seen \in N!Seen
  BY <1>3 DEF InboxInv, N!TypeOK
<1>4. v6' # None => v6' = v6 /\ N!Fits(v6.id, v6.seen) /\ (~v14 /\ ~N!Coming(v6.id) => N!Tells(v6.id, v6.seen))
  BY DEF Before, InboxInv, N!OpenInv
<1>5. v8' # None => /\ v8'.id \in Names /\ v8'.seen \in N!Seen /\ N!Fits(v8'.id, v8'.seen)
                    /\ ~v14 /\ ~N!Coming(v8'.id) => N!Tells(v8'.id, v8'.seen)
  <2>1. ASSUME NEW x \in {v6, v8}, x # None
        PROVE  N!Fits(x.id, x.seen) /\ (~v14 /\ ~N!Coming(x.id) => N!Tells(x.id, x.seen))
    BY <2>1 DEF InboxInv, N!OpenInv, N!RepliesAreShown
  <2>2. SUFFICES ASSUME NEW x \in {v6, v8}, x # None, v8'.id = x.id, v8'.seen = x.seen
                 PROVE  /\ v8'.id \in Names /\ v8'.seen \in N!Seen /\ N!Fits(v8'.id, v8'.seen)
                        /\ ~v14 /\ ~N!Coming(v8'.id) => N!Tells(v8'.id, v8'.seen)
    BY DEF Before, Shows
  <2>. QED  BY <1>3, <2>1, <2>2
<1>6. N!OpenInv'
  <2>1. v6' # None => \A r \in N!Replies : v6'.seen[r] # "none" => v2'[r].id = v6'.id
    BY <1>1, <1>3, <1>4
  <2>2. v8' # None => \A r \in N!Replies : v8'.seen[r] # "none" => v2'[r].id = v8'.id
    BY <1>1, <1>3, <1>5
  <2>3. v6' # None /\ ~v14' /\ ~(\E q \in v9' : q.kind = "open" /\ q.id = v6'.id) =>
          \A r \in N!Replies : v2'[r].id = v6'.id => (v13'[r] # "none" => v6'.seen[r] # "none")
                                                     /\ (v13'[r] = "sent" => v6'.seen[r] = "sent")
    BY <1>2, <1>3, <1>4
  <2>. QED  BY <2>1, <2>2, <2>3 DEF N!OpenInv, N!Fits, N!Tells, N!Coming
<1>7. N!RepliesAreShown'
  <2>1. v8' # None /\ ~v14' /\ ~(\E q \in v9' : q.kind = "open" /\ q.id = v8'.id) =>
          \A r \in N!Replies : v2'[r].id = v8'.id => (v13'[r] # "none" => v8'.seen[r] # "none")
                                                     /\ (v13'[r] = "sent" => v8'.seen[r] = "sent")
    BY <1>2, <1>3, <1>5
  <2>. QED  BY <2>1 DEF N!RepliesAreShown, N!Tells, N!Coming
<1>. QED  BY <1>6, <1>7

\* Where nothing is stored and nothing told, a request stays sound.
LEMMA InboxSound ==
  ASSUME UNCHANGED <<v2, v13>>, NEW p, N!Sound(p)
  PROVE  N!Sound(p)'
BY DEF N!Sound, N!Fits, N!Tells

\* What asks nothing, and is told nothing, keeps what was read.
LEMMA InboxQuiet ==
  ASSUME InboxInv, N!TypeOK', UNCHANGED <<v2, v9, v13>>, v6' \in {None, v6},
         Shows, ~v14' => ~v14
  PROVE  N!ToldInv' /\ N!AskedInv' /\ N!OpenInv' /\ N!RepliesAreShown'
<1>1. Before
  BY DEF Before, Stored, Shows, N!Coming
<1>2. N!ToldInv'
  BY DEF InboxInv, N!ToldInv
<1>3. N!AskedInv'
  BY InboxSound DEF InboxInv, N!AskedInv, N!Claims
<1>. QED  BY <1>1, <1>2, <1>3, InboxBefore DEF InboxInv

\* A new request keeps the ones under way.
LEMMA InboxMore ==
  ASSUME InboxInv, N!TypeOK', UNCHANGED <<v2, v6, v8, v13, v14>>, NEW n, v9' = v9 \cup {n},
         N!Sound(n), \A q \in v9 : ~(N!Claims(n) /\ q.kind = n.kind /\ q.reply = n.reply)
  PROVE  N!ToldInv' /\ N!AskedInv' /\ N!OpenInv' /\ N!RepliesAreShown'
<1>1. Before
  BY DEF Before, Stored, Shows, N!Coming
<1>2. N!ToldInv'
  BY DEF InboxInv, N!ToldInv
<1>3. \A q \in v9' : N!Sound(q)'
  BY InboxSound DEF InboxInv, N!AskedInv
<1>4. N!AskedInv'
  BY <1>3 DEF InboxInv, N!AskedInv, N!Claims
<1>. QED  BY <1>1, <1>2, <1>4, InboxBefore DEF InboxInv

\* A load of a thread, with a request that lands or without.
LEMMA InboxLoad ==
  ASSUME InboxInv, N!TypeOK', NEW t \in Names, NEW others, others \subseteq v9,
         N!Load(t, others), v2' = v2, v14' = v14, v6' \in {None, v6}, Shows,
         \A q \in v9 : q \in others \/ q.kind # "open",
         \A r \in N!Replies : v13'[r] = v13[r] \/ v2[r].id = t,
         N!ToldInv'
  PROVE  N!AskedInv' /\ N!OpenInv' /\ N!RepliesAreShown'
<1>1. /\ v9' \subseteq N!Request /\ N!Coming(t)'
      /\ \A p \in v9' : p = N!Ask("open", t, 0, None) \/ \E q \in others : Aged(p, q, t)
      /\ \A q \in others : \E p \in v9' : Aged(p, q, t)
  BY InboxLoads DEF InboxInv, N!TypeOK
<1>2. Before
  <2>1. \A s \in Names : N!Coming(s) => N!Coming(s)'
    BY <1>1 DEF N!Coming, Aged
  <2>. QED  BY <1>1, <2>1 DEF Before, Stored
<1>3. ASSUME NEW p \in v9' PROVE N!Sound(p)'
  <2>1. CASE p = N!Ask("open", t, 0, None)
    <3>1. p.kind = "open" /\ p.answer = "asked" /\ p.seen = N!Nothing
      BY <2>1, InboxAsked
    <3>. QED  BY <3>1, InboxNone DEF N!Sound, N!Fits
  <2>2. ASSUME NEW q \in others, Aged(p, q, t) PROVE N!Sound(p)'
    <3>1. N!Sound(q)
      BY DEF InboxInv, N!AskedInv
    <3>2. q.kind = "open" => N!Fits(q.id, q.seen)'
      BY <3>1 DEF N!Sound, N!Fits
    <3>3. q.kind = "open" /\ q.answer = "ok" /\ ~q.late /\ q.id # t => N!Tells(q.id, q.seen)'
      BY <3>1 DEF N!Sound, N!Tells
    <3>4. q.late \in BOOLEAN /\ p.late \in BOOLEAN
      BY <1>1 DEF InboxInv, N!TypeOK, N!Request
    <3>5. p.kind = "open" => N!Fits(p.id, p.seen)' /\ (p.answer = "ok" /\ ~p.late => N!Tells(p.id, p.seen)')
      BY <2>2, <3>2, <3>3, <3>4 DEF Aged
    <3>. QED  BY <2>2, <3>1, <3>5 DEF Aged, N!Sound
  <2>. QED  BY <1>1, <2>1, <2>2
<1>4. ASSUME NEW p \in v9', NEW q \in v9', N!Claims(p), N!Claims(q), p.kind = q.kind, p.reply = q.reply
      PROVE  p = q
  <2>1. \A n \in v9' : N!Claims(n) => n \in others
    <3>1. ASSUME NEW n \in v9', N!Claims(n) PROVE n \in others
      <4>1. n # N!Ask("open", t, 0, None)
        BY <3>1, InboxAsked DEF N!Claims
      <4>2. PICK o \in others : Aged(n, o, t)
        BY <1>1, <4>1
      <4>3. N!Sound(o)
        BY DEF InboxInv, N!AskedInv
      <4>4. o.kind # "open"
        BY <3>1, <4>2, <4>3 DEF N!Claims, Aged, N!Sound
      <4>. QED  BY <4>2, <4>4 DEF Aged
    <3>. QED  BY <3>1
  <2>. QED  BY <1>4, <2>1 DEF InboxInv, N!AskedInv
<1>5. N!AskedInv'
  BY <1>3, <1>4 DEF N!AskedInv, N!Claims
<1>. QED  BY <1>2, <1>5, InboxBefore DEF InboxInv

\* A request that is answered: where the answer is sound the others stay so.
LEMMA InboxServed ==
  ASSUME InboxInv, N!TypeOK', NEW q \in v9, NEW n, v9' = (v9 \ {q}) \cup {n},
         n.kind = q.kind, n.id = q.id, n.reply = q.reply,
         Stored, UNCHANGED <<v6, v8, v13, v14>>, N!ToldInv',
         N!Sound(n)', \A p \in v9 \ {q} : N!Sound(p)',
         N!Claims(n) => \A p \in v9 \ {q} : ~(N!Claims(p) /\ p.kind = n.kind /\ p.reply = n.reply)
  PROVE  N!AskedInv' /\ N!OpenInv' /\ N!RepliesAreShown'
<1>1. \A s \in Names : N!Coming(s) => N!Coming(s)'
  BY DEF N!Coming
<1>2. Before
  BY <1>1 DEF Before, Shows
<1>3. \A p \in v9' : N!Sound(p)'
  OBVIOUS
<1>4. N!AskedInv'
  BY <1>3 DEF InboxInv, N!AskedInv, N!Claims
<1>. QED  BY <1>2, <1>4, InboxBefore DEF InboxInv

\* Every step of the inbox, the server and the answers keeps what was read of the replies.
Read == N!TypeOK /\ N!ToldInv /\ N!AskedInv /\ N!OpenInv /\ N!RepliesAreShown
LEMMA InboxReads == InboxInv /\ [N!NNext]_(N!nvars) => Read'
<1>. SUFFICES ASSUME InboxInv, [N!NNext]_(N!nvars) PROVE Read'
  OBVIOUS
<1>. USE DEF Read
<1>a. /\ v1 \in [Names -> Ids] /\ v2 \in [N!Replies -> [id : Names \cup {None}, typed : N!Text, state : N!States]]
      /\ v3 \in Ids /\ {v4, v5, v7} \subseteq Ids \cup {None}
      /\ v6 \in [id : Names, seen : N!Seen] \cup {None} /\ v8 \in Drawn \cup {None}
      /\ v9 \subseteq N!Request /\ v10 \in BOOLEAN /\ v11 \subseteq Ids
      /\ v12 \in [brand : Ids, of : {"result", "failure"}] \cup {None}
      /\ v13 \in N!Seen /\ v14 \in BOOLEAN
  BY DEF InboxInv, N!TypeOK, Drawn
<1>1. ASSUME UNCHANGED <<v1, v2, v9, v13>>, v3' \in Ids, {v4', v5', v7'} \subseteq Ids \cup {None},
             v6' \in {None, v6}, v8' \in Drawn \cup {None}, Shows, v10' \in BOOLEAN, v11' \subseteq Ids,
             v12' \in [brand : Ids, of : {"result", "failure"}] \cup {None}, v14' = v14
      PROVE  Read'
  <2>1. N!TypeOK'
    BY <1>a, <1>1 DEF N!TypeOK, Drawn
  <2>. QED  BY <1>1, <2>1, InboxQuiet
<1>2. ASSUME NEW b \in Ids, N!ReloadBrand(b) \/ N!OnSynced(b) \/ N!OnSyncFailed(b) PROVE Read'
  <2>1. CASE N!ReloadBrand(b)
    BY <1>a, <1>1, <2>1 DEF N!ReloadBrand, N!Server, Shows
  <2>2. CASE N!OnSynced(b)
    <3>1. /\ UNCHANGED <<v1, v2, v3, v6, v9, v13, v14>> /\ v10' = FALSE /\ v11' = v11 \ {b}
          /\ N!Render(v4', v6) /\ (v4' = None \/ v4' = v4) /\ (v5' = v3 \/ v5' = v5)
          /\ v12' = [brand |-> b, of |-> "result"] \/ v12' = v12
      BY <2>2 DEF N!OnSynced, N!Synced, N!Server, N!LoadInbox
    <3>2. v7' = v4' /\ v8' \in Drawn \cup {None} /\ Shows
      BY <1>a, <3>1, InboxDraws DEF Shows
    <3>3. v12' \in [brand : Ids, of : {"result", "failure"}] \cup {None} /\ v11' \subseteq Ids
      BY <1>a, <3>1
    <3>4. {v4', v5', v7'} \subseteq Ids \cup {None}
      BY <1>a, <3>1, <3>2
    <3>. QED  BY <1>a, <1>1, <3>1, <3>2, <3>3, <3>4
  <2>3. CASE N!OnSyncFailed(b)
    <3>1. /\ UNCHANGED <<v1, v2, v3, v4, v5, v6, v9, v13, v14>> /\ v10' = FALSE /\ v11' = v11 \ {b}
          /\ N!Render(v4, v6) /\ v12' = [brand |-> b, of |-> "failure"]
      BY <2>3 DEF N!OnSyncFailed, N!Synced, N!Server
    <3>2. v7' = v4 /\ v8' \in Drawn \cup {None} /\ Shows
      BY <1>a, <3>1, InboxDraws DEF Shows
    <3>. QED  BY <1>a, <1>1, <3>1, <3>2
  <2>. QED  BY <1>2, <2>1, <2>2, <2>3
<1>3. CASE N!Refresh \/ N!OnInbox \/ N!OnInboxFailed \/ N!GmailSync
  <2>1. CASE N!Refresh
    BY <1>a, <1>1, <2>1 DEF N!Refresh, N!Server, N!LoadInbox, N!Sync, Shows
  <2>2. CASE N!OnInbox
    <3>1. /\ UNCHANGED <<v1, v2, v3, v6, v9, v10, v11, v12, v13, v14>>
          /\ v4' = v5 /\ v5' = None /\ N!Render(v5, v6)
      BY <2>2 DEF N!OnInbox, N!Server, N!Sync
    <3>2. v7' = v5 /\ v8' \in Drawn \cup {None} /\ Shows
      BY <1>a, <3>1, InboxDraws DEF Shows
    <3>. QED  BY <1>a, <1>1, <3>1, <3>2
  <2>3. CASE N!OnInboxFailed
    <3>1. /\ UNCHANGED <<v1, v2, v3, v4, v6, v9, v10, v11, v12, v13, v14>>
          /\ v5' = None /\ N!Render(v4, v6)
      BY <2>3 DEF N!OnInboxFailed, N!Server, N!Sync
    <3>2. v7' = v4 /\ v8' \in Drawn \cup {None} /\ Shows
      BY <1>a, <3>1, InboxDraws DEF Shows
    <3>. QED  BY <1>a, <1>1, <3>1, <3>2
  <2>4. CASE N!GmailSync
    <3>1. /\ UNCHANGED <<v1, v2, v3, v4, v5, v6, v9, v13, v14>> /\ v10' = TRUE
          /\ v11' = v11 \cup {v3} /\ v12' = None /\ N!Render(v4, v6)
      BY <2>4 DEF N!GmailSync, N!Server
    <3>2. v7' = v4 /\ v8' \in Drawn \cup {None} /\ Shows
      BY <1>a, <3>1, InboxDraws DEF Shows
    <3>. QED  BY <1>a, <1>1, <3>1, <3>2
  <2>. QED  BY <1>3, <2>1, <2>2, <2>3, <2>4
<1>4. ASSUME NEW t \in Names, N!InboxOpen(t) PROVE Read'
  <2>1. UNCHANGED <<v1, v2, v3, v4, v5, v10, v11, v12, v13, v14>>
    BY <1>4 DEF N!InboxOpen, N!Server, N!Sync
  <2>2. CASE v6 # None /\ v6.id = t
    <3>1. v6' = None /\ N!Render(v4, None) /\ v9' = v9
      BY <1>4, <2>2 DEF N!InboxOpen
    <3>2. v7' = v4 /\ v8' = None
      BY <1>a, <3>1, InboxDraws DEF Shows
    <3>. QED  BY <1>a, <1>1, <2>1, <3>1, <3>2 DEF Shows
  <2>3. CASE ~(v6 # None /\ v6.id = t)
    <3>1. N!Load(t, v9) /\ UNCHANGED <<v6, v7, v8>>
      BY <1>4, <2>3 DEF N!InboxOpen
    <3>2. v9' \subseteq N!Request
      BY <1>a, <3>1, InboxLoads
    <3>3. N!TypeOK'
      BY <1>a, <2>1, <3>1, <3>2 DEF N!TypeOK, Drawn
    <3>4. N!ToldInv'
      BY <2>1 DEF InboxInv, N!ToldInv
    <3>. QED  BY <2>1, <3>1, <3>3, <3>4, InboxLoad DEF Shows
  <2>. QED  BY <2>2, <2>3
<1>5. CASE N!InboxReply
  <2>1. PICK r \in N!Replies : /\ v2[r].id = None /\ \A q \in v9 : q.reply # r
                               /\ v9' = v9 \cup {N!Ask("reply", v8.id, r, v8.typed)}
    BY <1>5 DEF N!InboxReply
  <2>2. UNCHANGED <<v1, v2, v3, v4, v5, v6, v7, v8, v10, v11, v12, v13, v14>> /\ v8 # None
    BY <1>5 DEF N!InboxReply, N!Server, N!Screen, N!Sync
  <2>. DEFINE n == N!Ask("reply", v8.id, r, v8.typed)
  <2>3. /\ n \in N!Request /\ n.kind = "reply" /\ n.id \in Names /\ n.reply = r
        /\ n.answer = "asked"
    BY <1>a, <2>1, <2>2, InboxNone DEF N!Ask, N!Request, Drawn
  <2>. HIDE DEF n
  <2>4. N!TypeOK'
    BY <1>a, <2>1, <2>2, <2>3 DEF N!TypeOK, Drawn, n
  <2>5. N!Sound(n)
    BY <2>1, <2>3 DEF N!Sound
  <2>6. v9' = v9 \cup {n}
    BY <2>1 DEF n
  <2>. QED  BY <2>1, <2>2, <2>3, <2>4, <2>5, <2>6, InboxMore
<1>6. ASSUME NEW r \in N!Replies, N!InboxSend(r) PROVE Read'
  <2>1. /\ UNCHANGED <<v1, v2, v3, v4, v5, v6, v7, v8, v10, v11, v12, v13, v14>>
        /\ v8 # None /\ v8.seen[r] = "pending" /\ v9' = v9 \cup {N!Ask("send", v8.id, r, None)}
    BY <1>6 DEF N!InboxSend, N!Server, N!Screen, N!Sync
  <2>. DEFINE n == N!Ask("send", v8.id, r, None)
  <2>2. /\ n \in N!Request /\ n.kind = "send" /\ n.id = v8.id /\ n.reply = r
        /\ n.answer = "asked"
    BY <1>a, <2>1, InboxNone DEF N!Ask, N!Request, Drawn, N!Text
  <2>. HIDE DEF n
  <2>3. N!TypeOK'
    BY <1>a, <2>1, <2>2 DEF N!TypeOK, Drawn, n
  <2>4. v2[r].id = v8.id /\ v2[r].state # "none"
    BY <1>a, <2>1, InboxNone DEF InboxInv, N!OpenInv, N!Fits, N!ToldInv, Drawn
  <2>5. N!Sound(n)
    BY <2>2, <2>4 DEF N!Sound
  <2>6. v9' = v9 \cup {n} /\ ~N!Claims(n)
    BY <2>1, <2>2 DEF n, N!Claims
  <2>. QED  BY <2>1, <2>3, <2>5, <2>6, InboxMore
<1>7. ASSUME NEW q \in v9, N!ServeThread(q) PROVE Read'
  <2>1. UNCHANGED <<N!Server, v3, v5, N!Screen, N!Sync, v13, v14>>
    BY <1>7, Zenon DEF N!ServeThread
  <2>2. UNCHANGED <<v1, v2, v3, v4, v5, v6, v7, v8, v10, v11, v12, v13, v14>>
    BY <2>1 DEF N!Server, N!Screen, N!Sync
  <2>. DEFINE s == [r \in N!Replies |-> IF v2[r].id = q.id THEN v2[r].state ELSE "none"]
              n == [q EXCEPT !.answer = "ok", !.seen = s]
  <2>3. q.kind = "open" /\ q.answer = "asked" /\ v9' = (v9 \ {q}) \cup {n}
    BY <1>7, Zenon DEF N!ServeThread
  <2>4. s \in N!Seen /\ \A r \in N!Replies : s[r] = IF v2[r].id = q.id THEN v2[r].state ELSE "none"
    BY <1>a DEF N!Seen, N!States
  <2>. HIDE DEF s
  <2>5. /\ n \in N!Request /\ n.answer = "ok" /\ n.kind = q.kind /\ n.id = q.id
        /\ n.reply = q.reply /\ n.seen = s /\ n.late = q.late
    BY <1>a, <2>4 DEF N!Request
  <2>. HIDE DEF n
  <2>6. N!TypeOK'
    BY <1>a, <2>2, <2>3, <2>5 DEF N!TypeOK, Drawn
  <2>7. N!Fits(q.id, s) /\ N!Tells(q.id, s)
    BY <2>4 DEF N!Fits, N!Tells, InboxInv, N!ToldInv
  <2>8. N!Sound(n)
    BY <2>3, <2>5, <2>7 DEF N!Sound
  <2>9. \A p \in (v9 \ {q}) \cup {n} : N!Sound(p)'
    BY <2>2, <2>8, InboxSound DEF InboxInv, N!AskedInv
  <2>10. N!ToldInv' /\ Stored /\ ~N!Claims(n)
    BY <2>2, <2>3, <2>5 DEF InboxInv, N!ToldInv, Stored, N!Claims
  <2>. QED  BY <2>2, <2>3, <2>5, <2>6, <2>9, <2>10, InboxServed
<1>8. ASSUME NEW q \in v9, N!ServeReply(q) PROVE Read'
  <2>1. /\ q.kind = "reply" /\ q.answer = "asked" /\ UNCHANGED <<v1, v3, v4, v5, v6, v7, v8, v10, v11, v12, v13, v14>>
        /\ v2' = [v2 EXCEPT ![q.reply] = [id |-> q.id, typed |-> q.typed, state |-> "pending"]]
        /\ v9' = (v9 \ {q}) \cup {[q EXCEPT !.answer = "ok"]}
    BY <1>8 DEF N!ServeReply, N!Answer, N!Screen, N!Sync
  <2>. DEFINE n == [q EXCEPT !.answer = "ok"]
  <2>2. /\ n \in N!Request /\ n.answer = "ok" /\ n.kind = "reply" /\ n.id = q.id
        /\ n.reply = q.reply /\ n.seen = q.seen /\ n.late = q.late
    BY <1>a, <2>1, InboxAnswered
  <2>. HIDE DEF n
  <2>3. v9' = (v9 \ {q}) \cup {n}
    BY <2>1 DEF n
  <2>4. q.reply \in N!Replies /\ v2[q.reply].id = None /\ q.id \in Names /\ q.typed \in N!Text
    BY <1>a, <2>1 DEF InboxInv, N!AskedInv, N!Sound, N!Request
  <2>5. /\ v2' \in [N!Replies -> [id : Names \cup {None}, typed : N!Text, state : N!States]]
        /\ v2'[q.reply].id = q.id /\ v2'[q.reply].state = "pending"
        /\ \A r \in N!Replies \ {q.reply} : v2'[r] = v2[r]
    BY <1>a, <2>1, <2>4 DEF N!States
  <2>6. N!TypeOK'
    BY <1>a, <2>1, <2>2, <2>3, <2>5 DEF N!TypeOK, Drawn
  <2>7. Stored /\ N!ToldInv'
    BY <2>1, <2>4, <2>5 DEF Stored, InboxInv, N!ToldInv
  <2>8. N!Sound(n)'
    BY <2>2, <2>4, <2>5 DEF N!Sound
  <2>9. ASSUME NEW p \in v9 \ {q} PROVE N!Sound(p)'
    <3>1. N!Sound(p) /\ p.id \in Names
      BY <1>a DEF InboxInv, N!AskedInv, N!Request
    <3>2. p.kind \in {"reply", "send"} => p.reply # q.reply
      BY <2>1, <2>4, <3>1, InboxNone DEF InboxInv, N!AskedInv, N!Claims, N!Sound
    <3>3. p.kind = "open" => N!Fits(p.id, p.seen)'
      BY <2>4, <2>5, <3>1, InboxNone DEF N!Sound, N!Fits
    <3>4. N!Tells(p.id, p.seen) => N!Tells(p.id, p.seen)'
      BY <2>1, <2>4, <2>5 DEF N!Tells, InboxInv, N!ToldInv
    <3>5. p.kind \in {"open", "reply", "send"}
      BY <1>a DEF N!Request
    <3>. QED  BY <2>5, <3>1, <3>2, <3>3, <3>4, <3>5 DEF N!Sound
  <2>10. \A p \in v9 \ {q} : ~(N!Claims(p) /\ p.kind = n.kind /\ p.reply = n.reply)
    BY <2>1, <2>2 DEF InboxInv, N!AskedInv, N!Claims
  <2>. QED  BY <2>1, <2>2, <2>3, <2>6, <2>7, <2>8, <2>9, <2>10, InboxServed
\* A reply moves from one state to another, by the request that has it.
<1>9. ASSUME NEW q \in v9, q.kind = "send", NEW state \in N!States \ {"none"}, NEW n \in N!Request,
             UNCHANGED <<v1, v3, v4, v5, v6, v7, v8, v10, v11, v12, v13, v14>>,
             v2' = [v2 EXCEPT ![q.reply].state = state],
             v2[q.reply].state \in {"pending", "sending"}
      PROVE  /\ q.reply \in N!Replies /\ v2' \in [N!Replies -> [id : Names \cup {None}, typed : N!Text, state : N!States]]
             /\ v2'[q.reply].state = state /\ N!ToldInv' /\ Stored
             /\ \A r \in N!Replies \ {q.reply} : v2'[r] = v2[r]
             /\ \A r \in N!Replies : v2'[r].id = v2[r].id
  <2>1. q.reply \in N!Replies
    BY <1>9 DEF InboxInv, N!AskedInv, N!Sound
  <2>2. /\ v2' \in [N!Replies -> [id : Names \cup {None}, typed : N!Text, state : N!States]]
        /\ v2'[q.reply].state = state /\ v2'[q.reply].id = v2[q.reply].id
        /\ \A r \in N!Replies \ {q.reply} : v2'[r] = v2[r]
    BY <1>a, <1>9, <2>1
  <2>3. v13[q.reply] # "sent"
    BY <1>9, <2>1 DEF InboxInv, N!ToldInv
  <2>4. N!ToldInv'
    BY <1>9, <2>1, <2>2, <2>3 DEF InboxInv, N!ToldInv
  <2>. QED  BY <2>1, <2>2, <2>4 DEF Stored
\* The others have no part in that reply's state, but that they may wait to take it.
<1>10. ASSUME NEW q \in v9, NEW p \in v9 \ {q}, q.kind = "send", v13' = v13, q.reply \in N!Replies,
              \A r \in N!Replies \ {q.reply} : v2'[r] = v2[r],
              \A r \in N!Replies : v2'[r].id = v2[r].id,
              v2[q.reply].state \in {"pending", "sending"},
              v2[q.reply].state = "sending" => q.answer = "taken"
       PROVE  N!Sound(p)'
  <2>1. N!Sound(p)
    BY DEF InboxInv, N!AskedInv
  <2>2. N!Tells(p.id, p.seen) => N!Tells(p.id, p.seen)'
    BY <1>10 DEF N!Tells
  <2>3. N!Fits(p.id, p.seen) => N!Fits(p.id, p.seen)'
    BY <1>10 DEF N!Fits
  <2>4. p.kind = "send" /\ p.reply = q.reply =>
          p.answer # "taken" /\ ~(p.answer = "ok" /\ p.seen[p.reply] = "sent")
    BY <1>10, <2>1 DEF InboxInv, N!AskedInv, N!Claims, N!Sound
  <2>. QED  BY <1>10, <2>1, <2>2, <2>3, <2>4 DEF N!Sound
<1>11. ASSUME NEW q \in v9, N!ServeTake(q) PROVE Read'
  <2>1. /\ q.kind = "send" /\ q.answer = "asked" /\ v2[q.reply].state = "pending"
        /\ UNCHANGED <<v1, v3, v4, v5, v6, v7, v8, v10, v11, v12, v13, v14>>
        /\ v2' = [v2 EXCEPT ![q.reply].state = "sending"]
        /\ v9' = (v9 \ {q}) \cup {[q EXCEPT !.answer = "taken"]}
    BY <1>11 DEF N!ServeTake, N!Answer, N!Screen, N!Sync
  <2>. DEFINE n == [q EXCEPT !.answer = "taken"]
  <2>2. /\ n \in N!Request /\ n.answer = "taken" /\ n.kind = "send" /\ n.id = q.id
        /\ n.reply = q.reply /\ n.seen = q.seen /\ n.late = q.late
    BY <1>a, <2>1, InboxAnswered
  <2>. HIDE DEF n
  <2>3. v9' = (v9 \ {q}) \cup {n}
    BY <2>1 DEF n
  <2>4. /\ q.reply \in N!Replies /\ v2' \in [N!Replies -> [id : Names \cup {None}, typed : N!Text, state : N!States]]
        /\ v2'[q.reply].state = "sending" /\ N!ToldInv' /\ Stored
        /\ \A r \in N!Replies \ {q.reply} : v2'[r] = v2[r]
        /\ \A r \in N!Replies : v2'[r].id = v2[r].id
    BY <1>9, <2>1, <2>2 DEF N!States
  <2>5. N!TypeOK'
    BY <1>a, <2>1, <2>2, <2>3, <2>4 DEF N!TypeOK, Drawn
  <2>6. \A p \in v9 \ {q} : N!Sound(p)'
    BY <1>10, <2>1, <2>4
  <2>7. v2[q.reply].id = q.id
    BY <2>1 DEF InboxInv, N!AskedInv, N!Sound
  <2>8. N!Sound(n)'
    BY <2>2, <2>4, <2>7 DEF N!Sound
  <2>9. \A p \in v9 \ {q} : ~(N!Claims(p) /\ p.kind = n.kind /\ p.reply = n.reply)
    BY <2>1, <2>2 DEF InboxInv, N!AskedInv, N!Claims, N!Sound
  <2>. QED  BY <2>1, <2>2, <2>3, <2>4, <2>5, <2>6, <2>8, <2>9, InboxServed
<1>12. ASSUME NEW q \in v9, NEW state \in {"sent", "pending", "review"}, N!ServeSend(q, state) PROVE Read'
  <2>1. /\ q.answer = "taken" /\ v2' = [v2 EXCEPT ![q.reply].state = state]
        /\ UNCHANGED <<v1, v3, v4, v5, v6, v7, v8, v10, v11, v12, v13, v14>>
    BY <1>12 DEF N!ServeSend, N!Screen, N!Sync
  <2>2. q.kind = "send" /\ q.reply \in N!Replies /\ v2[q.reply].state = "sending" /\ v2[q.reply].id = q.id
    BY <2>1 DEF InboxInv, N!AskedInv, N!Sound
  <2>3. /\ v2' \in [N!Replies -> [id : Names \cup {None}, typed : N!Text, state : N!States]]
        /\ v2'[q.reply].state = state /\ N!ToldInv' /\ Stored
        /\ \A r \in N!Replies \ {q.reply} : v2'[r] = v2[r]
        /\ \A r \in N!Replies : v2'[r].id = v2[r].id
    BY <1>a, <1>9, <2>1, <2>2 DEF N!States
  <2>4. \A p \in v9 \ {q} : N!Sound(p)'
    BY <1>10, <2>1, <2>2, <2>3
  <2>5. CASE state = "review"
    <3>1. v9' = v9 \ {q}
      BY <1>12, <2>5 DEF N!ServeSend
    <3>2. N!TypeOK'
      BY <1>a, <2>1, <2>3, <3>1 DEF N!TypeOK, Drawn
    <3>3. N!AskedInv'
      BY <2>4, <3>1 DEF InboxInv, N!AskedInv, N!Claims
    <3>4. \A t \in Names : N!Coming(t) => N!Coming(t)'
      BY <2>2, <3>1 DEF N!Coming
    <3>5. Before
      BY <2>1, <2>3, <3>4 DEF Before, Shows
    <3>. QED  BY <2>3, <3>2, <3>3, <3>5, InboxBefore DEF InboxInv
  <2>6. CASE state # "review"
    <3>. DEFINE s == [N!Nothing EXCEPT ![q.reply] = state]
                n == [q EXCEPT !.answer = "ok", !.seen = s]
    <3>1. v9' = (v9 \ {q}) \cup {n}
      BY <1>12, <2>6 DEF N!ServeSend
    <3>2. s \in N!Seen /\ s[q.reply] = state
      BY <2>2, InboxNone DEF N!Seen, N!States
    <3>. HIDE DEF s
    <3>3. /\ n \in N!Request /\ n.answer = "ok" /\ n.kind = "send" /\ n.id = q.id
          /\ n.reply = q.reply /\ n.seen = s
      BY <1>a, <2>2, <3>2 DEF N!Request
    <3>. HIDE DEF n
    <3>4. N!TypeOK'
      BY <1>a, <2>1, <2>3, <3>1, <3>3 DEF N!TypeOK, Drawn
    <3>5. N!Sound(n)'
      BY <2>2, <2>3, <2>6, <3>2, <3>3 DEF N!Sound
    <3>6. ~N!Claims(n)
      BY <3>3 DEF N!Claims
    <3>. QED  BY <2>1, <2>2, <2>3, <2>4, <3>1, <3>3, <3>4, <3>5, <3>6, InboxServed
  <2>. QED  BY <2>5, <2>6
<1>13. ASSUME NEW q \in v9, N!Fail(q) PROVE Read'
  <2>1. /\ UNCHANGED <<v1, v2, v3, v4, v5, v6, v7, v8, v10, v11, v12, v13>>
        /\ v9' = v9 \ {q} /\ v14' \in BOOLEAN /\ (v14' <=> v14 \/ q.kind = "open")
    BY <1>a, <1>13 DEF N!Fail, N!Server, N!Screen, N!Sync
  <2>2. N!TypeOK'
    BY <1>a, <2>1 DEF N!TypeOK, Drawn
  <2>3. N!AskedInv'
    BY <2>1, InboxSound DEF InboxInv, N!AskedInv, N!Claims
  <2>4. N!ToldInv'
    BY <2>1 DEF InboxInv, N!ToldInv
  <2>5. CASE q.kind = "open"
    BY <2>1, <2>2, <2>3, <2>4, <2>5 DEF InboxInv, N!OpenInv, N!RepliesAreShown, N!Fits
  <2>6. CASE q.kind # "open"
    <3>1. \A t \in Names : N!Coming(t) => N!Coming(t)'
      BY <2>1, <2>6 DEF N!Coming
    <3>2. Before
      BY <2>1, <2>6, <3>1 DEF Before, Stored, Shows
    <3>. QED  BY <2>2, <2>3, <2>4, <3>2, InboxBefore DEF InboxInv
  <2>. QED  BY <2>5, <2>6
<1>14. ASSUME NEW q \in v9, N!OnThread(q) PROVE Read'
  <2>1. /\ UNCHANGED <<v1, v2, v3, v4, v5, v10, v11, v12, v13>> /\ v9' = v9 \ {q} /\ v14' = q.late
        /\ q.kind = "open" /\ q.answer = "ok" /\ v6' = [id |-> q.id, seen |-> q.seen]
        /\ N!Render(v4, v6')
    BY <1>14 DEF N!OnThread, N!Server, N!Sync
  <2>2. /\ v7' = v4 /\ v8' \in Drawn \cup {None}
        /\ v8' # None => v8'.id = v6'.id /\ v8'.seen = v6'.seen
    <3>1. v6' \in [id : Names, seen : N!Seen]
      BY <1>a, <2>1 DEF N!Request
    <3>. QED  BY <2>1, <3>1, InboxDraws
  <2>3. q.id \in Names /\ q.seen \in N!Seen /\ q.late \in BOOLEAN
    BY <1>a DEF N!Request
  <2>4. N!TypeOK'
    BY <1>a, <2>1, <2>2, <2>3 DEF N!TypeOK, Drawn
  <2>5. N!AskedInv' /\ N!ToldInv'
    BY <2>1, InboxSound DEF InboxInv, N!AskedInv, N!Claims, N!ToldInv
  <2>6. N!Fits(q.id, q.seen) /\ (~q.late => N!Tells(q.id, q.seen))
    BY <2>1 DEF InboxInv, N!AskedInv, N!Sound
  <2>7. v6'.id = q.id /\ v6'.seen = q.seen /\ (v8' # None => v8'.id = q.id /\ v8'.seen = q.seen)
    BY <2>1, <2>2
  <2>8. N!OpenInv' /\ N!RepliesAreShown'
    BY <2>1, <2>6, <2>7 DEF N!OpenInv, N!RepliesAreShown, N!Fits, N!Tells
  <2>. QED  BY <2>4, <2>5, <2>8
<1>15. ASSUME NEW q \in v9, N!OnReply(q) \/ N!OnSend(q) PROVE Read'
  <2>1. /\ UNCHANGED <<v1, v2, v3, v10, v11, v12, v14>> /\ q.answer = "ok" /\ q.kind \in {"reply", "send"}
        /\ N!Load(q.id, v9 \ {q}) /\ v4' = None /\ v5' = v3 /\ v6' \in {None, v6}
        /\ v13' = [v13 EXCEPT ![q.reply] = IF q.kind = "reply" THEN "pending" ELSE q.seen[q.reply]]
    BY <1>15 DEF N!OnReply, N!OnSend, N!Server, N!Sync, N!LoadInbox
  <2>2. v7' \in {v7, v4} /\ v8' \in Drawn \cup {None} /\ Shows
    <3>1. CASE N!Render(v4, None)
      BY <1>a, <3>1, InboxDraws DEF Shows
    <3>2. CASE v7' = v7 /\ v8' = v8
      BY <1>a, <3>2 DEF Shows
    <3>. QED  BY <1>15, <3>1, <3>2 DEF N!OnReply, N!OnSend
  <2>3. /\ q.reply \in N!Replies /\ q.id \in Names /\ v2[q.reply].id = q.id /\ q \in N!Request
        /\ q.kind = "send" => q.seen[q.reply] \in {"sent", "pending"}
        /\ q.kind = "send" /\ q.seen[q.reply] = "sent" => v2[q.reply].state = "sent"
    BY <1>a, <2>1 DEF InboxInv, N!AskedInv, N!Sound, N!Request
  <2>4. /\ v13' \in N!Seen /\ v13'[q.reply] \in {"sent", "pending"}
        /\ v13'[q.reply] = "sent" => v2[q.reply].state = "sent"
        /\ \A r \in N!Replies \ {q.reply} : v13'[r] = v13[r]
    BY <1>a, <2>1, <2>3 DEF N!Seen, N!States
  <2>5. N!ToldInv'
    BY <2>1, <2>3, <2>4, InboxNone DEF InboxInv, N!ToldInv
  <2>6. v9' \subseteq N!Request
    BY <1>a, <2>1, <2>3, InboxLoads
  <2>7. N!TypeOK'
    BY <1>a, <2>1, <2>2, <2>4, <2>6 DEF N!TypeOK, Drawn
  <2>. QED  BY <2>1, <2>2, <2>3, <2>4, <2>5, <2>7, InboxLoad
<1>16. CASE UNCHANGED N!nvars
  BY <1>a, <1>1, <1>16 DEF N!nvars, Shows
<1>17. CASE N!Type
  <2>1. /\ UNCHANGED <<v1, v2, v3, v4, v5, v6, v7, v9, v10, v11, v12, v13, v14>>
        /\ v8 # None /\ v8' = [v8 EXCEPT !.typed = v8.id]
    BY <1>17 DEF N!Type, N!Server, N!Sync
  <2>2. v8' \in Drawn /\ v8'.id = v8.id /\ v8'.seen = v8.seen
    BY <1>a, <2>1 DEF Drawn, N!Text
  <2>. QED  BY <1>a, <1>1, <2>1, <2>2 DEF Shows
<1>18. CASE N!Redraw
  <2>1. UNCHANGED <<v1, v2, v3, v4, v5, v6, v9, v10, v11, v12, v13, v14>> /\ N!Render(v4, v6)
    BY <1>18 DEF N!Redraw, N!Server, N!Sync
  <2>2. v7' = v4 /\ v8' \in Drawn \cup {None} /\ Shows
    BY <1>a, <2>1, InboxDraws DEF Shows
  <2>. QED  BY <1>a, <1>1, <2>1, <2>2
<1>. QED  BY <1>2, <1>3, <1>4, <1>5, <1>6, <1>7, <1>8, <1>11, <1>12, <1>13, <1>14, <1>15, <1>16,
             <1>17, <1>18 DEF N!NNext

\* The text in the field is of the thread it is drawn below, and goes with no other.
LEMMA InboxTexts ==
  InboxInv /\ [N!NNext]_(N!nvars) => N!TypedInv' /\ N!RepliedWhereTyped'
<1>. SUFFICES ASSUME InboxInv, [N!NNext]_(N!nvars) PROVE N!TypedInv' /\ N!RepliedWhereTyped'
  OBVIOUS
<1>a. /\ v2 \in [N!Replies -> [id : Names \cup {None}, typed : N!Text, state : N!States]]
      /\ v6 \in [id : Names, seen : N!Seen] \cup {None} /\ v8 \in Drawn \cup {None}
      /\ v9 \subseteq N!Request
      /\ N!TypedInv /\ N!RepliedWhereTyped
  BY DEF InboxInv, N!TypeOK, Drawn
\* Nothing is stored, no reply asked for, and what is drawn is drawn anew or as it was.
<1>1. ASSUME v2' = v2, \A n \in v9' : n.kind = "reply" => \E q \in v9 : q.kind = "reply" /\ n.id = q.id /\ n.typed = q.typed,
             v8' # None => v8'.typed = None \/ v8' = v8
      PROVE  N!TypedInv' /\ N!RepliedWhereTyped'
  BY <1>a, <1>1 DEF N!TypedInv, N!RepliedWhereTyped
<1>2. ASSUME NEW list, NEW thread \in [id : Names, seen : N!Seen] \cup {None}, N!Render(list, thread)
      PROVE  v8' # None => v8'.typed = None
  BY <1>2, InboxDraws
<1>3. ASSUME NEW t \in Names, NEW others, others \subseteq v9, N!Load(t, others)
      PROVE  \A n \in v9' : n.kind = "reply" => \E q \in v9 : q.kind = "reply" /\ n.id = q.id /\ n.typed = q.typed
  <2>1. others \subseteq N!Request
    BY <1>a, <1>3
  <2>. QED  BY <1>3, <2>1, InboxLoads, InboxAsked DEF Aged
<1>4. ASSUME NEW q \in v9, NEW n, v9' = (v9 \ {q}) \cup {n}, n.kind = q.kind, n.id = q.id, n.typed = q.typed
      PROVE  \A m \in v9' : m.kind = "reply" => \E p \in v9 : p.kind = "reply" /\ m.id = p.id /\ m.typed = p.typed
  BY <1>4
<1>5. ASSUME NEW b \in Ids, N!ReloadBrand(b) \/ N!OnSynced(b) \/ N!OnSyncFailed(b)
      PROVE  N!TypedInv' /\ N!RepliedWhereTyped'
  <2>1. v2' = v2 /\ v9' = v9
    BY <1>5 DEF N!ReloadBrand, N!OnSynced, N!OnSyncFailed, N!Server
  <2>2. v8' = None \/ \E x : N!Render(x, v6)
    BY <1>5 DEF N!ReloadBrand, N!OnSynced, N!OnSyncFailed
  <2>. QED  BY <1>a, <1>1, <1>2, <2>1, <2>2
<1>6. CASE N!Refresh \/ N!OnInbox \/ N!OnInboxFailed \/ N!GmailSync \/ N!Redraw
  <2>1. v2' = v2 /\ v9' = v9
    BY <1>6 DEF N!Refresh, N!OnInbox, N!OnInboxFailed, N!GmailSync, N!Redraw, N!Server
  <2>2. v8' = v8 \/ \E x : N!Render(x, v6)
    BY <1>6 DEF N!Refresh, N!OnInbox, N!OnInboxFailed, N!GmailSync, N!Redraw
  <2>. QED  BY <1>a, <1>1, <1>2, <2>1, <2>2
<1>7. ASSUME NEW t \in Names, N!InboxOpen(t) PROVE N!TypedInv' /\ N!RepliedWhereTyped'
  <2>1. v2' = v2 /\ ((N!Render(v4, None) /\ v9' = v9) \/ (N!Load(t, v9) /\ v8' = v8))
    BY <1>7 DEF N!InboxOpen, N!Server
  <2>2. CASE N!Render(v4, None) /\ v9' = v9
    BY <1>1, <1>2, <2>1, <2>2
  <2>3. CASE N!Load(t, v9) /\ v8' = v8
    <3>1. \A n \in v9' : n.kind = "reply" => \E q \in v9 : q.kind = "reply" /\ n.id = q.id /\ n.typed = q.typed
      BY <1>3, <2>3
    <3>. QED  BY <1>1, <2>1, <2>3, <3>1
  <2>. QED  BY <2>1, <2>2, <2>3
<1>8. CASE N!Type
  <2>1. UNCHANGED <<v2, v9>> /\ v8 # None /\ v8' = [v8 EXCEPT !.typed = v8.id]
    BY <1>8 DEF N!Type, N!Server
  <2>2. v8'.id = v8.id /\ v8'.typed = v8.id
    BY <1>a, <2>1 DEF Drawn
  <2>. QED  BY <1>a, <2>1, <2>2 DEF N!TypedInv, N!RepliedWhereTyped
\* The reply is of the thread that is drawn, and so is its text.
<1>9. CASE N!InboxReply
  <2>1. /\ UNCHANGED <<v2, v8>> /\ v8 # None /\ v8.typed # None
        /\ \E r \in N!Replies : v9' = v9 \cup {N!Ask("reply", v8.id, r, v8.typed)}
    BY <1>9 DEF N!InboxReply, N!Server, N!Screen
  <2>2. v8.typed = v8.id
    BY <1>a, <2>1 DEF N!TypedInv
  <2>3. \A r : /\ N!Ask("reply", v8.id, r, v8.typed).id = v8.id
               /\ N!Ask("reply", v8.id, r, v8.typed).typed = v8.typed
    BY DEF N!Ask
  <2>. QED  BY <1>a, <2>1, <2>2, <2>3 DEF N!TypedInv, N!RepliedWhereTyped
<1>10. ASSUME NEW r \in N!Replies, N!InboxSend(r) PROVE N!TypedInv' /\ N!RepliedWhereTyped'
  <2>1. UNCHANGED <<v2, v8>> /\ v9' = v9 \cup {N!Ask("send", v8.id, r, None)}
    BY <1>10 DEF N!InboxSend, N!Server, N!Screen
  <2>2. N!Ask("send", v8.id, r, None).kind = "send"
    BY DEF N!Ask
  <2>. QED  BY <1>1, <2>1, <2>2
<1>11. ASSUME NEW q \in v9, N!ServeThread(q) PROVE N!TypedInv' /\ N!RepliedWhereTyped'
  <2>1. UNCHANGED <<v2, v8>> /\ q.kind = "open"
    BY <1>11, Zenon DEF N!ServeThread, N!Server, N!Screen
  <2>. DEFINE s == [r \in N!Replies |-> IF v2[r].id = q.id THEN v2[r].state ELSE "none"]
              n == [q EXCEPT !.answer = "ok", !.seen = s]
  <2>2. v9' = (v9 \ {q}) \cup {n}
    BY <1>11, Zenon DEF N!ServeThread
  <2>. HIDE DEF s
  <2>3. n.kind = q.kind /\ n.id = q.id /\ n.typed = q.typed
    BY <1>a DEF N!Request
  <2>. HIDE DEF n
  <2>. QED  BY <1>1, <1>4, <2>1, <2>2, <2>3
\* It is stored with the text, in the thread that it names.
<1>12. ASSUME NEW q \in v9, N!ServeReply(q) PROVE N!TypedInv' /\ N!RepliedWhereTyped'
  <2>1. /\ q.kind = "reply" /\ v8' = v8
        /\ v2' = [v2 EXCEPT ![q.reply] = [id |-> q.id, typed |-> q.typed, state |-> "pending"]]
        /\ v9' = (v9 \ {q}) \cup {[q EXCEPT !.answer = "ok"]}
    BY <1>12 DEF N!ServeReply, N!Answer, N!Screen
  <2>. DEFINE n == [q EXCEPT !.answer = "ok"]
  <2>2. n.kind = "reply" /\ n.id = q.id /\ n.typed = q.typed
    BY <1>a, <2>1, InboxAnswered
  <2>3. v9' = (v9 \ {q}) \cup {n}
    BY <2>1
  <2>. HIDE DEF n
  <2>4. q.typed = q.id
    BY <1>a, <2>1 DEF N!TypedInv
  <2>5. N!TypedInv'
    BY <1>a, <2>1, <2>2, <2>3, <2>4 DEF N!TypedInv
  <2>6. \A r \in N!Replies : v2'[r] = v2[r] \/ v2'[r].typed = v2'[r].id
    BY <1>a, <2>1, <2>4
  <2>7. N!RepliedWhereTyped'
    BY <1>a, <2>6 DEF N!RepliedWhereTyped
  <2>. QED  BY <2>5, <2>7
<1>13. ASSUME NEW q \in v9, N!ServeTake(q) PROVE N!TypedInv' /\ N!RepliedWhereTyped'
  <2>1. /\ q.kind = "send" /\ v8' = v8 /\ v2' = [v2 EXCEPT ![q.reply].state = "sending"]
        /\ v9' = (v9 \ {q}) \cup {[q EXCEPT !.answer = "taken"]}
    BY <1>13 DEF N!ServeTake, N!Answer, N!Screen
  <2>. DEFINE n == [q EXCEPT !.answer = "taken"]
  <2>2. n.kind = "send" /\ n.id = q.id /\ n.typed = q.typed
    BY <1>a, <2>1, InboxAnswered
  <2>3. v9' = (v9 \ {q}) \cup {n}
    BY <2>1
  <2>. HIDE DEF n
  <2>4. \A r \in N!Replies : v2'[r].id = v2[r].id /\ v2'[r].typed = v2[r].typed
    BY <1>a, <2>1
  <2>. QED  BY <1>a, <2>1, <2>2, <2>3, <2>4 DEF N!TypedInv, N!RepliedWhereTyped
<1>14. ASSUME NEW q \in v9, NEW state \in {"sent", "pending", "review"}, N!ServeSend(q, state)
       PROVE  N!TypedInv' /\ N!RepliedWhereTyped'
  <2>1. /\ q.kind = "send" /\ v8' = v8 /\ v2' = [v2 EXCEPT ![q.reply].state = state]
    BY <1>14 DEF N!ServeSend, N!Screen, InboxInv, N!AskedInv, N!Sound
  <2>2. \A r \in N!Replies : v2'[r].id = v2[r].id /\ v2'[r].typed = v2[r].typed
    BY <1>a, <2>1
  <2>3. \A n \in v9' : n \in v9 \/ n.kind = "send"
    <3>1. CASE state = "review"
      BY <1>14, <3>1 DEF N!ServeSend
    <3>2. CASE state # "review"
      <4>. DEFINE s == [N!Nothing EXCEPT ![q.reply] = state]
                  n == [q EXCEPT !.answer = "ok", !.seen = s]
      <4>1. v9' = (v9 \ {q}) \cup {n}
        BY <1>14, <3>2 DEF N!ServeSend
      <4>. HIDE DEF s
      <4>2. n.kind = "send"
        BY <1>a, <2>1 DEF N!Request
      <4>. HIDE DEF n
      <4>. QED  BY <4>1, <4>2
    <3>. QED  BY <3>1, <3>2
  <2>. QED  BY <1>a, <2>1, <2>2, <2>3 DEF N!TypedInv, N!RepliedWhereTyped
<1>15. ASSUME NEW q \in v9, N!Fail(q) PROVE N!TypedInv' /\ N!RepliedWhereTyped'
  <2>1. UNCHANGED <<v2, v8>> /\ v9' = v9 \ {q}
    BY <1>15 DEF N!Fail, N!Server, N!Screen
  <2>. QED  BY <1>1, <2>1
<1>16. ASSUME NEW q \in v9, N!OnThread(q) PROVE N!TypedInv' /\ N!RepliedWhereTyped'
  <2>1. v2' = v2 /\ v9' = v9 \ {q} /\ N!Render(v4, v6') /\ v6' = [id |-> q.id, seen |-> q.seen]
    BY <1>16 DEF N!OnThread, N!Server
  <2>2. v6' \in [id : Names, seen : N!Seen]
    BY <1>a, <2>1 DEF N!Request
  <2>. QED  BY <1>1, <1>2, <2>1, <2>2
<1>17. ASSUME NEW q \in v9, N!OnReply(q) \/ N!OnSend(q) PROVE N!TypedInv' /\ N!RepliedWhereTyped'
  <2>1. v2' = v2 /\ N!Load(q.id, v9 \ {q}) /\ q.id \in Names
    BY <1>a, <1>17 DEF N!OnReply, N!OnSend, N!Server, N!Request
  <2>2. \A n \in v9' : n.kind = "reply" => \E p \in v9 : p.kind = "reply" /\ n.id = p.id /\ n.typed = p.typed
    BY <1>3, <2>1
  <2>3. v8' = v8 \/ N!Render(v4, None)
    BY <1>17 DEF N!OnReply, N!OnSend
  <2>. QED  BY <1>1, <1>2, <2>1, <2>2, <2>3
<1>18. CASE UNCHANGED N!nvars
  BY <1>1, <1>18 DEF N!nvars
<1>. QED  BY <1>5, <1>6, <1>7, <1>8, <1>9, <1>10, <1>11, <1>12, <1>13, <1>14, <1>15, <1>16, <1>17,
             <1>18 DEF N!NNext

\* So they keep the invariant.
LEMMA InboxKeeps == InboxInv /\ [N!NNext]_(N!nvars) => InboxInv'
BY InboxReads, InboxStays, InboxTexts DEF InboxInv, Read

-------------------------------------------------------------------------------
(* The panels of the console *)
B == INSTANCE BrandPanels WITH
  Brands <- Names, MaxSignIns <- Bound.signins, MaxLoads <- Bound.loads, panel <- v1, kind <- v2,
  own <- v3, adminBrand <- v4, token <- v5, version <- v6, shown <- v7, failed <- v8, asked <- v9

ASSUME PanelsAssumption ==
  /\ Bound.signins \in Nat /\ Bound.loads \in Nat
  /\ None \notin B!Request \cup {"brand", "admin"}

\* The candidates are emptied whenever they are asked for.
PanelsNewest ==
  /\ B!NewestAnswer
  /\ v1 = "candidates" /\ v7 # None => v7.version = v6

PanelsInv ==
  /\ B!TypeOK /\ B!AskedInv
  /\ B!OwnBrandOnly /\ B!FailureOfTheBrand /\ PanelsNewest

\* Before anybody signs in nothing is asked or shown.
LEMMA PanelsBegin == B!BInit => PanelsInv
BY PanelsAssumption DEF B!BInit, B!TypeOK, B!AskedInv, B!OwnBrandOnly, B!FailureOfTheBrand,
   PanelsNewest, B!NewestAnswer, PanelsInv

\* What is compared before a failure is shown.
LEMMA PanelsCompare ==
  /\ \A p \in {"outreach", "gmail", "inbox", "products"} : "brand" \in B!ComparesFailure[p]
  /\ \A p \in {"outreach", "gmail", "inbox", "cells"} : "version" \in B!ComparesFailure[p]
<1>1. /\ B!ComparesFailure.outreach = {"brand", "version"}
      /\ B!ComparesFailure.gmail = {"brand", "token", "version"}
      /\ B!ComparesFailure.inbox = {"brand", "token", "version"}
      /\ B!ComparesFailure.products = {"brand"}
      /\ B!ComparesFailure.cells = {"version"}
  BY DEF B!ComparesFailure, B!Compares
<1>. QED  BY <1>1

\* adminPickBrand asks once more, or not.
LEMMA PanelsAgain == ASSUME B!TypeOK PROVE B!Again[v1] \in Nat
BY DEF B!TypeOK, B!Again

\* Whatever changes the session or the brand empties the panel, and moves its counter past
\* every request there is.
LEMMA PanelsReload ==
  ASSUME PanelsInv, NEW c \in Names \cup {None}, NEW n \in Nat,
         B!ReloadBrand(c, v5', n), c = B!BRAND', c # None => v2' # None, v2' = "brand" => v3' # None,
         v1' = v1, v2' \in {"brand", "admin", None}, v3' \in Names \cup {None},
         v4' \in Names \cup {None}, v5' \in 0..Bound.signins
  PROVE  PanelsInv'
<1>1. v7' = None /\ v8' = None /\ v6 \in Nat /\ v5' \in Nat /\ v1 \in B!Panels
  BY PanelsAssumption DEF PanelsInv, B!TypeOK, B!ReloadBrand
<1>. DEFINE m == B!Reloads[v1] + n
            new == IF B!Reloads[v1] = 0 \/ c = None THEN {}
                   ELSE {[brand |-> c, token |-> v5', version |-> v6 + i] : i \in 1..m}
<1>2. B!Reloads[v1] \in Nat
  BY <1>1 DEF B!Reloads
<1>3. m \in Nat /\ (B!Reloads[v1] # 0 => m > 0)
  BY <1>2
<1>4. /\ v6' = IF B!Reloads[v1] = 0 THEN v6 + 1 ELSE v6 + m
      /\ v6' \in 0..Bound.loads /\ v6' > v6
  BY <1>1, <1>3, PanelsAssumption DEF B!ReloadBrand, B!Load, PanelsInv, B!TypeOK
<1>5. v9' = v9 \cup new
  BY <1>1 DEF B!ReloadBrand, B!Load
<1>6. \A r \in new : /\ r \in B!Request /\ r.version <= v6' /\ c # None
                      /\ r.brand = c /\ r.token = v5'
  <2>. TAKE r \in new
  <2>1. B!Reloads[v1] # 0 /\ c # None
    OBVIOUS
  <2>2. PICK i \in 1..m : r = [brand |-> c, token |-> v5', version |-> v6 + i]
    BY <2>1
  <2>. HIDE DEF m
  <2>3. v6 + i \in Nat /\ v6 + i <= v6'
    BY <1>1, <1>3, <1>4, <2>1
  <2>. QED  BY <1>1, <2>1, <2>2, <2>3 DEF B!Request
<1>. HIDE DEF new, m
<1>7. B!TypeOK'
  BY <1>1, <1>4, <1>5, <1>6 DEF PanelsInv, B!TypeOK
<1>8. B!AskedInv'
  BY <1>1, <1>4, <1>5, <1>6, PanelsAssumption DEF PanelsInv, B!TypeOK, B!AskedInv, B!Request
<1>. QED
  BY <1>1, <1>7, <1>8 DEF PanelsInv, B!OwnBrandOnly, B!FailureOfTheBrand, PanelsNewest, B!NewestAnswer

\* A panel keeps what it promises, in every step.
LEMMA PanelsKeep == PanelsInv /\ [B!BNext]_(B!bvars) => PanelsInv'
<1>. SUFFICES ASSUME PanelsInv, [B!BNext]_(B!bvars) PROVE PanelsInv'
  OBVIOUS
<1>1. ASSUME NEW k \in {"brand", "admin"}, NEW o \in Names \cup {None}, B!SignIn(k, o) PROVE PanelsInv'
  <2>. DEFINE c == B!Brand(k, o, v4)
  <2>1. /\ c \in Names \cup {None} /\ c = B!BRAND' /\ (c # None => v2' # None) /\ (v2' = "brand" => v3' # None)
        /\ v1' = v1 /\ v2' \in {"brand", "admin", None}
        /\ v3' \in Names \cup {None} /\ v4' \in Names \cup {None}
        /\ v5' = v5 + 1 /\ v5' \in 0..Bound.signins
    BY <1>1, NullAssumption, PanelsAssumption DEF PanelsInv, B!TypeOK, B!AskedInv, B!BRAND, B!Brand, B!SignIn
  <2>2. B!ReloadBrand(c, v5', 0)
    BY <1>1, <2>1 DEF B!SignIn
  <2>. HIDE DEF c
  <2>. QED  BY <2>1, <2>2, PanelsReload
<1>2. ASSUME B!AuthLogout PROVE PanelsInv'
  <2>. DEFINE c == None
  <2>1. /\ c \in Names \cup {None} /\ c = B!BRAND' /\ (c # None => v2' # None) /\ (v2' = "brand" => v3' # None)
        /\ v1' = v1 /\ v2' \in {"brand", "admin", None}
        /\ v3' \in Names \cup {None} /\ v4' \in Names \cup {None}
        /\ v5' = v5 /\ v5' \in 0..Bound.signins
    BY <1>2, NullAssumption, PanelsAssumption DEF PanelsInv, B!TypeOK, B!AskedInv, B!BRAND, B!Brand, B!AuthLogout
  <2>2. B!ReloadBrand(c, v5', 0)
    BY <1>2, <2>1 DEF B!AuthLogout
  <2>. HIDE DEF c
  <2>. QED  BY <2>1, <2>2, PanelsReload
<1>3. ASSUME NEW b \in Names, B!AdminPickBrand(b) PROVE PanelsInv'
  <2>. DEFINE c == b
  <2>1. /\ c \in Names \cup {None} /\ c = B!BRAND' /\ (c # None => v2' # None) /\ (v2' = "brand" => v3' # None)
        /\ v1' = v1 /\ v2' \in {"brand", "admin", None}
        /\ v3' \in Names \cup {None} /\ v4' \in Names \cup {None}
        /\ v5' = v5 /\ v5' \in 0..Bound.signins
    BY <1>3, NullAssumption, PanelsAssumption DEF PanelsInv, B!TypeOK, B!AskedInv, B!BRAND, B!Brand, B!AdminPickBrand, B!Body
  <2>2. B!ReloadBrand(c, v5', B!Again[v1])
    BY <1>3, <2>1 DEF B!AdminPickBrand, B!Body
  <2>3. B!Again[v1] \in Nat
    BY PanelsAgain DEF PanelsInv
  <2>. HIDE DEF c
  <2>. QED  BY <2>1, <2>2, PanelsReload, <2>3
<1>4. ASSUME B!AdminSwitchBrand PROVE PanelsInv'
  <2>. DEFINE c == None
  <2>1. /\ c \in Names \cup {None} /\ c = B!BRAND' /\ (c # None => v2' # None) /\ (v2' = "brand" => v3' # None)
        /\ v1' = v1 /\ v2' \in {"brand", "admin", None}
        /\ v3' \in Names \cup {None} /\ v4' \in Names \cup {None}
        /\ v5' = v5 /\ v5' \in 0..Bound.signins
    BY <1>4, NullAssumption, PanelsAssumption DEF PanelsInv, B!TypeOK, B!AskedInv, B!BRAND, B!Brand, B!AdminSwitchBrand, B!Body
  <2>2. B!ReloadBrand(c, v5', 0)
    BY <1>4, <2>1 DEF B!AdminSwitchBrand, B!Body
  <2>. HIDE DEF c
  <2>. QED  BY <2>1, <2>2, PanelsReload
<1>5. ASSUME B!AskAgain PROVE PanelsInv'
  <2>1. B!Load(1, B!BRAND, v5)
    BY <1>5 DEF B!AskAgain
  <2>2. /\ B!BRAND \in Names /\ B!BRAND # None /\ v2 # None /\ B!BRAND' = B!BRAND
        /\ v1' = v1 /\ v2' = v2 /\ v3' = v3 /\ v4' = v4 /\ v5' = v5 /\ v5 \in Nat
    BY <1>5, PanelsAssumption DEF PanelsInv, B!TypeOK, B!AskAgain, B!Body, B!BRAND, B!Brand
  <2>3. /\ v7' \in {v7, None} /\ v8' \in {v8, None}
        /\ v1 = "candidates" => v7' = None
        /\ v1 # "identity" => v8' = None
    BY <1>5 DEF B!AskAgain
  <2>. DEFINE n == [brand |-> B!BRAND, token |-> v5, version |-> v6 + 1]
  <2>4. /\ v6' = v6 + 1 /\ v6' \in 0..Bound.loads /\ v9' = v9 \cup {n} /\ v6 \in Nat
    <3>1. \A i \in 1..1 : i = 1
      OBVIOUS
    <3>. QED  BY <2>1, <2>2, <3>1, PanelsAssumption DEF PanelsInv, B!TypeOK, B!Load
  <2>5. n \in B!Request /\ n # None /\ n.version = v6' /\ n.brand = B!BRAND /\ n.token = v5
    BY <2>2, <2>4, PanelsAssumption DEF B!Request
  <2>. HIDE DEF n
  <2>6. B!TypeOK'
    BY <2>2, <2>3, <2>4, <2>5 DEF PanelsInv, B!TypeOK
  <2>7. B!AskedInv'
    BY <2>2, <2>4, <2>5 DEF PanelsInv, B!TypeOK, B!AskedInv, B!Request
  <2>8. B!OwnBrandOnly' /\ B!FailureOfTheBrand'
    BY <2>2, <2>3 DEF PanelsInv, B!OwnBrandOnly, B!FailureOfTheBrand
  <2>9. PanelsNewest'
    BY <2>2, <2>3, <2>4, <2>5 DEF PanelsNewest, B!NewestAnswer
  <2>. QED  BY <2>6, <2>7, <2>8, <2>9 DEF PanelsInv
<1>6. ASSUME B!CandidateCountryChanged PROVE PanelsInv'
  <2>1. B!TypeOK'
    BY <1>6, NullAssumption, PanelsAssumption DEF PanelsInv, B!TypeOK, B!Request,
        B!CandidateCountryChanged
  <2>2. B!AskedInv'
    BY <1>6, NullAssumption, PanelsAssumption DEF PanelsInv, B!AskedInv, B!BRAND, B!Brand,
        B!CandidateCountryChanged, B!TypeOK, B!Request
  <2>3. B!OwnBrandOnly'
    BY <1>6, NullAssumption, PanelsAssumption DEF PanelsInv, B!OwnBrandOnly, B!BRAND, B!Brand,
        B!AskedInv, B!TypeOK, B!CandidateCountryChanged, B!Request
  <2>4. B!FailureOfTheBrand'
    BY <1>6, NullAssumption, PanelsAssumption DEF PanelsInv, B!FailureOfTheBrand, B!BRAND, B!Brand,
        B!AskedInv, B!TypeOK, B!CandidateCountryChanged, B!Request
  <2>5. PanelsNewest'
    BY <1>6, NullAssumption, PanelsAssumption DEF PanelsInv, PanelsNewest, B!NewestAnswer,
        B!AskedInv, B!Counted, B!Panels, B!TypeOK, B!CandidateCountryChanged, B!Request
  <2>. QED  BY <2>1, <2>2, <2>3, <2>4, <2>5 DEF PanelsInv
<1>7. ASSUME NEW r \in v9, B!Answer(r) PROVE PanelsInv'
  <2>1. B!TypeOK'
    BY <1>7, NullAssumption, PanelsAssumption DEF PanelsInv, B!TypeOK, B!Request, B!Answer,
        B!Compares, B!ComparesFailure, B!Silent, B!Wanted, B!Panels, B!Counted, B!BRAND, B!Brand
  <2>2. B!AskedInv'
    BY <1>7, NullAssumption, PanelsAssumption DEF PanelsInv, B!AskedInv, B!BRAND, B!Brand,
        B!Answer, B!Compares, B!ComparesFailure, B!Silent, B!Wanted, B!Panels, B!Counted
  <2>3. B!OwnBrandOnly'
    BY <1>7, NullAssumption, PanelsAssumption DEF PanelsInv, B!OwnBrandOnly, B!BRAND, B!Brand,
        B!AskedInv, B!TypeOK, B!Answer, B!Compares, B!ComparesFailure, B!Silent, B!Wanted,
        B!Panels, B!Counted
  <2>4. B!FailureOfTheBrand'
    BY <1>7, NullAssumption, PanelsAssumption DEF PanelsInv, B!FailureOfTheBrand, B!BRAND, B!Brand,
        B!AskedInv, B!TypeOK, B!Answer, B!Compares, B!ComparesFailure, B!Silent, B!Wanted,
        B!Panels, B!Counted
  <2>5. PanelsNewest'
    BY <1>7, NullAssumption, PanelsAssumption DEF PanelsInv, PanelsNewest, B!NewestAnswer,
        B!AskedInv, B!Counted, B!Panels, B!TypeOK, B!Answer, B!Compares, B!ComparesFailure,
        B!Silent, B!Wanted, B!BRAND, B!Brand
  <2>. QED  BY <2>1, <2>2, <2>3, <2>4, <2>5 DEF PanelsInv
<1>8. ASSUME NEW r \in v9, B!Fail(r) PROVE PanelsInv'
  <2>11. /\ v1' = v1 /\ v2' = v2 /\ v3' = v3 /\ v4' = v4 /\ v5' = v5 /\ v6' = v6
         /\ v9' = v9 \ {r} /\ B!BRAND' = B!BRAND
    BY <1>8 DEF B!Fail, B!BRAND, B!Brand
  <2>12. IF v1 \notin B!Silent /\ B!Wanted(r, B!ComparesFailure[v1])
           THEN v8' = r /\ v7' \in {v7, None}
           ELSE v7' = v7 /\ v8' = v8
    BY <1>8 DEF B!Fail
  <2>13. v1 \in B!Panels
    BY DEF PanelsInv, B!TypeOK
  <2>14. B!Wanted(r, B!ComparesFailure[v1]) /\ v1 \notin B!Silent /\ v1 # "profile" => r.brand = B!BRAND
    <3>1. CASE v1 = "cells"
      <4>1. B!ComparesFailure[v1] = {"version"}
        BY <3>1 DEF B!ComparesFailure, B!Compares
      <4>. QED  BY <4>1 DEF PanelsInv, B!AskedInv, B!Wanted
    <3>2. CASE v1 \notin B!Silent \cup {"profile", "cells"}
      <4>1. \A p \in {"outreach", "gmail", "inbox", "products"} : "brand" \in B!ComparesFailure[p]
        BY PanelsCompare
      <4>2. v1 \in {"outreach", "gmail", "inbox", "products"}
        BY <2>13, <3>2 DEF B!Panels, B!Silent
      <4>. QED  BY <4>1, <4>2 DEF B!Wanted
    <3>. QED  BY <2>13, <3>1, <3>2 DEF B!Panels, B!Silent
  <2>15. v1 \in B!Counted /\ v1 # "candidates" /\ r.version = v6 => B!Wanted(r, B!ComparesFailure[v1])
    <3>. SUFFICES ASSUME v1 \in B!Counted, v1 # "candidates", r.version = v6
                  PROVE  B!Wanted(r, B!ComparesFailure[v1])
      OBVIOUS
    <3>1. r.brand = B!BRAND /\ r.token = v5 /\ v2 # None
      BY DEF PanelsInv, B!AskedInv
    <3>. QED  BY <3>1 DEF B!Wanted
  <2>16. v1 \in B!Counted /\ v1 # "candidates" /\ B!Wanted(r, B!ComparesFailure[v1]) => r.version = v6
    BY PanelsCompare DEF B!Wanted, B!Counted
  <2>1. B!TypeOK'
    BY <1>8, NullAssumption, PanelsAssumption DEF PanelsInv, B!TypeOK, B!Request, B!Fail,
        B!Compares, B!ComparesFailure, B!Silent, B!Wanted, B!Panels, B!Counted, B!BRAND, B!Brand
  <2>2. B!AskedInv'
    BY <1>8, NullAssumption, PanelsAssumption DEF PanelsInv, B!AskedInv, B!BRAND, B!Brand, B!Fail,
        B!Compares, B!ComparesFailure, B!Silent, B!Wanted, B!Panels, B!Counted
  <2>3. B!OwnBrandOnly'
    BY <2>11, <2>12 DEF PanelsInv, B!OwnBrandOnly
  <2>4. B!FailureOfTheBrand'
    BY <2>11, <2>12, <2>14 DEF PanelsInv, B!FailureOfTheBrand
  <2>5. PanelsNewest'
    <3>1. v1 \in B!Counted /\ v1 # "candidates" => v1 \notin B!Silent
      BY DEF B!Counted, B!Silent
    <3>2. r # None
      BY PanelsAssumption DEF PanelsInv, B!TypeOK
    <3>3. CASE v1 = "candidates"
      BY <2>11, <2>12, <3>3 DEF PanelsInv, PanelsNewest, B!NewestAnswer, B!Silent
    <3>4. CASE v1 # "candidates"
      <4>. SUFFICES ASSUME v7' # None, v1 \in B!Counted
                    PROVE  \/ v7'.version = v6
                           \/ \E x \in v9' \cup {v8'} : x # None /\ x.version = v6
        BY <2>11, <3>4 DEF PanelsNewest, B!NewestAnswer
      <4>1. CASE r.version = v6
        BY <2>12, <2>15, <3>1, <3>2, <3>4, <4>1
      <4>2. CASE r.version # v6
        <5>1. v7 # None /\ v7' = v7 /\ v8' = v8
          BY <2>12, <2>16, <3>4, <4>2
        <5>2. v7.version = v6 \/ \E x \in v9 \cup {v8} : x # None /\ x.version = v6
          BY <5>1 DEF PanelsInv, PanelsNewest, B!NewestAnswer
        <5>. QED  BY <2>11, <4>2, <5>1, <5>2
      <4>. QED  BY <4>1, <4>2
    <3>. QED  BY <3>3, <3>4
  <2>. QED  BY <2>1, <2>2, <2>3, <2>4, <2>5 DEF PanelsInv
<1>9. CASE UNCHANGED B!bvars
  BY <1>9 DEF B!bvars, PanelsInv, B!TypeOK, B!Request, B!AskedInv, B!BRAND, B!Brand,
      B!OwnBrandOnly, B!FailureOfTheBrand, PanelsNewest, B!NewestAnswer, B!Counted, B!Panels
<1>. QED  BY <1>1, <1>2, <1>3, <1>4, <1>5, <1>6, <1>7, <1>8, <1>9 DEF B!BNext

-------------------------------------------------------------------------------
(* The outreach page *)
O == INSTANCE OutreachPage WITH
  Brands <- Names, Products <- Ids, MaxLooks <- Bound.looks, brand <- v1, page <- v2,
  text <- v3, to <- v4, product <- v5, composing <- v6, writing <- v7, looking <- v8,
  looks <- v9, candidates <- v10, picked <- v11, lost <- v12, changed <- v13

ASSUME MailAssumption ==
  /\ Bound.looks \in Nat
  /\ None \notin O!Text \cup O!Search \cup [brand : Names, product : Ids \cup {None}]
               \cup [brand : Names, text : O!Text \cup {None}]

MailInv ==
  /\ O!TypeOK /\ O!FormInv
  /\ O!DraftOfTheBrand /\ O!PickedAreShown /\ O!LostOnlyWhenChanged

\* One search more.
LEMMA MailCounts ==
  0 \in 0..Bound.looks /\ \A n \in 0..Bound.looks : n < Bound.looks => n + 1 \in 0..Bound.looks
BY MailAssumption

\* The form is empty at first.
LEMMA MailBegins == O!OInit => MailInv
BY MailAssumption, MailCounts DEF O!OInit, O!TypeOK, O!FormInv, O!Saving, O!DraftOfTheBrand, O!PickedAreShown,
   O!LostOnlyWhenChanged, MailInv

\* The form keeps what it promises, in every step.
LEMMA MailKeeps == MailInv /\ [O!ONext]_(O!ovars) => MailInv'
<1>. SUFFICES ASSUME MailInv, [O!ONext]_(O!ovars) PROVE MailInv'
  OBVIOUS
<1>1. ASSUME NEW b \in Names \cup {None}, O!ChangeBrand(b) PROVE MailInv'
  <2>1. O!TypeOK'
    BY <1>1, MailCounts, NullAssumption, MailAssumption DEF MailInv, O!TypeOK, O!Text, O!Search,
        O!ChangeBrand, O!Form, O!Found, O!Changes, O!Emptied, O!OnForm, O!Saving
  <2>2. O!FormInv'
    BY <1>1, NullAssumption, MailAssumption DEF MailInv, O!FormInv, O!Saving, O!TypeOK,
        O!DraftOfTheBrand, O!LostOnlyWhenChanged, O!Text, O!Search, O!ChangeBrand, O!Form, O!Found,
        O!Changes, O!Emptied, O!OnForm
  <2>3. ((O!DraftOfTheBrand /\ O!PickedAreShown /\ O!LostOnlyWhenChanged))'
    BY <1>1, NullAssumption, MailAssumption DEF MailInv, O!DraftOfTheBrand, O!PickedAreShown,
        O!LostOnlyWhenChanged, O!FormInv, O!Saving, O!TypeOK, O!Text, O!Search, O!ChangeBrand,
        O!Form, O!Found, O!Changes, O!Emptied, O!OnForm
  <2>. QED  BY <2>1, <2>2, <2>3 DEF MailInv
<1>2. ASSUME NEW p \in {"mail", "products", "other"}, O!LiveNav(p) PROVE MailInv'
  <2>1. O!TypeOK'
    BY <1>2, NullAssumption, MailAssumption DEF MailInv, O!TypeOK, O!Text, O!Search, O!LiveNav,
        O!Form, O!Found, O!Changes, O!Emptied, O!OnForm, O!Saving
  <2>2. O!FormInv'
    BY <1>2, NullAssumption, MailAssumption DEF MailInv, O!FormInv, O!Saving, O!TypeOK,
        O!DraftOfTheBrand, O!LostOnlyWhenChanged, O!Text, O!Search, O!LiveNav, O!Form, O!Found,
        O!Changes, O!Emptied, O!OnForm
  <2>3. ((O!DraftOfTheBrand /\ O!PickedAreShown /\ O!LostOnlyWhenChanged))'
    BY <1>2, NullAssumption, MailAssumption DEF MailInv, O!DraftOfTheBrand, O!PickedAreShown,
        O!LostOnlyWhenChanged, O!FormInv, O!Saving, O!TypeOK, O!Text, O!Search, O!LiveNav, O!Form,
        O!Found, O!Changes, O!Emptied, O!OnForm
  <2>. QED  BY <2>1, <2>2, <2>3 DEF MailInv
<1>3. ASSUME O!Type PROVE MailInv'
  <2>1. O!TypeOK'
    BY <1>3, NullAssumption, MailAssumption DEF MailInv, O!TypeOK, O!Text, O!Search, O!Type,
        O!Form, O!Found, O!Changes, O!Emptied, O!OnForm, O!Saving
  <2>2. O!FormInv'
    BY <1>3, NullAssumption, MailAssumption DEF MailInv, O!FormInv, O!Saving, O!TypeOK,
        O!DraftOfTheBrand, O!LostOnlyWhenChanged, O!Text, O!Search, O!Type, O!Form, O!Found,
        O!Changes, O!Emptied, O!OnForm
  <2>3. ((O!DraftOfTheBrand /\ O!PickedAreShown /\ O!LostOnlyWhenChanged))'
    BY <1>3, NullAssumption, MailAssumption DEF MailInv, O!DraftOfTheBrand, O!PickedAreShown,
        O!LostOnlyWhenChanged, O!FormInv, O!Saving, O!TypeOK, O!Text, O!Search, O!Type, O!Form,
        O!Found, O!Changes, O!Emptied, O!OnForm
  <2>. QED  BY <2>1, <2>2, <2>3 DEF MailInv
<1>4. ASSUME O!OutreachCompose PROVE MailInv'
  <2>1. O!TypeOK'
    BY <1>4, NullAssumption, MailAssumption DEF MailInv, O!TypeOK, O!Text, O!Search,
        O!OutreachCompose, O!Form, O!Found, O!Changes, O!Emptied, O!OnForm, O!Saving
  <2>2. O!FormInv'
    BY <1>4, NullAssumption, MailAssumption DEF MailInv, O!FormInv, O!Saving, O!TypeOK,
        O!DraftOfTheBrand, O!LostOnlyWhenChanged, O!Text, O!Search, O!OutreachCompose, O!Form,
        O!Found, O!Changes, O!Emptied, O!OnForm
  <2>3. ((O!DraftOfTheBrand /\ O!PickedAreShown /\ O!LostOnlyWhenChanged))'
    BY <1>4, NullAssumption, MailAssumption DEF MailInv, O!DraftOfTheBrand, O!PickedAreShown,
        O!LostOnlyWhenChanged, O!FormInv, O!Saving, O!TypeOK, O!Text, O!Search, O!OutreachCompose,
        O!Form, O!Found, O!Changes, O!Emptied, O!OnForm
  <2>. QED  BY <2>1, <2>2, <2>3 DEF MailInv
<1>5. ASSUME O!OnComposed PROVE MailInv'
  <2>1. O!TypeOK'
    BY <1>5, NullAssumption, MailAssumption DEF MailInv, O!TypeOK, O!Text, O!Search, O!OnComposed,
        O!Form, O!Found, O!Changes, O!Emptied, O!OnForm, O!Saving
  <2>2. O!FormInv'
    BY <1>5, NullAssumption, MailAssumption DEF MailInv, O!FormInv, O!Saving, O!TypeOK,
        O!DraftOfTheBrand, O!LostOnlyWhenChanged, O!Text, O!Search, O!OnComposed, O!Form, O!Found,
        O!Changes, O!Emptied, O!OnForm
  <2>3. ((O!DraftOfTheBrand /\ O!PickedAreShown /\ O!LostOnlyWhenChanged))'
    BY <1>5, NullAssumption, MailAssumption DEF MailInv, O!DraftOfTheBrand, O!PickedAreShown,
        O!LostOnlyWhenChanged, O!FormInv, O!Saving, O!TypeOK, O!Text, O!Search, O!OnComposed,
        O!Form, O!Found, O!Changes, O!Emptied, O!OnForm
  <2>. QED  BY <2>1, <2>2, <2>3 DEF MailInv
<1>6. ASSUME O!ComposeFails \/ O!OutreachSend \/ O!OnSent \/ O!WriteFails PROVE MailInv'
  <2>1. O!TypeOK'
    BY <1>6, NullAssumption, MailAssumption DEF MailInv, O!TypeOK, O!Text, O!Search,
        O!ComposeFails, O!OutreachSend, O!OnSent, O!WriteFails, O!Form, O!Found, O!Changes,
        O!Emptied, O!OnForm, O!Saving
  <2>2. O!FormInv'
    BY <1>6, NullAssumption, MailAssumption DEF MailInv, O!FormInv, O!Saving, O!TypeOK,
        O!DraftOfTheBrand, O!LostOnlyWhenChanged, O!Text, O!Search, O!ComposeFails, O!OutreachSend,
        O!OnSent, O!WriteFails, O!Form, O!Found, O!Changes, O!Emptied, O!OnForm
  <2>3. ((O!DraftOfTheBrand /\ O!PickedAreShown /\ O!LostOnlyWhenChanged))'
    BY <1>6, NullAssumption, MailAssumption DEF MailInv, O!DraftOfTheBrand, O!PickedAreShown,
        O!LostOnlyWhenChanged, O!FormInv, O!Saving, O!TypeOK, O!Text, O!Search, O!ComposeFails,
        O!OutreachSend, O!OnSent, O!WriteFails, O!Form, O!Found, O!Changes, O!Emptied, O!OnForm
  <2>. QED  BY <2>1, <2>2, <2>3 DEF MailInv
<1>7. ASSUME O!OutreachDraft PROVE MailInv'
  <2>1. O!TypeOK'
    BY <1>7, NullAssumption, MailAssumption DEF MailInv, O!TypeOK, O!Text, O!Search,
        O!OutreachDraft, O!Form, O!Found, O!Changes, O!Emptied, O!OnForm, O!Saving
  <2>2. O!FormInv'
    BY <1>7, NullAssumption, MailAssumption DEF MailInv, O!FormInv, O!Saving, O!TypeOK,
        O!DraftOfTheBrand, O!LostOnlyWhenChanged, O!Text, O!Search, O!OutreachDraft, O!Form,
        O!Found, O!Changes, O!Emptied, O!OnForm
  <2>3. ((O!DraftOfTheBrand /\ O!PickedAreShown /\ O!LostOnlyWhenChanged))'
    BY <1>7, NullAssumption, MailAssumption DEF MailInv, O!DraftOfTheBrand, O!PickedAreShown,
        O!LostOnlyWhenChanged, O!FormInv, O!Saving, O!TypeOK, O!Text, O!Search, O!OutreachDraft,
        O!Form, O!Found, O!Changes, O!Emptied, O!OnForm
  <2>. QED  BY <2>1, <2>2, <2>3 DEF MailInv
<1>8. ASSUME O!OnDrafted PROVE MailInv'
  <2>1. O!TypeOK'
    BY <1>8, NullAssumption, MailAssumption DEF MailInv, O!TypeOK, O!Text, O!Search, O!OnDrafted,
        O!Form, O!Found, O!Changes, O!Emptied, O!OnForm, O!Saving
  <2>2. O!FormInv'
    BY <1>8, NullAssumption, MailAssumption DEF MailInv, O!FormInv, O!Saving, O!TypeOK,
        O!DraftOfTheBrand, O!LostOnlyWhenChanged, O!Text, O!Search, O!OnDrafted, O!Form, O!Found,
        O!Changes, O!Emptied, O!OnForm
  <2>3. ((O!DraftOfTheBrand /\ O!PickedAreShown /\ O!LostOnlyWhenChanged))'
    BY <1>8, NullAssumption, MailAssumption DEF MailInv, O!DraftOfTheBrand, O!PickedAreShown,
        O!LostOnlyWhenChanged, O!FormInv, O!Saving, O!TypeOK, O!Text, O!Search, O!OnDrafted,
        O!Form, O!Found, O!Changes, O!Emptied, O!OnForm
  <2>. QED  BY <2>1, <2>2, <2>3 DEF MailInv
<1>9. ASSUME NEW p \in Ids, O!ProdShowCandidates(p) PROVE MailInv'
  <2>1. O!TypeOK'
    <3>1. v9 + 1 \in 0..Bound.looks /\ v9' = v9 + 1 /\ v1 \in Names
      BY <1>9, MailCounts DEF MailInv, O!TypeOK, O!ProdShowCandidates
    <3>2. [brand |-> v1, product |-> p, version |-> v9 + 1]
            \in [brand : Names, product : Ids, version : 0..Bound.looks]
      BY <3>1
    <3>. QED  BY <1>9, <3>1, <3>2 DEF MailInv, O!TypeOK, O!ProdShowCandidates, O!Form
  <2>2. O!FormInv'
    BY <1>9, NullAssumption, MailAssumption DEF MailInv, O!FormInv, O!Saving, O!TypeOK,
        O!DraftOfTheBrand, O!LostOnlyWhenChanged, O!Text, O!Search, O!ProdShowCandidates, O!Form,
        O!Found, O!Changes, O!Emptied, O!OnForm
  <2>3. ((O!DraftOfTheBrand /\ O!PickedAreShown /\ O!LostOnlyWhenChanged))'
    BY <1>9, NullAssumption, MailAssumption DEF MailInv, O!DraftOfTheBrand, O!PickedAreShown,
        O!LostOnlyWhenChanged, O!FormInv, O!Saving, O!TypeOK, O!Text, O!Search,
        O!ProdShowCandidates, O!Form, O!Found, O!Changes, O!Emptied, O!OnForm
  <2>. QED  BY <2>1, <2>2, <2>3 DEF MailInv
<1>10. ASSUME O!CandidateCountryChanged \/ O!CandToggle PROVE MailInv'
  <2>1. O!TypeOK'
    BY <1>10, MailCounts, NullAssumption, MailAssumption DEF MailInv, O!TypeOK, O!Text, O!Search,
        O!CandidateCountryChanged, O!CandToggle, O!Form, O!Found, O!Changes, O!Emptied, O!OnForm,
        O!Saving
  <2>2. O!FormInv'
    BY <1>10, NullAssumption, MailAssumption DEF MailInv, O!FormInv, O!Saving, O!TypeOK,
        O!DraftOfTheBrand, O!LostOnlyWhenChanged, O!Text, O!Search, O!CandidateCountryChanged,
        O!CandToggle, O!Form, O!Found, O!Changes, O!Emptied, O!OnForm
  <2>3. ((O!DraftOfTheBrand /\ O!PickedAreShown /\ O!LostOnlyWhenChanged))'
    BY <1>10, NullAssumption, MailAssumption DEF MailInv, O!DraftOfTheBrand, O!PickedAreShown,
        O!LostOnlyWhenChanged, O!FormInv, O!Saving, O!TypeOK, O!Text, O!Search,
        O!CandidateCountryChanged, O!CandToggle, O!Form, O!Found, O!Changes, O!Emptied, O!OnForm
  <2>. QED  BY <2>1, <2>2, <2>3 DEF MailInv
<1>11. ASSUME O!OutreachFromCandidates PROVE MailInv'
  <2>1. O!TypeOK'
    BY <1>11, NullAssumption, MailAssumption DEF MailInv, O!TypeOK, O!Text, O!Search,
        O!OutreachFromCandidates, O!Form, O!Found, O!Changes, O!Emptied, O!OnForm, O!Saving
  <2>2. O!FormInv'
    BY <1>11, NullAssumption, MailAssumption DEF MailInv, O!FormInv, O!Saving, O!TypeOK,
        O!DraftOfTheBrand, O!LostOnlyWhenChanged, O!Text, O!Search, O!OutreachFromCandidates,
        O!Form, O!Found, O!Changes, O!Emptied, O!OnForm
  <2>3. ((O!DraftOfTheBrand /\ O!PickedAreShown /\ O!LostOnlyWhenChanged))'
    BY <1>11, NullAssumption, MailAssumption DEF MailInv, O!DraftOfTheBrand, O!PickedAreShown,
        O!LostOnlyWhenChanged, O!FormInv, O!Saving, O!TypeOK, O!Text, O!Search,
        O!OutreachFromCandidates, O!Form, O!Found, O!Changes, O!Emptied, O!OnForm
  <2>. QED  BY <2>1, <2>2, <2>3 DEF MailInv
<1>12. ASSUME NEW r \in v8, O!OnCandidates(r) \/ O!LookFails(r) PROVE MailInv'
  <2>1. O!TypeOK'
    BY <1>12, NullAssumption, MailAssumption DEF MailInv, O!TypeOK, O!Text, O!Search,
        O!OnCandidates, O!LookFails, O!Form, O!Found, O!Changes, O!Emptied, O!OnForm, O!Saving
  <2>2. O!FormInv'
    BY <1>12, NullAssumption, MailAssumption DEF MailInv, O!FormInv, O!Saving, O!TypeOK,
        O!DraftOfTheBrand, O!LostOnlyWhenChanged, O!Text, O!Search, O!OnCandidates, O!LookFails,
        O!Form, O!Found, O!Changes, O!Emptied, O!OnForm
  <2>3. ((O!DraftOfTheBrand /\ O!PickedAreShown /\ O!LostOnlyWhenChanged))'
    BY <1>12, NullAssumption, MailAssumption DEF MailInv, O!DraftOfTheBrand, O!PickedAreShown,
        O!LostOnlyWhenChanged, O!FormInv, O!Saving, O!TypeOK, O!Text, O!Search, O!OnCandidates,
        O!LookFails, O!Form, O!Found, O!Changes, O!Emptied, O!OnForm
  <2>. QED  BY <2>1, <2>2, <2>3 DEF MailInv
<1>13. CASE UNCHANGED O!ovars
  BY <1>13 DEF O!ovars, MailInv, O!TypeOK, O!Text, O!Search, O!FormInv, O!Saving,
      O!DraftOfTheBrand, O!LostOnlyWhenChanged, O!PickedAreShown
<1>. QED  BY <1>1, <1>2, <1>3, <1>4, <1>5, <1>6, <1>7, <1>8, <1>9, <1>10, <1>11, <1>12, <1>13 DEF
    O!ONext

\* No step of the model's writes over what stands in the form.
LEMMA MailWrites == [O!ONext]_(O!ovars) => O!WritesOverNothing
<1>. SUFFICES ASSUME [O!ONext]_(O!ovars), v3 # None, v3' # None, v3' # v3 PROVE v3'.made = "typed"
  BY DEF O!WritesOverNothing
<1>1. O!Type
  BY DEF O!ONext, O!ovars, O!ChangeBrand, O!LiveNav, O!OutreachCompose, O!OnComposed, O!ComposeFails,
     O!OutreachDraft, O!OutreachSend, O!OnDrafted, O!OnSent, O!WriteFails, O!ProdShowCandidates,
     O!CandidateCountryChanged, O!CandToggle, O!OutreachFromCandidates, O!OnCandidates, O!LookFails,
     O!Emptied, O!Form
<1>. QED  BY <1>1 DEF O!Type

-------------------------------------------------------------------------------
(* The creator's list *)
R == INSTANCE CreatorPage WITH
  Creators <- Names, MaxTokens <- Bound.tokens, MaxLoads <- Bound.lists, list <- v1, owner <- v2,
  jwt <- v3, signedIn <- v4, status <- v5, request <- v6, rows <- v7, loads <- v8, relinked <- v9

ASSUME CreatorAssumption ==
  /\ Bound.tokens \in Nat /\ Bound.lists \in Nat
  /\ None \notin R!LoadRecord

CreatorInv == R!TypeOK /\ R!LoadsInv /\ R!ReadyIsNewest /\ R!ForeignOnlyAfterLink

\* One session, or one load, more.
LEMMA CreatorCounts ==
  /\ 0 \in 0..Bound.tokens /\ 0 \in 0..Bound.lists
  /\ \A n \in 0..Bound.tokens : n < Bound.tokens => n + 1 \in 0..Bound.tokens /\ n + 1 \in 1..Bound.tokens
  /\ \A n \in 0..Bound.lists : n < Bound.lists => n + 1 \in 0..Bound.lists /\ n + 1 \in 1..Bound.lists
BY CreatorAssumption

\* Nothing is loaded at first.
LEMMA CreatorBegins == R!RInit => CreatorInv
BY CreatorAssumption, CreatorCounts DEF R!RInit, R!TypeOK, R!LoadsInv, R!ReadyIsNewest, R!ForeignOnlyAfterLink, CreatorInv

\* The lists keep what they promise, in every step.
LEMMA CreatorKeeps == CreatorInv /\ [R!RNext]_(R!rvars) => CreatorInv'
<1>. SUFFICES ASSUME CreatorInv, [R!RNext]_(R!rvars) PROVE CreatorInv'
  OBVIOUS
<1>1. ASSUME R!Open PROVE CreatorInv'
  <2>1. R!TypeOK'
    BY <1>1, NullAssumption, CreatorAssumption DEF CreatorInv, R!TypeOK, R!LoadRecord, R!Open
  <2>2. R!LoadsInv'
    BY <1>1, NullAssumption, CreatorAssumption DEF CreatorInv, R!LoadsInv, R!TypeOK, R!LoadRecord,
        R!Open
  <2>3. ((R!ReadyIsNewest /\ R!ForeignOnlyAfterLink))'
    BY <1>1, NullAssumption, CreatorAssumption DEF CreatorInv, R!ReadyIsNewest,
        R!ForeignOnlyAfterLink, R!LoadsInv, R!TypeOK, R!LoadRecord, R!Open
  <2>. QED  BY <2>1, <2>2, <2>3 DEF CreatorInv
<1>2. ASSUME R!OnMe PROVE CreatorInv'
  <2>. DEFINE n == [owner |-> v2, jwt |-> v3, n |-> v6 + 1]
  <2>11. n \in R!LoadRecord /\ v8' = v8 \cup {n} /\ v6' = v6 + 1 /\ v6' \in 0..Bound.lists
    BY <1>2, CreatorAssumption DEF CreatorInv, R!TypeOK, R!LoadsInv, R!LoadRecord, R!OnMe, R!LoadFor
  <2>12. n.owner = v2 /\ n.jwt = v3 /\ n.n = v6'
    BY <2>11
  <2>13. \A l \in v8 \cup ({v7} \ {None}) : /\ l \in R!LoadRecord /\ l.jwt \in Nat /\ l.n \in Nat
                                        /\ l.jwt <= v3 /\ l.n <= v6
    BY CreatorAssumption DEF CreatorInv, R!TypeOK, R!LoadsInv, R!LoadRecord
  <2>14. v3 \in Nat /\ v6 \in Nat
    BY CreatorAssumption DEF CreatorInv, R!TypeOK
  <2>. HIDE DEF n
  <2>1. R!TypeOK'
    BY <1>2, <2>11, CreatorAssumption DEF CreatorInv, R!TypeOK, R!OnMe, R!LoadFor
  <2>2. R!LoadsInv'
    BY <1>2, <2>11, <2>12, <2>13, <2>14, NullAssumption DEF CreatorInv, R!LoadsInv, R!OnMe, R!LoadFor
  <2>3. ((R!ReadyIsNewest /\ R!ForeignOnlyAfterLink))'
    BY <1>2, NullAssumption, CreatorAssumption DEF CreatorInv, R!ReadyIsNewest,
        R!ForeignOnlyAfterLink, R!LoadsInv, R!TypeOK, R!LoadRecord, R!OnMe, R!LoadFor
  <2>. QED  BY <2>1, <2>2, <2>3 DEF CreatorInv
<1>3. ASSUME NEW a \in Names, R!OnMagic(a) PROVE CreatorInv'
  <2>. DEFINE n == [owner |-> a, jwt |-> v3 + 1, n |-> v6 + 1]
  <2>11. n \in R!LoadRecord /\ v8' = v8 \cup {n} /\ v6' = v6 + 1 /\ v6' \in 0..Bound.lists
    BY <1>3, CreatorAssumption DEF CreatorInv, R!TypeOK, R!LoadsInv, R!LoadRecord, R!OnMagic, R!LoadFor
  <2>12. n.owner = a /\ n.jwt = v3 + 1 /\ n.n = v6'
    BY <2>11
  <2>13. \A l \in v8 \cup ({v7} \ {None}) : /\ l \in R!LoadRecord /\ l.jwt \in Nat /\ l.n \in Nat
                                        /\ l.jwt <= v3 /\ l.n <= v6
    BY CreatorAssumption DEF CreatorInv, R!TypeOK, R!LoadsInv, R!LoadRecord
  <2>14. v3 \in Nat /\ v6 \in Nat
    BY CreatorAssumption DEF CreatorInv, R!TypeOK
  <2>. HIDE DEF n
  <2>1. R!TypeOK'
    BY <1>3, <2>11, CreatorAssumption DEF CreatorInv, R!TypeOK, R!OnMagic, R!LoadFor
  <2>2. R!LoadsInv'
    <3>1. /\ v3' = v3 + 1 /\ v2' = a /\ v7' = v7 /\ a # None
          /\ ~v9' => ~v9 /\ (a = v2 \/ (v7 = None /\ v8 = {}))
      BY <1>3, NullAssumption DEF R!OnMagic
    <3>2. SUFFICES ASSUME NEW l \in v8' \cup ({v7'} \ {None})
                   PROVE  /\ l.jwt <= v3' /\ l.n <= v6'
                          /\ l.jwt = v3' => l.owner = a
                          /\ ~v9' => l.owner = a
      BY <2>14, <3>1 DEF R!LoadsInv
    <3>3. CASE l = n
      BY <2>11, <2>12, <2>14, <3>1, <3>3
    <3>4. CASE l \in v8 \cup ({v7} \ {None})
      BY <2>11, <2>13, <2>14, <3>1, <3>4 DEF CreatorInv, R!LoadsInv
    <3>. QED  BY <2>11, <3>1, <3>3, <3>4
  <2>3. ((R!ReadyIsNewest /\ R!ForeignOnlyAfterLink))'
    BY <1>3, NullAssumption, CreatorAssumption DEF CreatorInv, R!ReadyIsNewest,
        R!ForeignOnlyAfterLink, R!LoadsInv, R!TypeOK, R!LoadRecord, R!OnMagic, R!LoadFor
  <2>. QED  BY <2>1, <2>2, <2>3 DEF CreatorInv
<1>4. ASSUME R!AuthLogout PROVE CreatorInv'
  <2>1. R!TypeOK'
    BY <1>4, NullAssumption, CreatorAssumption DEF CreatorInv, R!TypeOK, R!LoadRecord, R!AuthLogout
  <2>2. R!LoadsInv'
    BY <1>4, NullAssumption, CreatorAssumption DEF CreatorInv, R!LoadsInv, R!TypeOK, R!LoadRecord,
        R!AuthLogout
  <2>3. ((R!ReadyIsNewest /\ R!ForeignOnlyAfterLink))'
    BY <1>4, NullAssumption, CreatorAssumption DEF CreatorInv, R!ReadyIsNewest,
        R!ForeignOnlyAfterLink, R!LoadsInv, R!TypeOK, R!LoadRecord, R!AuthLogout
  <2>. QED  BY <2>1, <2>2, <2>3 DEF CreatorInv
<1>5. ASSUME R!LoadCreatorData PROVE CreatorInv'
  <2>. DEFINE n == [owner |-> v2, jwt |-> v3, n |-> v6 + 1]
  <2>11. n \in R!LoadRecord /\ v8' = v8 \cup {n} /\ v6' = v6 + 1 /\ v6' \in 0..Bound.lists
    BY <1>5, CreatorAssumption DEF CreatorInv, R!TypeOK, R!LoadsInv, R!LoadRecord, R!LoadCreatorData, R!LoadFor
  <2>12. n.owner = v2 /\ n.jwt = v3 /\ n.n = v6'
    BY <2>11
  <2>13. \A l \in v8 \cup ({v7} \ {None}) : /\ l \in R!LoadRecord /\ l.jwt \in Nat /\ l.n \in Nat
                                        /\ l.jwt <= v3 /\ l.n <= v6
    BY CreatorAssumption DEF CreatorInv, R!TypeOK, R!LoadsInv, R!LoadRecord
  <2>14. v3 \in Nat /\ v6 \in Nat
    BY CreatorAssumption DEF CreatorInv, R!TypeOK
  <2>. HIDE DEF n
  <2>1. R!TypeOK'
    BY <1>5, <2>11, CreatorAssumption DEF CreatorInv, R!TypeOK, R!LoadCreatorData, R!LoadFor
  <2>2. R!LoadsInv'
    BY <1>5, <2>11, <2>12, <2>13, <2>14, NullAssumption DEF CreatorInv, R!LoadsInv, R!LoadCreatorData, R!LoadFor
  <2>3. ((R!ReadyIsNewest /\ R!ForeignOnlyAfterLink))'
    BY <1>5, NullAssumption, CreatorAssumption DEF CreatorInv, R!ReadyIsNewest,
        R!ForeignOnlyAfterLink, R!LoadsInv, R!TypeOK, R!LoadRecord, R!LoadCreatorData, R!LoadFor
  <2>. QED  BY <2>1, <2>2, <2>3 DEF CreatorInv
<1>6. ASSUME NEW l \in v8, R!Answer(l) PROVE CreatorInv'
  <2>1. R!TypeOK'
    BY <1>6, NullAssumption, CreatorAssumption DEF CreatorInv, R!TypeOK, R!LoadRecord, R!Answer,
        R!Wanted
  <2>2. R!LoadsInv'
    BY <1>6, NullAssumption, CreatorAssumption DEF CreatorInv, R!LoadsInv, R!TypeOK, R!LoadRecord,
        R!Answer, R!Wanted
  <2>3. ((R!ReadyIsNewest /\ R!ForeignOnlyAfterLink))'
    BY <1>6, NullAssumption, CreatorAssumption DEF CreatorInv, R!ReadyIsNewest,
        R!ForeignOnlyAfterLink, R!LoadsInv, R!TypeOK, R!LoadRecord, R!Answer, R!Wanted
  <2>. QED  BY <2>1, <2>2, <2>3 DEF CreatorInv
<1>7. ASSUME NEW l \in v8, R!Fail(l) PROVE CreatorInv'
  <2>1. R!TypeOK'
    BY <1>7, NullAssumption, CreatorAssumption DEF CreatorInv, R!TypeOK, R!LoadRecord, R!Fail,
        R!Wanted
  <2>2. R!LoadsInv'
    BY <1>7, NullAssumption, CreatorAssumption DEF CreatorInv, R!LoadsInv, R!TypeOK, R!LoadRecord,
        R!Fail, R!Wanted
  <2>3. ((R!ReadyIsNewest /\ R!ForeignOnlyAfterLink))'
    BY <1>7, NullAssumption, CreatorAssumption DEF CreatorInv, R!ReadyIsNewest,
        R!ForeignOnlyAfterLink, R!LoadsInv, R!TypeOK, R!LoadRecord, R!Fail, R!Wanted
  <2>. QED  BY <2>1, <2>2, <2>3 DEF CreatorInv
<1>8. CASE UNCHANGED R!rvars
  BY <1>8 DEF R!rvars, CreatorInv, R!TypeOK, R!LoadRecord, R!LoadsInv, R!ReadyIsNewest,
      R!ForeignOnlyAfterLink
<1>. QED  BY <1>1, <1>2, <1>3, <1>4, <1>5, <1>6, <1>7, <1>8 DEF R!RNext

-------------------------------------------------------------------------------
(* The sign-up form *)
SF == INSTANCE SignupForm WITH
  Urls <- Names, Slugs <- Ids, MaxEdits <- Bound.edits, MaxApps <- Bound.apps,
  MaxChecks <- Bound.checks, site <- v1, learning <- v2, blocked <- v3, slug <- v4, text <- v5,
  busy <- v6, asked <- v7, checks <- v8, slugStatus <- v9, receipt <- v10, apps <- v11,
  edits <- v12, lacking <- v13, lost <- v14

ASSUME ApplyAssumption ==
  /\ Bound.edits \in Nat /\ Bound.apps \in Nat /\ Bound.checks \in Nat
  /\ "own" \notin Names \cup {None}
  /\ None \notin [slug : Ids, by : {"field", "submit"}]

ApplyInv ==
  /\ SF!TypeOK /\ SF!FormInv
  /\ SF!LearningFitsTheSite /\ SF!TextIsOfTheSite /\ SF!StatusIsOfTheSlug /\ SF!OneOwnerASlug

\* The form is empty at first, and nobody applied.
LEMMA ApplyBegins == SF!SInit => ApplyInv
<1>. SUFFICES ASSUME SF!SInit PROVE ApplyInv
  OBVIOUS
<1>1. /\ v1 = [url |-> None, manual |-> FALSE] /\ v5 = [now |-> None, filled |-> None]
      /\ v11 = <<>> /\ v12 = 0 /\ v7 = {} /\ v8 = {}
      /\ v2 = None /\ v4 = None /\ v9 = None /\ v10 = None
      /\ v3 = FALSE /\ v6 = FALSE /\ v13 = FALSE /\ v14 = FALSE
  BY DEF SF!SInit
<1>2. 0 \in 0..Bound.edits /\ <<>> \in Seq(SF!App) /\ Len(<<>>) = 0 /\ 0 <= Bound.apps /\ DOMAIN v11 = {}
  BY <1>1, ApplyAssumption
<1>3. SF!TypeOK
  BY <1>1, <1>2 DEF SF!TypeOK, SF!Texts
<1>. QED
  BY <1>1, <1>2, <1>3, NullAssumption DEF SF!FormInv, SF!LearningFitsTheSite, SF!Mine, SF!TextIsOfTheSite,
     SF!StatusIsOfTheSlug, SF!OneOwnerASlug, ApplyInv

\* Earlier checks count no more.
LEMMA ApplyUnwanted ==
  ASSUME SF!TypeOK
  PROVE  /\ SF!Unwanted \subseteq [slug : Ids, wanted : BOOLEAN]
         /\ \A c \in SF!Unwanted : ~c.wanted
<1>1. v8 \subseteq [slug : Ids, wanted : BOOLEAN]
  BY DEF SF!TypeOK
<1>2. ASSUME NEW c \in [slug : Ids, wanted : BOOLEAN]
      PROVE  [c EXCEPT !.wanted = FALSE] \in [slug : Ids, wanted : BOOLEAN]
             /\ ~[c EXCEPT !.wanted = FALSE].wanted
  OBVIOUS
<1>. QED  BY <1>1, <1>2 DEF SF!Unwanted

\* An application is stored when its address is free.
LEMMA ApplyOne ==
  ASSUME ApplyInv, NEW n \in SF!App, SF!Apply(n), n.status = "pending"
  PROVE  /\ v11' \in Seq(SF!App) /\ Len(v11') <= Bound.apps /\ SF!OneOwnerASlug'
         /\ \A k \in DOMAIN v11' : (k \in DOMAIN v11 /\ v11'[k] = v11[k]) \/ v11'[k] = n
<1>1. v11 \in Seq(SF!App) /\ v11' = Append(v11, n) /\ Len(v11) < Bound.apps
  BY DEF ApplyInv, SF!TypeOK, SF!Apply
<1>2. /\ v11' \in Seq(SF!App) /\ Len(v11') = Len(v11) + 1 /\ DOMAIN v11' = 1..Len(v11) + 1
      /\ DOMAIN v11 = 1..Len(v11) /\ Len(v11) \in Nat
      /\ v11'[Len(v11) + 1] = n /\ \A k \in 1..Len(v11) : v11'[k] = v11[k]
      /\ \A k \in 1..Len(v11) : v11[k] \in SF!App
  BY <1>1
<1>3. \A k \in DOMAIN v11 : v11[k].slug = n.slug => v11[k].status = "rejected"
  BY <1>1, <1>2 DEF SF!Apply, SF!Taken, SF!App
<1>4. SF!OneOwnerASlug'
  BY <1>2, <1>3 DEF ApplyInv, SF!OneOwnerASlug
<1>. QED  BY <1>1, <1>2, <1>4, ApplyAssumption

\* The form keeps what it promises, in every step.
LEMMA ApplyKeeps == ApplyInv /\ [SF!SNext]_(SF!svars) => ApplyInv'
<1>. SUFFICES ASSUME ApplyInv, [SF!SNext]_(SF!svars) PROVE ApplyInv'
  OBVIOUS
<1>1. ASSUME NEW u \in Names, SF!EditUrl(u) PROVE ApplyInv'
  <2>1. SF!TypeOK'
    BY <1>1, NullAssumption, ApplyAssumption DEF ApplyInv, SF!TypeOK, SF!Texts, SF!Request, SF!App,
        SF!EditUrl, SF!Edit, SF!fields, SF!told
  <2>2. SF!FormInv'
    BY <1>1, NullAssumption, ApplyAssumption DEF ApplyInv, SF!FormInv, SF!TypeOK, SF!Texts,
        SF!Request, SF!LearningFitsTheSite, SF!EditUrl, SF!Edit, SF!fields, SF!told
  <2>3. SF!LearningFitsTheSite'
    BY <1>1, NullAssumption, ApplyAssumption DEF ApplyInv, SF!LearningFitsTheSite, SF!Mine,
        SF!FormInv, SF!TypeOK, SF!App, SF!Request, SF!EditUrl, SF!Edit, SF!fields, SF!told
  <2>4. SF!TextIsOfTheSite'
    BY <1>1, NullAssumption, ApplyAssumption DEF ApplyInv, SF!TextIsOfTheSite, SF!FormInv,
        SF!TypeOK, SF!Texts, SF!EditUrl, SF!Edit, SF!fields, SF!told
  <2>5. SF!StatusIsOfTheSlug'
    BY <1>1, NullAssumption, ApplyAssumption DEF ApplyInv, SF!StatusIsOfTheSlug, SF!FormInv,
        SF!EditUrl, SF!Edit, SF!fields, SF!told
  <2>6. SF!OneOwnerASlug'
    BY <1>1, NullAssumption, ApplyAssumption DEF ApplyInv, SF!OneOwnerASlug, SF!TypeOK, SF!App,
        SF!Taken, SF!EditUrl, SF!Edit, SF!fields, SF!told
  <2>. QED  BY <2>1, <2>2, <2>3, <2>4, <2>5, <2>6 DEF ApplyInv
<1>2. ASSUME SF!ToggleManual PROVE ApplyInv'
  <2>1. SF!TypeOK'
    <3>1. v1 \in [url : Names \cup {None}, manual : BOOLEAN]
      BY DEF ApplyInv, SF!TypeOK
    <3>2. v1' \in [url : Names \cup {None}, manual : BOOLEAN] /\ v3' \in BOOLEAN
      BY <1>2, <3>1 DEF SF!ToggleManual
    <3>3. v12' \in 0..Bound.edits
      BY <1>2, ApplyAssumption DEF ApplyInv, SF!TypeOK, SF!ToggleManual, SF!Edit
    <3>. QED  BY <1>2, <3>2, <3>3 DEF ApplyInv, SF!TypeOK, SF!ToggleManual, SF!told
  <2>2. SF!FormInv'
    BY <1>2, NullAssumption, ApplyAssumption DEF ApplyInv, SF!FormInv, SF!TypeOK, SF!Texts,
        SF!Request, SF!LearningFitsTheSite, SF!ToggleManual, SF!Edit, SF!fields, SF!told
  <2>3. SF!LearningFitsTheSite'
    BY <1>2, NullAssumption, ApplyAssumption DEF ApplyInv, SF!LearningFitsTheSite, SF!Mine,
        SF!FormInv, SF!TypeOK, SF!App, SF!Request, SF!ToggleManual, SF!Edit, SF!fields, SF!told
  <2>4. SF!TextIsOfTheSite'
    BY <1>2, NullAssumption, ApplyAssumption DEF ApplyInv, SF!TextIsOfTheSite, SF!FormInv,
        SF!TypeOK, SF!Texts, SF!ToggleManual, SF!Edit, SF!fields, SF!told
  <2>5. SF!StatusIsOfTheSlug'
    BY <1>2, NullAssumption, ApplyAssumption DEF ApplyInv, SF!StatusIsOfTheSlug, SF!FormInv,
        SF!ToggleManual, SF!Edit, SF!fields, SF!told
  <2>6. SF!OneOwnerASlug'
    BY <1>2, NullAssumption, ApplyAssumption DEF ApplyInv, SF!OneOwnerASlug, SF!TypeOK, SF!App,
        SF!Taken, SF!ToggleManual, SF!Edit, SF!fields, SF!told
  <2>. QED  BY <2>1, <2>2, <2>3, <2>4, <2>5, <2>6 DEF ApplyInv
<1>3. ASSUME SF!Blur PROVE ApplyInv'
  <2>1. SF!TypeOK'
    <3>1. v8' \subseteq [slug : Ids, wanted : BOOLEAN]
      <4>1. v4 \in Ids /\ v8' = SF!Unwanted \cup {[slug |-> v4, wanted |-> TRUE]}
        BY <1>3 DEF ApplyInv, SF!TypeOK, SF!Blur
      <4>2. [slug |-> v4, wanted |-> TRUE] \in [slug : Ids, wanted : BOOLEAN]
        BY <4>1
      <4>3. SF!Unwanted \subseteq [slug : Ids, wanted : BOOLEAN]
        BY ApplyUnwanted DEF ApplyInv
      <4>. QED  BY <4>1, <4>2, <4>3
    <3>. QED  BY <1>3, <3>1 DEF ApplyInv, SF!TypeOK, SF!Blur, SF!fields
  <2>2. SF!FormInv'
    BY <1>3, ApplyUnwanted DEF ApplyInv, SF!FormInv, SF!Blur, SF!fields
  <2>3. SF!LearningFitsTheSite'
    BY <1>3, NullAssumption, ApplyAssumption DEF ApplyInv, SF!LearningFitsTheSite, SF!Mine,
        SF!FormInv, SF!TypeOK, SF!App, SF!Request, SF!Blur, SF!Unwanted, SF!fields, SF!told
  <2>4. SF!TextIsOfTheSite'
    BY <1>3, NullAssumption, ApplyAssumption DEF ApplyInv, SF!TextIsOfTheSite, SF!FormInv,
        SF!TypeOK, SF!Texts, SF!Blur, SF!Unwanted, SF!fields, SF!told
  <2>5. SF!StatusIsOfTheSlug'
    BY <1>3, NullAssumption, ApplyAssumption DEF ApplyInv, SF!StatusIsOfTheSlug, SF!FormInv,
        SF!Blur, SF!Unwanted, SF!fields, SF!told
  <2>6. SF!OneOwnerASlug'
    BY <1>3, NullAssumption, ApplyAssumption DEF ApplyInv, SF!OneOwnerASlug, SF!TypeOK, SF!App,
        SF!Taken, SF!Blur, SF!Unwanted, SF!fields, SF!told
  <2>. QED  BY <2>1, <2>2, <2>3, <2>4, <2>5, <2>6 DEF ApplyInv
<1>4. ASSUME SF!Learn PROVE ApplyInv'
  <2>1. SF!TypeOK'
    BY <1>4, NullAssumption, ApplyAssumption DEF ApplyInv, SF!TypeOK, SF!Texts, SF!Request, SF!App,
        SF!Learn, SF!Edit, SF!Ask, SF!Sent, SF!fields, SF!told
  <2>2. SF!FormInv'
    BY <1>4, NullAssumption, ApplyAssumption DEF ApplyInv, SF!FormInv, SF!TypeOK, SF!Texts,
        SF!Request, SF!LearningFitsTheSite, SF!Learn, SF!Edit, SF!Ask, SF!Sent, SF!fields, SF!told
  <2>3. SF!LearningFitsTheSite'
    BY <1>4, NullAssumption, ApplyAssumption DEF ApplyInv, SF!LearningFitsTheSite, SF!Mine,
        SF!FormInv, SF!TypeOK, SF!App, SF!Request, SF!Learn, SF!Edit, SF!Ask, SF!Sent, SF!fields,
        SF!told
  <2>4. SF!TextIsOfTheSite'
    BY <1>4, NullAssumption, ApplyAssumption DEF ApplyInv, SF!TextIsOfTheSite, SF!FormInv,
        SF!TypeOK, SF!Texts, SF!Learn, SF!Edit, SF!Ask, SF!Sent, SF!fields, SF!told
  <2>5. SF!StatusIsOfTheSlug'
    BY <1>4, NullAssumption, ApplyAssumption DEF ApplyInv, SF!StatusIsOfTheSlug, SF!FormInv,
        SF!Learn, SF!Edit, SF!Ask, SF!Sent, SF!fields, SF!told
  <2>6. SF!OneOwnerASlug'
    BY <1>4, NullAssumption, ApplyAssumption DEF ApplyInv, SF!OneOwnerASlug, SF!TypeOK, SF!App,
        SF!Taken, SF!Learn, SF!Edit, SF!Ask, SF!Sent, SF!fields, SF!told
  <2>. QED  BY <2>1, <2>2, <2>3, <2>4, <2>5, <2>6 DEF ApplyInv
<1>5. ASSUME SF!Submit PROVE ApplyInv'
  <2>1. SF!TypeOK'
    BY <1>5, NullAssumption, ApplyAssumption DEF ApplyInv, SF!TypeOK, SF!Texts, SF!Request, SF!App,
        SF!Submit, SF!Ask, SF!Sent, SF!fields, SF!told
  <2>2. SF!FormInv'
    BY <1>5, NullAssumption, ApplyAssumption DEF ApplyInv, SF!FormInv, SF!TypeOK, SF!Texts,
        SF!Request, SF!LearningFitsTheSite, SF!Submit, SF!Ask, SF!Sent, SF!fields, SF!told
  <2>3. SF!LearningFitsTheSite'
    BY <1>5, NullAssumption, ApplyAssumption DEF ApplyInv, SF!LearningFitsTheSite, SF!Mine,
        SF!FormInv, SF!TypeOK, SF!App, SF!Request, SF!Submit, SF!Ask, SF!Sent, SF!fields, SF!told
  <2>4. SF!TextIsOfTheSite'
    BY <1>5, NullAssumption, ApplyAssumption DEF ApplyInv, SF!TextIsOfTheSite, SF!FormInv,
        SF!TypeOK, SF!Texts, SF!Submit, SF!Ask, SF!Sent, SF!fields, SF!told
  <2>5. SF!StatusIsOfTheSlug'
    BY <1>5, NullAssumption, ApplyAssumption DEF ApplyInv, SF!StatusIsOfTheSlug, SF!FormInv,
        SF!Submit, SF!Ask, SF!Sent, SF!fields, SF!told
  <2>6. SF!OneOwnerASlug'
    BY <1>5, NullAssumption, ApplyAssumption DEF ApplyInv, SF!OneOwnerASlug, SF!TypeOK, SF!App,
        SF!Taken, SF!Submit, SF!Ask, SF!Sent, SF!fields, SF!told
  <2>. QED  BY <2>1, <2>2, <2>3, <2>4, <2>5, <2>6 DEF ApplyInv
<1>6. ASSUME NEW t \in {None, "own"}, SF!EditText(t) PROVE ApplyInv'
  <2>1. SF!TypeOK'
    BY <1>6, NullAssumption, ApplyAssumption DEF ApplyInv, SF!TypeOK, SF!Texts, SF!Request, SF!App,
        SF!EditText, SF!Edit, SF!fields, SF!told
  <2>2. SF!FormInv'
    BY <1>6, NullAssumption, ApplyAssumption DEF ApplyInv, SF!FormInv, SF!TypeOK, SF!Texts,
        SF!Request, SF!LearningFitsTheSite, SF!EditText, SF!Edit, SF!fields, SF!told
  <2>3. SF!LearningFitsTheSite'
    BY <1>6, NullAssumption, ApplyAssumption DEF ApplyInv, SF!LearningFitsTheSite, SF!Mine,
        SF!FormInv, SF!TypeOK, SF!App, SF!Request, SF!EditText, SF!Edit, SF!fields, SF!told
  <2>4. SF!TextIsOfTheSite'
    BY <1>6, NullAssumption, ApplyAssumption DEF ApplyInv, SF!TextIsOfTheSite, SF!FormInv,
        SF!TypeOK, SF!Texts, SF!EditText, SF!Edit, SF!fields, SF!told
  <2>5. SF!StatusIsOfTheSlug'
    BY <1>6, NullAssumption, ApplyAssumption DEF ApplyInv, SF!StatusIsOfTheSlug, SF!FormInv,
        SF!EditText, SF!Edit, SF!fields, SF!told
  <2>6. SF!OneOwnerASlug'
    BY <1>6, NullAssumption, ApplyAssumption DEF ApplyInv, SF!OneOwnerASlug, SF!TypeOK, SF!App,
        SF!Taken, SF!EditText, SF!Edit, SF!fields, SF!told
  <2>. QED  BY <2>1, <2>2, <2>3, <2>4, <2>5, <2>6 DEF ApplyInv
<1>7. ASSUME NEW s \in Ids, SF!EditSlug(s) PROVE ApplyInv'
  <2>1. SF!TypeOK'
    <3>1. v8' \subseteq [slug : Ids, wanted : BOOLEAN] /\ v12' \in 0..Bound.edits
      BY <1>7, ApplyUnwanted, ApplyAssumption DEF ApplyInv, SF!TypeOK, SF!EditSlug, SF!Edit
    <3>. QED  BY <1>7, <3>1 DEF ApplyInv, SF!TypeOK, SF!EditSlug
  <2>2. SF!FormInv'
    BY <1>7, ApplyUnwanted DEF ApplyInv, SF!FormInv, SF!EditSlug
  <2>3. SF!LearningFitsTheSite'
    BY <1>7, NullAssumption, ApplyAssumption DEF ApplyInv, SF!LearningFitsTheSite, SF!Mine,
        SF!FormInv, SF!TypeOK, SF!App, SF!Request, SF!EditSlug, SF!Edit, SF!Unwanted, SF!fields,
        SF!told
  <2>4. SF!TextIsOfTheSite'
    BY <1>7, NullAssumption, ApplyAssumption DEF ApplyInv, SF!TextIsOfTheSite, SF!FormInv,
        SF!TypeOK, SF!Texts, SF!EditSlug, SF!Edit, SF!Unwanted, SF!fields, SF!told
  <2>5. SF!StatusIsOfTheSlug'
    BY <1>7, NullAssumption, ApplyAssumption DEF ApplyInv, SF!StatusIsOfTheSlug, SF!FormInv,
        SF!EditSlug, SF!Edit, SF!Unwanted, SF!fields, SF!told
  <2>6. SF!OneOwnerASlug'
    BY <1>7, NullAssumption, ApplyAssumption DEF ApplyInv, SF!OneOwnerASlug, SF!TypeOK, SF!App,
        SF!Taken, SF!EditSlug, SF!Edit, SF!Unwanted, SF!fields, SF!told
  <2>. QED  BY <2>1, <2>2, <2>3, <2>4, <2>5, <2>6 DEF ApplyInv
<1>8. ASSUME NEW s \in Ids, SF!OtherApplies(s) PROVE ApplyInv'
  <2>. DEFINE n == [slug |-> s, status |-> "pending", mine |-> FALSE,
                    url |-> None, learning |-> None, text |-> None]
  <2>11. n \in SF!App /\ SF!Apply(n) /\ n.status = "pending" /\ ~n.mine
    BY <1>8 DEF SF!OtherApplies, SF!App, SF!Texts
  <2>12. /\ v11' \in Seq(SF!App) /\ Len(v11') <= Bound.apps /\ SF!OneOwnerASlug'
         /\ \A k \in DOMAIN v11' : (k \in DOMAIN v11 /\ v11'[k] = v11[k]) \/ v11'[k] = n
    BY <2>11, ApplyOne
  <2>. HIDE DEF n
  <2>1. SF!TypeOK'
    BY <1>8, <2>12 DEF ApplyInv, SF!TypeOK, SF!OtherApplies, SF!fields, SF!told
  <2>2. SF!FormInv'
    BY <1>8, NullAssumption, ApplyAssumption DEF ApplyInv, SF!FormInv, SF!TypeOK, SF!Texts,
        SF!Request, SF!LearningFitsTheSite, SF!OtherApplies, SF!Apply, SF!fields, SF!told
  <2>3. SF!LearningFitsTheSite'
    BY <1>8, <2>11, <2>12 DEF ApplyInv, SF!LearningFitsTheSite, SF!Mine, SF!OtherApplies, SF!fields
  <2>4. SF!TextIsOfTheSite'
    BY <1>8, NullAssumption, ApplyAssumption DEF ApplyInv, SF!TextIsOfTheSite, SF!FormInv,
        SF!TypeOK, SF!Texts, SF!OtherApplies, SF!Apply, SF!fields, SF!told
  <2>5. SF!StatusIsOfTheSlug'
    BY <1>8, NullAssumption, ApplyAssumption DEF ApplyInv, SF!StatusIsOfTheSlug, SF!FormInv,
        SF!OtherApplies, SF!Apply, SF!fields, SF!told
  <2>6. SF!OneOwnerASlug'
    BY <2>12
  <2>. QED  BY <2>1, <2>2, <2>3, <2>4, <2>5, <2>6 DEF ApplyInv
<1>9. ASSUME NEW k \in DOMAIN v11, NEW status \in {"approved", "rejected"}, SF!Decide(k, status) PROVE ApplyInv'
  <2>11. /\ v11 \in Seq(SF!App) /\ Len(v11) <= Bound.apps /\ v11[k] \in SF!App
         /\ v11' = [v11 EXCEPT ![k] = [v11[k] EXCEPT !.status = status]]
    BY <1>9 DEF ApplyInv, SF!TypeOK, SF!Decide
  <2>12. v11' \in Seq(SF!App) /\ Len(v11') = Len(v11) /\ DOMAIN v11' = DOMAIN v11
    BY <2>11 DEF SF!App
  <2>13. /\ v11'[k].slug = v11[k].slug /\ v11'[k].mine = v11[k].mine /\ v11'[k].url = v11[k].url
         /\ v11'[k].learning = v11[k].learning
         /\ \A j \in DOMAIN v11 \ {k} : v11'[j] = v11[j]
    BY <2>11 DEF SF!App
  <2>1. SF!TypeOK'
    BY <1>9, <2>11, <2>12 DEF ApplyInv, SF!TypeOK, SF!Decide, SF!fields, SF!told
  <2>2. SF!FormInv'
    BY <1>9, NullAssumption, ApplyAssumption DEF ApplyInv, SF!FormInv, SF!TypeOK, SF!Texts,
        SF!Request, SF!LearningFitsTheSite, SF!Decide, SF!fields, SF!told
  <2>3. SF!LearningFitsTheSite'
    BY <1>9, <2>12, <2>13 DEF ApplyInv, SF!LearningFitsTheSite, SF!Mine, SF!Decide, SF!fields
  <2>4. SF!TextIsOfTheSite'
    BY <1>9, NullAssumption, ApplyAssumption DEF ApplyInv, SF!TextIsOfTheSite, SF!FormInv,
        SF!TypeOK, SF!Texts, SF!Decide, SF!fields, SF!told
  <2>5. SF!StatusIsOfTheSlug'
    BY <1>9, NullAssumption, ApplyAssumption DEF ApplyInv, SF!StatusIsOfTheSlug, SF!FormInv,
        SF!Decide, SF!fields, SF!told
  <2>6. SF!OneOwnerASlug'
    <3>1. v11[k].status = "pending"
      BY <1>9 DEF SF!Decide
    <3>. QED  BY <2>12, <2>13, <3>1 DEF ApplyInv, SF!OneOwnerASlug
  <2>. QED  BY <2>1, <2>2, <2>3, <2>4, <2>5, <2>6 DEF ApplyInv
<1>10. ASSUME NEW r \in v7, SF!ServeCheck(r) PROVE ApplyInv'
  <2>1. SF!TypeOK'
    BY <1>10, NullAssumption, ApplyAssumption DEF ApplyInv, SF!TypeOK, SF!Texts, SF!Request,
        SF!App, SF!ServeCheck, SF!Answered, SF!fields, SF!told
  <2>2. SF!FormInv'
    BY <1>10, NullAssumption, ApplyAssumption DEF ApplyInv, SF!FormInv, SF!TypeOK, SF!Texts,
        SF!Request, SF!LearningFitsTheSite, SF!ServeCheck, SF!Answered, SF!fields, SF!told
  <2>3. SF!LearningFitsTheSite'
    BY <1>10, NullAssumption, ApplyAssumption DEF ApplyInv, SF!LearningFitsTheSite, SF!Mine,
        SF!FormInv, SF!TypeOK, SF!App, SF!Request, SF!ServeCheck, SF!Answered, SF!fields, SF!told
  <2>4. SF!TextIsOfTheSite'
    BY <1>10, NullAssumption, ApplyAssumption DEF ApplyInv, SF!TextIsOfTheSite, SF!FormInv,
        SF!TypeOK, SF!Texts, SF!ServeCheck, SF!Answered, SF!fields, SF!told
  <2>5. SF!StatusIsOfTheSlug'
    BY <1>10, NullAssumption, ApplyAssumption DEF ApplyInv, SF!StatusIsOfTheSlug, SF!FormInv,
        SF!ServeCheck, SF!Answered, SF!fields, SF!told
  <2>6. SF!OneOwnerASlug'
    BY <1>10, NullAssumption, ApplyAssumption DEF ApplyInv, SF!OneOwnerASlug, SF!TypeOK, SF!App,
        SF!Taken, SF!ServeCheck, SF!Answered, SF!fields, SF!told
  <2>. QED  BY <2>1, <2>2, <2>3, <2>4, <2>5, <2>6 DEF ApplyInv
<1>11. ASSUME NEW r \in v7, SF!ServePost(r) PROVE ApplyInv'
  <2>. DEFINE n == [slug |-> r.slug, status |-> "pending", mine |-> TRUE,
                    url |-> r.url, learning |-> r.learning, text |-> r.text]
  <2>11. r \in SF!Request /\ r.what = "post"
    BY <1>11 DEF ApplyInv, SF!TypeOK, SF!ServePost
  <2>12. v7' \subseteq v7 \cup {[r EXCEPT !.at = "ok"], [r EXCEPT !.at = "no"]} /\ v14' \in {v14, TRUE}
    BY <1>11 DEF SF!ServePost, SF!Answered
  <2>13. v7' \subseteq SF!Request /\ \A x \in v7' : x \in v7 \/ (x.what = "post" /\ x.learning = r.learning /\ x.url = r.url)
    BY <2>11, <2>12 DEF ApplyInv, SF!TypeOK, SF!Request
  <2>14. /\ v11' \in Seq(SF!App) /\ Len(v11') <= Bound.apps /\ SF!OneOwnerASlug'
         /\ \A k \in DOMAIN v11' :
              \/ k \in DOMAIN v11 /\ v11'[k] = v11[k]
              \/ v11'[k].learning = r.learning /\ v11'[k].url = r.url
    <3>1. CASE r.slug # None /\ SF!Apply(n)
      <4>1. n \in SF!App /\ n.status = "pending" /\ n.learning = r.learning /\ n.url = r.url
        BY <2>11, <3>1 DEF SF!App, SF!Request
      <4>. HIDE DEF n
      <4>. QED  BY <3>1, <4>1, ApplyOne
    <3>2. CASE v11' = v11
      BY <3>2 DEF ApplyInv, SF!TypeOK, SF!OneOwnerASlug
    <3>. QED  BY <1>11, <3>1, <3>2 DEF SF!ServePost
  <2>15. UNCHANGED <<v1, v2, v3, v4, v5, v6, v8, v9, v10, v12, v13>>
    BY <1>11 DEF SF!ServePost, SF!fields, SF!told
  <2>1. SF!TypeOK'
    <3>1. v14' \in BOOLEAN
      BY <2>12 DEF ApplyInv, SF!TypeOK
    <3>. QED  BY <2>13, <2>14, <2>15, <3>1 DEF ApplyInv, SF!TypeOK
  <2>2. SF!FormInv'
    BY <2>11, <2>13, <2>15 DEF ApplyInv, SF!FormInv
  <2>3. SF!LearningFitsTheSite'
    BY <2>11, <2>14, <2>15 DEF ApplyInv, SF!LearningFitsTheSite, SF!Mine, SF!FormInv
  <2>4. SF!TextIsOfTheSite'
    BY <2>15 DEF ApplyInv, SF!TextIsOfTheSite
  <2>5. SF!StatusIsOfTheSlug'
    BY <2>15 DEF ApplyInv, SF!StatusIsOfTheSlug
  <2>6. SF!OneOwnerASlug'
    BY <2>14
  <2>. QED  BY <2>1, <2>2, <2>3, <2>4, <2>5, <2>6 DEF ApplyInv
<1>12. ASSUME NEW r \in v7, SF!OnCheck(r) PROVE ApplyInv'
  <2>. DEFINE l == IF v1.manual THEN None ELSE v2
              n == [SF!Sent("post") EXCEPT !.slug = v4, !.text = v5.now, !.learning = l]
  <2>11. r \in SF!Request /\ r.what = "check"
    BY <1>12 DEF ApplyInv, SF!TypeOK, SF!OnCheck
  <2>12. /\ v1.url \in Names \cup {None} /\ v4 \in Ids \cup {None} /\ v5.now \in SF!Texts
         /\ l \in Names \cup {None} /\ l \in {None, v1.url}
    BY DEF ApplyInv, SF!TypeOK, SF!LearningFitsTheSite
  <2>. HIDE DEF l
  <2>13. n \in SF!Request /\ n.what = "post" /\ n.learning \in {None, n.url}
    BY <2>12 DEF SF!Sent, SF!Request, SF!Texts
  <2>14. v7' \subseteq v7 \cup {n}
    BY <1>12 DEF l, SF!OnCheck, SF!GiveUp
  <2>18. v6' = v6 \/ v6' = FALSE
    BY <1>12 DEF SF!OnCheck, SF!GiveUp
  <2>15. v9' = IF r.at = "no" THEN v9 ELSE [slug |-> r.slug, by |-> "submit"]
    BY <1>12 DEF SF!OnCheck
  <2>16. UNCHANGED <<v1, v2, v3, v4, v5, v8, v10, v11, v12, v13, v14>>
    BY <1>12 DEF SF!OnCheck, SF!fields
  <2>17. r.slug \in Ids
    BY <2>11 DEF ApplyInv, SF!FormInv, SF!Request
  <2>. HIDE DEF n
  <2>1. SF!TypeOK'
    <3>1. v9' \in [slug : Ids, by : {"field", "submit"}] \cup {None}
      BY <2>15, <2>17 DEF ApplyInv, SF!TypeOK
    <3>2. v6' \in BOOLEAN
      BY <2>18 DEF ApplyInv, SF!TypeOK
    <3>. QED  BY <2>13, <2>14, <2>16, <3>1, <3>2 DEF ApplyInv, SF!TypeOK
  <2>2. SF!FormInv'
    BY <2>13, <2>14, <2>16 DEF ApplyInv, SF!FormInv
  <2>3. SF!LearningFitsTheSite'
    BY <2>16 DEF ApplyInv, SF!LearningFitsTheSite, SF!Mine
  <2>4. SF!TextIsOfTheSite'
    BY <2>16 DEF ApplyInv, SF!TextIsOfTheSite
  <2>5. SF!StatusIsOfTheSlug'
    BY <2>15, <2>16 DEF ApplyInv, SF!StatusIsOfTheSlug
  <2>6. SF!OneOwnerASlug'
    BY <2>16 DEF ApplyInv, SF!OneOwnerASlug
  <2>. QED  BY <2>1, <2>2, <2>3, <2>4, <2>5, <2>6 DEF ApplyInv
<1>13. ASSUME NEW r \in v7, SF!OnPost(r) PROVE ApplyInv'
  <2>1. SF!TypeOK'
    <3>1. v7' \subseteq SF!Request /\ v10' \in Ids \cup {None} /\ v6' = FALSE
      BY <1>13 DEF ApplyInv, SF!TypeOK, SF!OnPost, SF!GiveUp, SF!Request
    <3>2. UNCHANGED <<v1, v2, v3, v4, v5, v8, v9, v11, v12, v13, v14>>
      BY <1>13 DEF SF!OnPost, SF!fields
    <3>. QED  BY <3>1, <3>2 DEF ApplyInv, SF!TypeOK
  <2>2. SF!FormInv'
    BY <1>13, NullAssumption, ApplyAssumption DEF ApplyInv, SF!FormInv, SF!TypeOK, SF!Texts,
        SF!Request, SF!LearningFitsTheSite, SF!OnPost, SF!GiveUp, SF!fields, SF!told
  <2>3. SF!LearningFitsTheSite'
    BY <1>13, NullAssumption, ApplyAssumption DEF ApplyInv, SF!LearningFitsTheSite, SF!Mine,
        SF!FormInv, SF!TypeOK, SF!App, SF!Request, SF!OnPost, SF!GiveUp, SF!fields, SF!told
  <2>4. SF!TextIsOfTheSite'
    BY <1>13, NullAssumption, ApplyAssumption DEF ApplyInv, SF!TextIsOfTheSite, SF!FormInv,
        SF!TypeOK, SF!Texts, SF!OnPost, SF!GiveUp, SF!fields, SF!told
  <2>5. SF!StatusIsOfTheSlug'
    BY <1>13, NullAssumption, ApplyAssumption DEF ApplyInv, SF!StatusIsOfTheSlug, SF!FormInv,
        SF!OnPost, SF!GiveUp, SF!fields, SF!told
  <2>6. SF!OneOwnerASlug'
    BY <1>13, NullAssumption, ApplyAssumption DEF ApplyInv, SF!OneOwnerASlug, SF!TypeOK, SF!App,
        SF!Taken, SF!OnPost, SF!GiveUp, SF!fields, SF!told
  <2>. QED  BY <2>1, <2>2, <2>3, <2>4, <2>5, <2>6 DEF ApplyInv
<1>14. ASSUME NEW r \in v7, NEW found \in {"text", "nothing", "failure"}, SF!OnLearn(r, found) PROVE ApplyInv'
  <2>11. r.url \in Names \cup {None}
    BY DEF ApplyInv, SF!TypeOK, SF!Request
  <2>12. v5 \in [now : SF!Texts, filled : Names \cup {None}]
    BY DEF ApplyInv, SF!TypeOK
  <2>13. /\ v7' = v7 \ {r} /\ v6' = FALSE /\ v3' = FALSE
         /\ UNCHANGED <<v1, v4, v8, v9, v10, v11, v12, v14>>
    BY <1>14 DEF SF!OnLearn, SF!told
  <2>14. \/ /\ r.url = v1.url /\ v2' = r.url
            /\ \/ found = "text" /\ SF!Fill(r.url)
               \/ found = "nothing" /\ v5' = v5
            /\ v13' = (found = "nothing" /\ v5.now \in Names \ {r.url})
         \/ UNCHANGED <<v2, v5, v13>>
    BY <1>14 DEF SF!OnLearn
  <2>15. v5' \in [now : SF!Texts, filled : Names \cup {None}]
    BY <2>11, <2>12, <2>14 DEF SF!Fill, SF!Texts
  <2>1. SF!TypeOK'
    <3>1. v13' \in BOOLEAN
      BY <2>14 DEF ApplyInv, SF!TypeOK
    <3>2. v2' \in Names \cup {None}
      BY <2>11, <2>14 DEF ApplyInv, SF!TypeOK
    <3>. QED  BY <2>13, <2>15, <3>1, <3>2 DEF ApplyInv, SF!TypeOK
  <2>2. SF!FormInv'
    BY <2>12, <2>13, <2>14 DEF ApplyInv, SF!FormInv, SF!Fill
  <2>3. SF!LearningFitsTheSite'
    BY <2>13, <2>14 DEF ApplyInv, SF!LearningFitsTheSite, SF!Mine
  <2>4. SF!TextIsOfTheSite'
    <3>1. CASE found = "text" /\ SF!Fill(r.url) /\ v2' = r.url
      BY <2>12, <3>1, ApplyAssumption DEF ApplyInv, SF!TextIsOfTheSite, SF!FormInv, SF!Fill
    <3>2. CASE /\ v2' = r.url /\ v5' = v5 /\ found = "nothing"
               /\ v13' = (found = "nothing" /\ v5.now \in Names \ {r.url})
      BY <3>2 DEF SF!TextIsOfTheSite
    <3>3. CASE UNCHANGED <<v2, v5, v13>>
      BY <3>3 DEF ApplyInv, SF!TextIsOfTheSite
    <3>. QED  BY <2>14, <3>1, <3>2, <3>3
  <2>5. SF!StatusIsOfTheSlug'
    BY <2>13 DEF ApplyInv, SF!StatusIsOfTheSlug
  <2>6. SF!OneOwnerASlug'
    BY <2>13 DEF ApplyInv, SF!OneOwnerASlug
  <2>. QED  BY <2>1, <2>2, <2>3, <2>4, <2>5, <2>6 DEF ApplyInv
<1>15. ASSUME NEW c \in v8, SF!OnField(c) PROVE ApplyInv'
  <2>1. SF!TypeOK'
    BY <1>15, NullAssumption, ApplyAssumption DEF ApplyInv, SF!TypeOK, SF!Texts, SF!Request,
        SF!App, SF!OnField, SF!fields, SF!told
  <2>2. SF!FormInv'
    BY <1>15, NullAssumption, ApplyAssumption DEF ApplyInv, SF!FormInv, SF!TypeOK, SF!Texts,
        SF!Request, SF!LearningFitsTheSite, SF!OnField, SF!fields, SF!told
  <2>3. SF!LearningFitsTheSite'
    BY <1>15, NullAssumption, ApplyAssumption DEF ApplyInv, SF!LearningFitsTheSite, SF!Mine,
        SF!FormInv, SF!TypeOK, SF!App, SF!Request, SF!OnField, SF!fields, SF!told
  <2>4. SF!TextIsOfTheSite'
    BY <1>15, NullAssumption, ApplyAssumption DEF ApplyInv, SF!TextIsOfTheSite, SF!FormInv,
        SF!TypeOK, SF!Texts, SF!OnField, SF!fields, SF!told
  <2>5. SF!StatusIsOfTheSlug'
    BY <1>15, NullAssumption, ApplyAssumption DEF ApplyInv, SF!StatusIsOfTheSlug, SF!FormInv,
        SF!OnField, SF!fields, SF!told
  <2>6. SF!OneOwnerASlug'
    BY <1>15, NullAssumption, ApplyAssumption DEF ApplyInv, SF!OneOwnerASlug, SF!TypeOK, SF!App,
        SF!Taken, SF!OnField, SF!fields, SF!told
  <2>. QED  BY <2>1, <2>2, <2>3, <2>4, <2>5, <2>6 DEF ApplyInv
<1>16. CASE UNCHANGED SF!svars
  BY <1>16 DEF SF!svars, ApplyInv, SF!TypeOK, SF!Texts, SF!Request, SF!App, SF!FormInv,
      SF!LearningFitsTheSite, SF!Mine, SF!TextIsOfTheSite, SF!StatusIsOfTheSlug, SF!OneOwnerASlug,
      SF!Taken
<1>. QED  BY <1>1, <1>2, <1>3, <1>4, <1>5, <1>6, <1>7, <1>8, <1>9, <1>10, <1>11, <1>12, <1>13, <1>14, <1>15, <1>16 DEF
    SF!SNext

\* The size of a set is what it is everywhere.
LEMMA ApplyCounted == \A s : SF!Cardinality(s) = Cardinality(s)
BY DEF SF!Cardinality, Cardinality

\* What is asked is one thing.
LEMMA OnceOne ==
  ASSUME SF!OnceInv, NEW r \in v7
  PROVE  v7 = {r} /\ v6 /\ v10 = None
BY DEF SF!OnceInv

\* A question or an answer that stores nothing and tells nothing.
LEMMA OnceAsks ==
  ASSUME SF!OnceInv, \A r \in v7 : ~SF!Stored(r), v10 = None, UNCHANGED <<v10, v11, v14>>,
         v7' = {} \/ (v6' /\ \E n : v7' = {n} /\ ~SF!Stored(n))
  PROVE  SF!OnceInv'
<1>1. \A r \in v7' : ~SF!Stored(r)
  OBVIOUS
<1>2. (\A q, r \in v7' : q = r) /\ (v7' # {} => v6' /\ v10' = None)
  OBVIOUS
<1>3. SF!Mine' = SF!Mine
  BY DEF SF!Mine
<1>4. ~v14 => SF!Mine = {}
  BY DEF SF!OnceInv
<1>. QED  BY <1>1, <1>2, <1>3, <1>4 DEF SF!OnceInv

\* Applications keep whose they are, and their address; those that come last are of others.
LEMMA OnceOthers ==
  ASSUME SF!OnceInv, UNCHANGED <<v6, v7, v10, v14>>,
         DOMAIN v11 \subseteq DOMAIN v11',
         \A k \in DOMAIN v11 : v11'[k].mine = v11[k].mine /\ v11'[k].slug = v11[k].slug,
         \A k \in DOMAIN v11' : k \notin DOMAIN v11 => ~v11'[k].mine
  PROVE  SF!OnceInv'
<1>1. SF!Mine' = SF!Mine /\ \A k \in SF!Mine : v11'[k].slug = v11[k].slug
  BY DEF SF!Mine
<1>. QED  BY <1>1 DEF SF!OnceInv

\* An application that is stored is the first, and of this form, unless an answer was lost.
LEMMA OnceStores ==
  ASSUME ApplyInv, SF!OnceInv, NEW r \in v7, ~SF!Stored(r), NEW n \in SF!App, v11' = Append(v11, n),
         n.mine = TRUE, n.slug = r.slug, NEW q, v7' = {q}, q.slug = r.slug, q.what = "post",
         v6' = v6, v10' = v10, (q.at = "ok" /\ v14' = v14) \/ (q.at = "no" /\ v14' = TRUE)
  PROVE  SF!OnceInv'
<1>1. v11 \in Seq(SF!App)
  BY DEF ApplyInv, SF!TypeOK
<1>2. /\ Len(v11) \in Nat /\ DOMAIN v11 = 1..Len(v11) /\ DOMAIN v11' = 1..Len(v11) + 1
      /\ v11'[Len(v11) + 1] = n /\ \A k \in 1..Len(v11) : v11'[k] = v11[k]
  BY <1>1
<1>3. SF!Mine' = SF!Mine \cup {Len(v11) + 1}
  BY <1>2 DEF SF!Mine
<1>4. v7 = {r} /\ v6 /\ v10 = None
  BY OnceOne
<1>5. ~v14 => SF!Mine = {}
  BY <1>4 DEF SF!OnceInv
<1>6. ~v14' => SF!Mine' = {Len(v11) + 1} /\ SF!Stored(q)
  BY <1>3, <1>5 DEF SF!Stored
<1>7. SF!Stored(q) => \E k \in SF!Mine' : v11'[k].slug = q.slug
  BY <1>2, <1>3
<1>. QED  BY <1>4, <1>6, <1>7 DEF SF!OnceInv

\* Whenever the form is sent, and whatever is lost, it is answered once.
LEMMA OnceKeeps == ApplyInv /\ SF!OnceInv /\ [SF!SNext]_(SF!svars) => SF!OnceInv'
<1>. SUFFICES ASSUME ApplyInv, SF!OnceInv, [SF!SNext]_(SF!svars) PROVE SF!OnceInv'
  OBVIOUS
<1>t. v7 \subseteq SF!Request /\ v11 \in Seq(SF!App) /\ v6 \in BOOLEAN
  BY DEF ApplyInv, SF!TypeOK
<1>s. ASSUME NEW r \in v7, NEW a \in {"sent", "ok", "taken", "no"}
      PROVE  /\ [r EXCEPT !.at = a].what = r.what /\ [r EXCEPT !.at = a].at = a
             /\ [r EXCEPT !.at = a].slug = r.slug
  BY <1>t DEF SF!Request
<1>1. CASE UNCHANGED <<v6, v7, v10, v11, v14>>
  BY <1>1 DEF SF!OnceInv, SF!Mine
<1>2. CASE \/ \E u \in Names : SF!EditUrl(u)
           \/ SF!ToggleManual \/ SF!Blur
           \/ \E t \in {None, "own"} : SF!EditText(t)
           \/ \E s \in Ids : SF!EditSlug(s)
           \/ \E c \in v8 : SF!OnField(c)
           \/ UNCHANGED SF!svars
  BY <1>1, <1>2 DEF SF!EditUrl, SF!ToggleManual, SF!Blur, SF!EditText, SF!EditSlug, SF!OnField, SF!svars,
     SF!fields, SF!told
<1>3. CASE SF!Learn \/ SF!Submit
  <2>1. v7 = {} /\ v10 = None
    BY <1>3 DEF SF!Learn, SF!Submit, SF!Edit, SF!Open, SF!OnceInv
  <2>2. CASE SF!Learn
    <3>. DEFINE n == SF!Sent("learn")
    <3>1. v7' = {n} /\ v6' = TRUE /\ UNCHANGED <<v10, v11, v14>>
      BY <2>1, <2>2 DEF SF!Learn, SF!Ask, SF!told
    <3>2. ~SF!Stored(n)
      BY DEF SF!Sent, SF!Stored
    <3>. HIDE DEF n
    <3>. QED  BY <2>1, <3>1, <3>2, OnceAsks
  <2>3. CASE SF!Submit
    <3>. DEFINE n == [SF!Sent("check") EXCEPT !.slug = v4]
    <3>1. v7' = {n} /\ v6' = TRUE /\ UNCHANGED <<v10, v11, v14>>
      BY <2>1, <2>3 DEF SF!Submit, SF!Ask, SF!told
    <3>2. ~SF!Stored(n)
      BY DEF SF!Sent, SF!Stored
    <3>. HIDE DEF n
    <3>. QED  BY <2>1, <3>1, <3>2, OnceAsks
  <2>. QED  BY <1>3, <2>2, <2>3
<1>4. ASSUME NEW s \in Ids, SF!OtherApplies(s) PROVE SF!OnceInv'
  <2>. DEFINE n == [slug |-> s, status |-> "pending", mine |-> FALSE, url |-> None, learning |-> None,
                    text |-> None]
  <2>1. v11' = Append(v11, n) /\ UNCHANGED <<v6, v7, v10, v14>> /\ n.mine = FALSE
    BY <1>4 DEF SF!OtherApplies, SF!Apply, SF!told
  <2>. HIDE DEF n
  <2>2. /\ Len(v11) \in Nat /\ DOMAIN v11 = 1..Len(v11) /\ DOMAIN v11' = 1..Len(v11) + 1
        /\ v11'[Len(v11) + 1] = n /\ \A k \in 1..Len(v11) : v11'[k] = v11[k]
    BY <1>t, <2>1
  <2>. QED  BY <2>1, <2>2, OnceOthers
<1>5. ASSUME NEW k \in DOMAIN v11, NEW w \in {"approved", "rejected"}, SF!Decide(k, w) PROVE SF!OnceInv'
  <2>. DEFINE n == [v11[k] EXCEPT !.status = w]
  <2>1. v11' = [v11 EXCEPT ![k] = n] /\ UNCHANGED <<v6, v7, v10, v14>> /\ v11[k] \in SF!App
    BY <1>t, <1>5 DEF SF!Decide, SF!told
  <2>2. n.mine = v11[k].mine /\ n.slug = v11[k].slug
    BY <2>1 DEF SF!App
  <2>. HIDE DEF n
  <2>3. DOMAIN v11' = DOMAIN v11 /\ \A j \in DOMAIN v11 : v11'[j] = IF j = k THEN n ELSE v11[j]
    BY <1>t, <2>1
  <2>. QED  BY <2>1, <2>2, <2>3, OnceOthers
<1>6. ASSUME NEW r \in v7, SF!ServeCheck(r) PROVE SF!OnceInv'
  <2>1. v7 = {r} /\ v6 /\ v10 = None /\ r.what = "check"
    BY <1>6, OnceOne DEF SF!ServeCheck
  <2>2. PICK a \in {"ok", "taken", "no"} : v7' = {[r EXCEPT !.at = a]}
    BY <1>6, <2>1 DEF SF!ServeCheck, SF!Answered
  <2>3. ~SF!Stored([r EXCEPT !.at = a]) /\ ~SF!Stored(r)
    BY <1>s, <2>1 DEF SF!Stored
  <2>. QED  BY <1>6, <2>1, <2>2, <2>3, OnceAsks DEF SF!ServeCheck, SF!told
<1>7. ASSUME NEW r \in v7, SF!ServePost(r) PROVE SF!OnceInv'
  <2>1. v7 = {r} /\ v6 /\ v10 = None /\ r.what = "post" /\ ~SF!Stored(r) /\ UNCHANGED <<v6, v10>>
    BY <1>7, OnceOne DEF SF!ServePost, SF!Stored, SF!told
  <2>2. CASE SF!Answered(r, "no") /\ UNCHANGED <<v11, v14>>
    <3>1. v7' = {[r EXCEPT !.at = "no"]} /\ ~SF!Stored([r EXCEPT !.at = "no"])
      BY <1>s, <2>1, <2>2 DEF SF!Answered, SF!Stored
    <3>. QED  BY <2>1, <2>2, <3>1, OnceAsks
  <2>3. CASE ~(SF!Answered(r, "no") /\ UNCHANGED <<v11, v14>>)
    <3>. DEFINE n == [slug |-> r.slug, status |-> "pending", mine |-> TRUE,
                      url |-> r.url, learning |-> r.learning, text |-> r.text]
    <3>1. r.slug # None /\ v11' = Append(v11, n)
      BY <1>7, <2>3 DEF SF!ServePost, SF!Apply
    <3>2. n \in SF!App /\ n.mine = TRUE /\ n.slug = r.slug
      BY <1>t, <3>1 DEF SF!App, SF!Request
    <3>. HIDE DEF n
    <3>3. PICK a \in {"ok", "no"} : /\ SF!Answered(r, a)
                                    /\ ((a = "ok" /\ v14' = v14) \/ (a = "no" /\ v14' = TRUE))
      BY <1>7, <2>3 DEF SF!ServePost
    <3>. DEFINE q == [r EXCEPT !.at = a]
    <3>4. v7' = {q} /\ q.slug = r.slug /\ q.what = "post" /\ q.at = a
      BY <1>s, <2>1, <3>3 DEF SF!Answered
    <3>. HIDE DEF q
    <3>. QED  BY <2>1, <3>1, <3>2, <3>3, <3>4, OnceStores
  <2>. QED  BY <2>2, <2>3
<1>8. ASSUME NEW r \in v7, SF!OnCheck(r) PROVE SF!OnceInv'
  <2>1. v7 = {r} /\ v6 /\ v10 = None /\ ~SF!Stored(r) /\ UNCHANGED <<v10, v11, v14>>
    BY <1>8, OnceOne DEF SF!OnCheck, SF!Stored
  <2>2. CASE SF!GiveUp(r)
    BY <2>1, <2>2, OnceAsks DEF SF!GiveUp
  <2>3. CASE ~SF!GiveUp(r)
    <3>. DEFINE n == [SF!Sent("post") EXCEPT !.slug = v4, !.text = v5.now,
                                             !.learning = IF v1.manual THEN None ELSE v2]
    <3>1. v7' = {n} /\ v6' = v6
      BY <1>8, <2>1, <2>3 DEF SF!OnCheck
    <3>2. ~SF!Stored(n)
      BY DEF SF!Sent, SF!Stored
    <3>. HIDE DEF n
    <3>. QED  BY <2>1, <3>1, <3>2, OnceAsks
  <2>. QED  BY <2>2, <2>3
<1>9. ASSUME NEW r \in v7, SF!OnPost(r) PROVE SF!OnceInv'
  <2>1. v7 = {r} /\ v6 /\ v10 = None /\ v7' = {} /\ UNCHANGED <<v11, v14>> /\ r.what = "post"
    BY <1>9, OnceOne DEF SF!OnPost, SF!GiveUp
  <2>2. CASE r.at # "ok"
    BY <1>9, <2>1, <2>2, OnceAsks DEF SF!OnPost, SF!Stored
  <2>3. CASE r.at = "ok"
    <3>1. v10' = r.slug /\ SF!Stored(r) /\ SF!Mine' = SF!Mine
      BY <1>9, <2>1, <2>3 DEF SF!OnPost, SF!Stored, SF!Mine
    <3>2. \E k \in SF!Mine : v11[k].slug = r.slug
      BY <3>1 DEF SF!OnceInv
    <3>3. r.slug # None
      <4>1. PICK k \in SF!Mine : v11[k].slug = r.slug
        BY <3>2
      <4>2. v11[k] \in SF!App
        BY <1>t, <4>1 DEF SF!Mine
      <4>3. v11[k].slug \in Ids
        BY <4>2 DEF SF!App
      <4>. QED  BY <4>1, <4>3, NullAssumption
    <3>. QED  BY <2>1, <3>1, <3>2, <3>3 DEF SF!OnceInv
  <2>. QED  BY <2>2, <2>3
<1>10. ASSUME NEW r \in v7, NEW found \in {"text", "nothing", "failure"}, SF!OnLearn(r, found)
       PROVE  SF!OnceInv'
  <2>1. v7 = {r} /\ v10 = None /\ ~SF!Stored(r) /\ v7' = {} /\ UNCHANGED <<v10, v11, v14>>
    BY <1>10, OnceOne DEF SF!OnLearn, SF!Stored, SF!told
  <2>. QED  BY <2>1, OnceAsks
<1>. QED  BY <1>2, <1>3, <1>4, <1>5, <1>6, <1>7, <1>8, <1>9, <1>10 DEF SF!SNext

\* The form, and what it stores.
AppliedInv == ApplyInv /\ SF!OnceInv

\* Nothing was asked.
LEMMA AppliedBegins == SF!SInit => AppliedInv
<1>1. SF!SInit => SF!OnceInv
  BY DEF SF!SInit, SF!OnceInv, SF!Mine
<1>. QED  BY <1>1, ApplyBegins DEF AppliedInv

\* Every step keeps both.
LEMMA AppliedKeeps == AppliedInv /\ [SF!SNext]_(SF!svars) => AppliedInv'
BY ApplyKeeps, OnceKeeps DEF AppliedInv

\* One application is of this form, or an answer was lost, and the receipt is of it.
LEMMA AppliedOnce == AppliedInv => SF!AppliesOnce
<1>. SUFFICES ASSUME AppliedInv PROVE SF!AppliesOnce
  OBVIOUS
<1>. DEFINE t == {k \in SF!Mine : v11[k].status # "rejected"}
<1>1. ASSUME ~v14 PROVE Cardinality(t) = 0 \/ Cardinality(t) = 1
  <2>1. \A j, k \in t : j = k
    BY <1>1 DEF AppliedInv, SF!OnceInv
  <2>. HIDE DEF t
  <2>2. t = {} \/ \E k : t = {k}
    BY <2>1
  <2>. QED  BY <2>2, FS_EmptySet, FS_Singleton
<1>2. ~v14 => ~(Cardinality(t) > 1)
  BY <1>1
<1>3. SF!Cardinality(t) = Cardinality(t)
  BY ApplyCounted
<1>. QED  BY <1>2, <1>3 DEF SF!AppliesOnce, AppliedInv, SF!OnceInv

-------------------------------------------------------------------------------
(* The page of the candidate pool, PoolPage *)
I == INSTANCE PoolPage WITH
  Candidates <- Names, csv <- v1, preview <- v2, busy <- v3, wire <- v4, promised <- v5,
  result <- v6, pool <- v7, mine <- v8, edited <- v9

ASSUME PoolAssumption == None \notin I!Request

\* The pool and its plan.
PoolInv == I!TypeOK /\ I!WireInv /\ I!ToldIsRegistered

\* An empty field has no plan.
LEMMA PoolBegins == I!IInit => PoolInv
BY DEF PoolInv, I!IInit, I!TypeOK, I!WireInv, I!Shown, I!ToldIsRegistered, I!Texts

\* A plan stays of its text, and a registration of its plan, whatever others register and
\* whenever the field is changed.
LEMMA PoolKeeps == PoolInv /\ [I!INext]_(I!ivars) => PoolInv'
<1>. SUFFICES ASSUME PoolInv, [I!INext]_(I!ivars) PROVE PoolInv'
  OBVIOUS
<1>. USE DEF I!Texts
<1>1. ASSUME NEW t \in I!Texts, I!Edit(t) PROVE PoolInv'
  <2>1. I!TypeOK'
    BY <1>1 DEF PoolInv, I!TypeOK, I!Edit
  <2>2. I!WireInv'
    BY <1>1 DEF PoolInv, I!WireInv, I!Shown, I!Edit
  <2>3. I!ToldIsRegistered'
    BY <1>1 DEF PoolInv, I!ToldIsRegistered, I!Edit
  <2>. QED  BY <2>1, <2>2, <2>3 DEF PoolInv
<1>2. ASSUME I!DoPreview PROVE PoolInv'
  <2>10. /\ I!Sent("preview") \in I!Request /\ I!Sent("preview").kind = "preview"
         /\ I!Sent("preview").reply = "open" /\ I!Sent("preview").rows = v1
    BY DEF PoolInv, I!TypeOK, I!Sent, I!Request
  <2>1. I!TypeOK'
    BY <1>2, <2>10 DEF PoolInv, I!TypeOK, I!DoPreview
  <2>2. I!WireInv'
    BY <1>2, <2>10, PoolAssumption DEF PoolInv, I!WireInv, I!Shown, I!DoPreview
  <2>3. I!ToldIsRegistered'
    BY <1>2 DEF PoolInv, I!ToldIsRegistered, I!DoPreview
  <2>. QED  BY <2>1, <2>2, <2>3 DEF PoolInv
<1>3. ASSUME I!DoImport PROVE PoolInv'
  <2>10. /\ I!Sent("import") \in I!Request /\ I!Sent("import").kind = "import"
         /\ I!Sent("import").reply = "open" /\ I!Sent("import").rows = v1
    BY DEF PoolInv, I!TypeOK, I!Sent, I!Request
  <2>1. I!TypeOK'
    BY <1>3, <2>10 DEF PoolInv, I!TypeOK, I!DoImport, I!Plan
  <2>2. I!WireInv'
    BY <1>3, <2>10, PoolAssumption DEF PoolInv, I!WireInv, I!Shown, I!DoImport
  <2>3. I!ToldIsRegistered'
    BY <1>3 DEF PoolInv, I!ToldIsRegistered, I!DoImport
  <2>. QED  BY <2>1, <2>2, <2>3 DEF PoolInv
<1>4. ASSUME I!PreviewCandidates PROVE PoolInv'
  <2>. DEFINE n == [v4 EXCEPT !.reply = "done", !.insert = v4.rows \ v7]
  <2>10. v4 # None /\ v4 \in I!Request /\ v4' = n
    BY <1>4 DEF PoolInv, I!TypeOK, I!PreviewCandidates, I!Replied
  <2>11. /\ n \in I!Request /\ n.kind = v4.kind /\ n.rows = v4.rows /\ n.reply = "done" /\ n.insert = v4.rows \ v7
    BY <2>10 DEF I!Request
  <2>. HIDE DEF n
  <2>1. I!TypeOK'
    BY <1>4, <2>10, <2>11 DEF PoolInv, I!TypeOK, I!PreviewCandidates
  <2>2. I!WireInv'
    BY <1>4, <2>10, <2>11, PoolAssumption DEF PoolInv, I!WireInv, I!Shown, I!PreviewCandidates
  <2>3. I!ToldIsRegistered'
    BY <1>4 DEF PoolInv, I!ToldIsRegistered, I!PreviewCandidates
  <2>. QED  BY <2>1, <2>2, <2>3 DEF PoolInv
<1>5. ASSUME I!ImportCandidates PROVE PoolInv'
  <2>. DEFINE n == [v4 EXCEPT !.reply = "done", !.insert = v4.rows \ v7]
  <2>10. v4 # None /\ v4 \in I!Request /\ v4' = n
    BY <1>5 DEF PoolInv, I!TypeOK, I!ImportCandidates, I!Replied
  <2>11. /\ n \in I!Request /\ n.kind = v4.kind /\ n.rows = v4.rows /\ n.reply = "done" /\ n.insert = v4.rows \ v7
    BY <2>10 DEF I!Request
  <2>. HIDE DEF n
  <2>1. I!TypeOK'
    BY <1>5, <2>10, <2>11 DEF PoolInv, I!TypeOK, I!ImportCandidates, I!Request
  <2>2. I!WireInv'
    BY <1>5, <2>10, <2>11, PoolAssumption DEF PoolInv, I!WireInv, I!Shown, I!ImportCandidates
  <2>3. I!ToldIsRegistered'
    BY <1>5 DEF PoolInv, I!ToldIsRegistered, I!ImportCandidates
  <2>. QED  BY <2>1, <2>2, <2>3 DEF PoolInv
<1>6. ASSUME NEW c \in Names, I!OthersImport(c) PROVE PoolInv'
  <2>1. I!TypeOK'
    BY <1>6 DEF PoolInv, I!TypeOK, I!OthersImport
  <2>2. I!WireInv'
    BY <1>6 DEF PoolInv, I!WireInv, I!Shown, I!OthersImport
  <2>3. I!ToldIsRegistered'
    BY <1>6 DEF PoolInv, I!ToldIsRegistered, I!OthersImport
  <2>. QED  BY <2>1, <2>2, <2>3 DEF PoolInv
<1>7. ASSUME I!LoseRequest PROVE PoolInv'
  <2>. DEFINE n == [v4 EXCEPT !.reply = "failed"]
  <2>10. v4 # None /\ v4 \in I!Request /\ v4' = n
    BY <1>7 DEF PoolInv, I!TypeOK, I!LoseRequest
  <2>11. /\ n \in I!Request /\ n.kind = v4.kind /\ n.rows = v4.rows /\ n.reply = "failed" /\ n.insert = v4.insert
    BY <2>10 DEF I!Request
  <2>. HIDE DEF n
  <2>1. I!TypeOK'
    BY <1>7, <2>10, <2>11 DEF PoolInv, I!TypeOK, I!LoseRequest
  <2>2. I!WireInv'
    BY <1>7, <2>10, <2>11, PoolAssumption DEF PoolInv, I!WireInv, I!Shown, I!LoseRequest
  <2>3. I!ToldIsRegistered'
    BY <1>7 DEF PoolInv, I!ToldIsRegistered, I!LoseRequest
  <2>. QED  BY <2>1, <2>2, <2>3 DEF PoolInv
<1>8. ASSUME I!OnPreview PROVE PoolInv'
  <2>1. I!TypeOK'
    BY <1>8 DEF PoolInv, I!TypeOK, I!OnPreview, I!Plan, I!Request
  <2>2. I!WireInv'
    BY <1>8 DEF PoolInv, I!WireInv, I!Shown, I!OnPreview
  <2>3. I!ToldIsRegistered'
    BY <1>8 DEF PoolInv, I!ToldIsRegistered, I!OnPreview
  <2>. QED  BY <2>1, <2>2, <2>3 DEF PoolInv
<1>9. ASSUME I!OnImport PROVE PoolInv'
  <2>1. I!TypeOK'
    BY <1>9 DEF PoolInv, I!TypeOK, I!OnImport, I!Request
  <2>2. I!WireInv'
    BY <1>9 DEF PoolInv, I!WireInv, I!Shown, I!OnImport, I!Texts
  <2>3. I!ToldIsRegistered'
    BY <1>9 DEF PoolInv, I!ToldIsRegistered, I!OnImport, I!WireInv
  <2>. QED  BY <2>1, <2>2, <2>3 DEF PoolInv
<1>10. CASE UNCHANGED I!ivars
  BY <1>10 DEF I!ivars, PoolInv, I!TypeOK, I!WireInv, I!Shown, I!ToldIsRegistered
<1>. QED  BY <1>1, <1>2, <1>3, <1>4, <1>5, <1>6, <1>7, <1>8, <1>9, <1>10 DEF I!INext

\* The plan on the screen is of the text, when nothing is under way.
LEMMA PoolPlanned == PoolInv => I!PlanIsOfTheText
BY DEF PoolInv, I!WireInv, I!Shown, I!PlanIsOfTheText

\* What a step registers is on the button that was pressed.
LEMMA PoolPromised == PoolInv /\ [I!INext]_(I!ivars) => I!InsertsPromisedRows
<1>. SUFFICES ASSUME PoolInv, [I!INext]_(I!ivars), ~v9, v8' # v8 PROVE v8' \ v8 \subseteq v5
  BY DEF I!InsertsPromisedRows
<1>1. I!ImportCandidates
  BY DEF I!INext, I!ivars, I!Edit, I!DoPreview, I!DoImport, I!PreviewCandidates, I!OthersImport,
     I!LoseRequest, I!OnPreview, I!OnImport
<1>. QED  BY <1>1 DEF PoolInv, I!WireInv, I!ImportCandidates

-------------------------------------------------------------------------------
(* The creator's screens, CreatorScreens *)
CR == INSTANCE CreatorScreens WITH
  MaxPosts <- Bound.posts, kind <- v1, screen <- v2, live <- v3, shown <- v4, typing <- v5,
  asked <- v6, posts <- v7, stored <- v8, had <- v9, why <- v10

ASSUME ScreensAssumption ==
  /\ Bound.posts \in Nat
  /\ None \notin CR!Values \cup CR!Causes \cup CR!Question

\* What the screens show.
ScreensInv == CR!TypeOK /\ CR!StoredInv /\ CR!MockInv

\* The others of the posts are one less, and of the same values.
LEMMA OthersKeepOrder ==
  ASSUME NEW values, NEW s \in Seq(values), NEW k \in DOMAIN s
  PROVE  /\ SubSeq(s, 1, k - 1) \o SubSeq(s, k + 1, Len(s)) \in Seq(values)
         /\ Len(SubSeq(s, 1, k - 1) \o SubSeq(s, k + 1, Len(s))) = Len(s) - 1
<1>1. Len(s) \in Nat /\ k \in 1..Len(s)
  OBVIOUS
<1>2. SubSeq(s, 1, k - 1) \in Seq(values) /\ Len(SubSeq(s, 1, k - 1)) = k - 1
  BY <1>1
<1>3. SubSeq(s, k + 1, Len(s)) \in Seq(values) /\ Len(SubSeq(s, k + 1, Len(s))) = Len(s) - k
  <2>1. CASE k = Len(s)
    BY <1>1, <2>1
  <2>2. CASE k < Len(s)
    BY <1>1, <2>2
  <2>. QED  BY <1>1, <2>1, <2>2
<1>. DEFINE p == SubSeq(s, 1, k - 1)
            q == SubSeq(s, k + 1, Len(s))
<1>4. p \in Seq(values) /\ q \in Seq(values)
  BY <1>2, <1>3
<1>5. Len(p) = k - 1 /\ Len(q) = Len(s) - k
  BY <1>2, <1>3
<1>. HIDE DEF p, q
<1>6. p \o q \in Seq(values) /\ Len(p \o q) = Len(p) + Len(q)
  BY <1>4
<1>7. Len(p \o q) = Len(s) - 1
  BY <1>1, <1>5, <1>6
<1>. QED  BY <1>6, <1>7 DEF p, q

\* The values that are not made up, and those the server may have.
LEMMA RealValues ==
  /\ CR!Real \subseteq CR!Values /\ CR!Real \subseteq CR!Kept /\ CR!Kept \subseteq CR!Values
  /\ {"a", "b"} \subseteq CR!Real /\ "none" \notin CR!Real /\ CR!Kept \ {"none"} \subseteq CR!Real
  /\ "mock" \in CR!Kept => v1 = "field" /\ ~v9
  /\ v1 = "field" /\ ~v9 => "mock" \in CR!Real
  /\ "none" \in CR!Kept => ~v9
BY DEF CR!Real, CR!Kept, CR!Values

\* A post is the last one, and tells why it may not be what is stored.
LEMMA PostAdds ==
  ASSUME CR!TypeOK, CR!MockInv, NEW v, v3 => v \in CR!Real, CR!Post(v)
  PROVE  /\ v7' \in Seq(CR!Values) /\ v7' \in Seq(CR!Real) /\ Len(v7') <= Bound.posts /\ Len(v7') \in Nat
         /\ v10' \in CR!Causes \cup {None} /\ (v7' = <<>> => v7 = <<>>)
         /\ v10' = None => Len(v7') = 1 /\ v7'[1] = v
<1>1. v7 \in Seq(CR!Real) /\ Len(v7) \in Nat /\ Len(v7) <= Bound.posts /\ CR!Real \subseteq CR!Values
  BY RealValues DEF CR!TypeOK, CR!MockInv
<1>2. CASE v3
  <2>1. Len(v7) < Bound.posts /\ v7' = Append(v7, v) /\ v10' = (IF v7 = <<>> THEN None ELSE "crossed")
    BY <1>2 DEF CR!Post
  <2>2. v7' \in Seq(CR!Real) /\ Len(v7') = Len(v7) + 1 /\ v7'[Len(v7) + 1] = v
    BY <1>1, <1>2, <2>1
  <2>3. v7 = <<>> => Len(v7) = 0
    OBVIOUS
  <2>4. v7' # <<>>
    BY <1>1, <2>2
  <2>5. v7' \in Seq(CR!Values)
    BY <1>1, <2>2
  <2>6. "crossed" \in CR!Causes /\ "crossed" # None
    BY ScreensAssumption DEF CR!Causes
  <2>. QED  BY <1>1, <2>1, <2>2, <2>3, <2>4, <2>5, <2>6, ScreensAssumption
<1>3. CASE ~v3
  <2>1. v7' = v7 /\ v10' = "not_live"
    BY <1>3 DEF CR!Post
  <2>2. "not_live" \in CR!Causes /\ "not_live" # None
    BY ScreensAssumption DEF CR!Causes
  <2>. QED  BY <1>1, <2>1, <2>2
<1>. QED  BY <1>2, <1>3

\* Nothing is asked before a screen is open.
LEMMA ScreensBegin == CR!RInit => ScreensInv
<1>. SUFFICES ASSUME CR!RInit PROVE ScreensInv
  OBVIOUS
<1>1. v7 = <<>> /\ v7 \in Seq(CR!Values) /\ v7 \in Seq(CR!Real) /\ Len(v7) <= Bound.posts
  BY ScreensAssumption DEF CR!RInit
<1>2. v8 \in CR!Kept /\ v8 \in CR!Values /\ v9 \in BOOLEAN
  BY DEF CR!RInit, CR!Kept, CR!Real, CR!Values
<1>3. CR!TypeOK
  BY <1>1, <1>2 DEF CR!RInit, CR!TypeOK, CR!Values, CR!Causes
<1>. QED  BY <1>1, <1>2, <1>3, ScreensAssumption DEF ScreensInv, CR!RInit, CR!StoredInv, CR!MockInv, CR!Read, CR!Causes

\* However the screens are left and come back to, and whatever crosses or fails, what is shown
\* without a cause is stored, and a made-up value is not.
LEMMA ScreensKeep == ScreensInv /\ [CR!RNext]_(CR!rvars) => ScreensInv'
<1>. SUFFICES ASSUME ScreensInv, [CR!RNext]_(CR!rvars) PROVE ScreensInv'
  OBVIOUS
<1>1. ASSUME CR!Open PROVE ScreensInv'
  <2>r. CR!Real' = CR!Real /\ CR!Kept' = CR!Kept
    BY <1>1 DEF CR!Real, CR!Kept, CR!Open
  <2>t. /\ v4 \in CR!Values /\ v8 \in CR!Values /\ v10 \in CR!Causes \cup {None}
        /\ v6 \in {None} \cup CR!Question /\ v7 \in Seq(CR!Values) /\ Len(v7) \in Nat
    BY DEF ScreensInv, CR!TypeOK
  <2>. DEFINE n == [value |-> None, behind |-> FALSE]
  <2>10. ~v2 /\ v6' = n
    BY <1>1 DEF ScreensInv, CR!TypeOK, CR!Open
  <2>11. n \in CR!Question /\ n # None /\ n.value = None /\ n.behind = FALSE
    <3>1. n \in CR!Question
      BY <2>t DEF CR!Question
    <3>. QED  BY <3>1, ScreensAssumption
  <2>. HIDE DEF n
  <2>1. CR!TypeOK'
    BY <1>1, <2>t, <2>10, <2>11, ScreensAssumption DEF ScreensInv, CR!TypeOK, CR!Open, CR!Causes, CR!Values
  <2>2. CR!StoredInv'
    BY <1>1, <2>t, <2>10, <2>11, ScreensAssumption DEF ScreensInv, CR!StoredInv, CR!OnShow, CR!Read, CR!Open, CR!Causes, CR!Values
  <2>3. CR!MockInv'
    BY <1>1, <2>r, <2>t, <2>10, <2>11, ScreensAssumption DEF ScreensInv, CR!MockInv, CR!Read, CR!Open, CR!Values
  <2>. QED  BY <2>1, <2>2, <2>3 DEF ScreensInv
<1>2. ASSUME CR!Leave PROVE ScreensInv'
  <2>r. CR!Real' = CR!Real /\ CR!Kept' = CR!Kept
    BY <1>2 DEF CR!Real, CR!Kept, CR!Leave
  <2>1. CR!TypeOK'
    BY <1>2, <2>r, ScreensAssumption DEF ScreensInv, CR!TypeOK, CR!Leave
  <2>2. CR!StoredInv'
    BY <1>2, ScreensAssumption DEF ScreensInv, CR!StoredInv, CR!Leave, CR!OnShow, CR!Read
  <2>3. CR!MockInv'
    BY <1>2, <2>r DEF ScreensInv, CR!MockInv, CR!Leave, CR!Read
  <2>. QED  BY <2>1, <2>2, <2>3 DEF ScreensInv
<1>3. ASSUME CR!ReadList PROVE ScreensInv'
  <2>r. CR!Real' = CR!Real /\ CR!Kept' = CR!Kept
    BY <1>3 DEF CR!Real, CR!Kept, CR!ReadList
  <2>t. /\ v4 \in CR!Values /\ v8 \in CR!Values /\ v10 \in CR!Causes \cup {None}
        /\ v6 \in {None} \cup CR!Question /\ v7 \in Seq(CR!Values) /\ Len(v7) \in Nat
    BY DEF ScreensInv, CR!TypeOK
  <2>. DEFINE n == [value |-> v8, behind |-> FALSE]
  <2>10. v6 # None /\ v6.value = None /\ v6' = n
    BY <1>3 DEF ScreensInv, CR!TypeOK, CR!ReadList, CR!Read
  <2>11. n \in CR!Question /\ n # None /\ n.value = v8 /\ n.behind = FALSE
    <3>1. n \in CR!Question
      BY <2>t DEF CR!Question
    <3>. QED  BY <3>1, ScreensAssumption
  <2>. HIDE DEF n
  <2>1. CR!TypeOK'
    BY <1>3, <2>t, <2>10, <2>11, ScreensAssumption DEF ScreensInv, CR!TypeOK, CR!ReadList, CR!Causes, CR!Values
  <2>2. CR!StoredInv'
    BY <1>3, <2>t, <2>10, <2>11, ScreensAssumption DEF ScreensInv, CR!StoredInv, CR!OnShow, CR!Read, CR!ReadList, CR!Causes, CR!Values
  <2>3. CR!MockInv'
    BY <1>3, <2>r, <2>t, <2>10, <2>11, ScreensAssumption DEF ScreensInv, CR!MockInv, CR!Read, CR!ReadList, CR!Values
  <2>. QED  BY <2>1, <2>2, <2>3 DEF ScreensInv
<1>4. ASSUME CR!Load PROVE ScreensInv'
  <2>r. CR!Real' = CR!Real /\ CR!Kept' = CR!Kept
    BY <1>4 DEF CR!Real, CR!Kept, CR!Load
  <2>t. /\ v4 \in CR!Values /\ v8 \in CR!Values /\ v10 \in CR!Causes \cup {None}
        /\ v6 \in {None} \cup CR!Question /\ v7 \in Seq(CR!Values) /\ Len(v7) \in Nat
    BY DEF ScreensInv, CR!TypeOK
  <2>1a. /\ v6 # None /\ v6.value # None /\ v6.value \in CR!Values /\ v6.behind \in BOOLEAN /\ v6.value \in CR!Kept
         /\ v3' = TRUE /\ v6' = None /\ UNCHANGED <<v1, v2, v5, v7, v8, v9>>
    BY <1>4, <2>t DEF CR!Load, CR!Read, CR!Question, ScreensInv, CR!MockInv
  <2>2a. \/ v1 = "locale" /\ v4' = v4 /\ v10' = v10
         \/ v1 = "field" /\ v6.value = "none" /\ v10' = "not_live" /\ v4' = v4
         \/ /\ v1 # "locale" /\ ~(v1 = "field" /\ v6.value = "none") /\ v4' = v6.value
            /\ v10' = IF v7 # <<>> \/ v6.behind THEN "covered" ELSE None
    BY <1>4 DEF CR!Load
  <2>3a. "covered" # None /\ "not_live" # None /\ {"covered", "not_live"} \subseteq CR!Causes
    BY ScreensAssumption DEF CR!Causes
  <2>1. CR!TypeOK'
    BY <2>t, <2>1a, <2>2a, <2>3a DEF ScreensInv, CR!TypeOK
  <2>2. CR!StoredInv'
    BY <2>1a, <2>2a, <2>3a DEF ScreensInv, CR!StoredInv, CR!OnShow, CR!Read
  <2>3. CR!MockInv'
    <3>1. v1 = "field" /\ v6.value = "none" => v4 \in CR!Real
      BY <2>t, <2>1a, RealValues DEF ScreensInv, CR!MockInv, CR!Values
    <3>2. v1 = "field" /\ v6.value # "none" => v6.value \in CR!Real
      BY <2>1a, RealValues
    <3>. QED  BY <2>r, <2>1a, <2>2a, <3>1, <3>2, RealValues DEF ScreensInv, CR!MockInv, CR!Read
  <2>. QED  BY <2>1, <2>2, <2>3 DEF ScreensInv
<1>5. ASSUME CR!LoadFails PROVE ScreensInv'
  <2>r. CR!Real' = CR!Real /\ CR!Kept' = CR!Kept
    BY <1>5 DEF CR!Real, CR!Kept, CR!LoadFails
  <2>1. CR!TypeOK'
    BY <1>5, <2>r, ScreensAssumption DEF ScreensInv, CR!TypeOK, CR!LoadFails
  <2>2. CR!StoredInv'
    BY <1>5, ScreensAssumption DEF ScreensInv, CR!StoredInv, CR!LoadFails, CR!OnShow, CR!Read
  <2>3. CR!MockInv'
    BY <1>5, <2>r DEF ScreensInv, CR!MockInv, CR!LoadFails, CR!Read
  <2>. QED  BY <2>1, <2>2, <2>3 DEF ScreensInv
<1>6. ASSUME NEW v \in {"a", "b"}, CR!Choose(v) PROVE ScreensInv'
  <2>r. CR!Real' = CR!Real /\ CR!Kept' = CR!Kept
    BY <1>6 DEF CR!Real, CR!Kept, CR!Choose
  <2>t. /\ v4 \in CR!Values /\ v8 \in CR!Values /\ v10 \in CR!Causes \cup {None}
        /\ v6 \in {None} \cup CR!Question /\ v7 \in Seq(CR!Values) /\ Len(v7) \in Nat
    BY DEF ScreensInv, CR!TypeOK
  <2>1a. /\ v4' = v /\ CR!Post(v) /\ v2 /\ UNCHANGED <<v1, v2, v3, v5, v6, v8, v9>>
         /\ v \in CR!Real /\ v \in CR!Values /\ v1 # "field"
    BY <1>6, RealValues DEF CR!Choose, CR!Offered, ScreensInv, CR!MockInv
  <2>2a. /\ v7' \in Seq(CR!Values) /\ v7' \in Seq(CR!Real) /\ Len(v7') <= Bound.posts /\ Len(v7') \in Nat
         /\ v10' \in CR!Causes \cup {None} /\ (v7' = <<>> => v7 = <<>>)
         /\ v10' = None => Len(v7') = 1 /\ v7'[1] = v
    BY <2>t, <2>1a, PostAdds DEF ScreensInv, CR!TypeOK, CR!MockInv
  <2>1. CR!TypeOK'
    BY <2>t, <2>1a, <2>2a, RealValues, ScreensAssumption DEF ScreensInv, CR!TypeOK, CR!Causes
  <2>2. CR!StoredInv'
    BY <2>t, <2>1a, <2>2a, ScreensAssumption DEF ScreensInv, CR!StoredInv, CR!OnShow, CR!Read, CR!Causes
  <2>3. CR!MockInv'
    BY <2>r, <2>t, <2>1a, <2>2a, RealValues DEF ScreensInv, CR!MockInv, CR!Read
  <2>. QED  BY <2>1, <2>2, <2>3 DEF ScreensInv
<1>7. ASSUME NEW v \in {"a", "b"}, CR!Type(v) PROVE ScreensInv'
  <2>r. CR!Real' = CR!Real /\ CR!Kept' = CR!Kept
    BY <1>7 DEF CR!Real, CR!Kept, CR!Type
  <2>1. CR!TypeOK'
    BY <1>7 DEF ScreensInv, CR!TypeOK, CR!Type, CR!Values
  <2>2. CR!StoredInv'
    BY <1>7 DEF ScreensInv, CR!StoredInv, CR!Type, CR!OnShow, CR!Read
  <2>3. CR!MockInv'
    BY <1>7, <2>r, RealValues DEF ScreensInv, CR!MockInv, CR!Type, CR!Read
  <2>. QED  BY <2>1, <2>2, <2>3 DEF ScreensInv
<1>8. ASSUME CR!Blur PROVE ScreensInv'
  <2>r. CR!Real' = CR!Real /\ CR!Kept' = CR!Kept
    BY <1>8 DEF CR!Real, CR!Kept, CR!Blur
  <2>t. /\ v4 \in CR!Values /\ v8 \in CR!Values /\ v10 \in CR!Causes \cup {None}
        /\ v6 \in {None} \cup CR!Question /\ v7 \in Seq(CR!Values) /\ Len(v7) \in Nat
    BY DEF ScreensInv, CR!TypeOK
  <2>1a. /\ v1 = "field" /\ v2 /\ v5' = FALSE /\ CR!Post(v4) /\ UNCHANGED <<v1, v2, v3, v4, v6, v8, v9>>
         /\ v3 => v4 \in CR!Real
    BY <1>8, <2>t DEF CR!Blur, ScreensInv, CR!MockInv
  <2>2a. /\ v7' \in Seq(CR!Values) /\ v7' \in Seq(CR!Real) /\ Len(v7') <= Bound.posts /\ Len(v7') \in Nat
         /\ v10' \in CR!Causes \cup {None} /\ (v7' = <<>> => v7 = <<>>)
         /\ v10' = None => Len(v7') = 1 /\ v7'[1] = v4
    BY <2>t, <2>1a, PostAdds DEF ScreensInv, CR!TypeOK, CR!MockInv
  <2>1. CR!TypeOK'
    BY <2>t, <2>1a, <2>2a, RealValues, ScreensAssumption DEF ScreensInv, CR!TypeOK, CR!Causes
  <2>2. CR!StoredInv'
    BY <2>t, <2>1a, <2>2a, ScreensAssumption DEF ScreensInv, CR!StoredInv, CR!OnShow, CR!Read, CR!Causes
  <2>3. CR!MockInv'
    BY <2>r, <2>t, <2>1a, <2>2a, RealValues DEF ScreensInv, CR!MockInv, CR!Read
  <2>. QED  BY <2>1, <2>2, <2>3 DEF ScreensInv
<1>9. ASSUME NEW k \in DOMAIN v7, CR!Arrive(k) PROVE ScreensInv'
  <2>r. CR!Real' = CR!Real /\ CR!Kept' = CR!Kept
    BY <1>9 DEF CR!Real, CR!Kept, CR!Arrive
  <2>t. /\ v4 \in CR!Values /\ v8 \in CR!Values /\ v10 \in CR!Causes \cup {None}
        /\ v6 \in {None} \cup CR!Question /\ v7 \in Seq(CR!Values) /\ Len(v7) \in Nat
    BY DEF ScreensInv, CR!TypeOK
  <2>1a. /\ v8' = v7[k] /\ v7' = CR!Without(v7, k) /\ UNCHANGED <<v1, v2, v3, v4, v5, v9, v10>>
         /\ v7[k] \in CR!Real
    BY <1>9 DEF CR!Arrive, ScreensInv, CR!MockInv
  <2>2a. /\ v7' \in Seq(CR!Values) /\ v7' \in Seq(CR!Real) /\ Len(v7') = Len(v7) - 1 /\ (v7' = <<>> <=> Len(v7') = 0)
    BY <2>t, <2>1a, OthersKeepOrder DEF ScreensInv, CR!MockInv, CR!Without
  <2>3a. /\ v6' \in {None} \cup CR!Question /\ (v6' # None <=> v6 # None)
         /\ v6 # None => v6'.value = v6.value /\ (v6.value # None => v6'.behind)
    <3>1. CASE ~CR!Read
      BY <2>t, <3>1, <1>9 DEF CR!Arrive, CR!Read
    <3>2. CASE CR!Read
      <4>. DEFINE n == [v6 EXCEPT !.behind = TRUE]
      <4>1. v6' = n /\ v6 \in CR!Question
        BY <2>t, <3>2, <1>9 DEF CR!Arrive, CR!Read
      <4>2. n \in CR!Question /\ n.value = v6.value /\ n.behind = TRUE
        BY <4>1 DEF CR!Question
      <4>. HIDE DEF n
      <4>. QED  BY <3>2, <4>1, <4>2, ScreensAssumption DEF CR!Read
    <3>. QED  BY <3>1, <3>2
  <2>4a. Len(v7) = 1 => k = 1
    OBVIOUS
  <2>1. CR!TypeOK'
    BY <2>t, <2>1a, <2>2a, <2>3a, <2>4a, RealValues, ScreensAssumption DEF ScreensInv, CR!TypeOK, CR!Causes
  <2>2. CR!StoredInv'
    BY <2>t, <2>1a, <2>2a, <2>3a, <2>4a, ScreensAssumption DEF ScreensInv, CR!StoredInv, CR!OnShow, CR!Read, CR!Causes
  <2>3. CR!MockInv'
    BY <2>r, <2>t, <2>1a, <2>2a, <2>3a, <2>4a, RealValues DEF ScreensInv, CR!MockInv, CR!Read
  <2>. QED  BY <2>1, <2>2, <2>3 DEF ScreensInv
<1>10. ASSUME NEW k \in DOMAIN v7, CR!Fail(k) PROVE ScreensInv'
  <2>r. CR!Real' = CR!Real /\ CR!Kept' = CR!Kept
    BY <1>10 DEF CR!Real, CR!Kept, CR!Fail
  <2>t. /\ v4 \in CR!Values /\ v8 \in CR!Values /\ v10 \in CR!Causes \cup {None}
        /\ v6 \in {None} \cup CR!Question /\ v7 \in Seq(CR!Values) /\ Len(v7) \in Nat
    BY DEF ScreensInv, CR!TypeOK
  <2>1a. /\ v7' = CR!Without(v7, k) /\ v10' = "failed" /\ UNCHANGED <<v1, v2, v3, v4, v5, v6, v8, v9>>
    BY <1>10 DEF CR!Fail
  <2>2a. /\ v7' \in Seq(CR!Values) /\ v7' \in Seq(CR!Real) /\ Len(v7') = Len(v7) - 1
    BY <2>t, <2>1a, OthersKeepOrder DEF ScreensInv, CR!MockInv, CR!Without
  <2>1. CR!TypeOK'
    BY <2>t, <2>1a, <2>2a, RealValues, ScreensAssumption DEF ScreensInv, CR!TypeOK, CR!Causes
  <2>2. CR!StoredInv'
    BY <2>t, <2>1a, <2>2a, ScreensAssumption DEF ScreensInv, CR!StoredInv, CR!OnShow, CR!Read, CR!Causes
  <2>3. CR!MockInv'
    BY <2>r, <2>t, <2>1a, <2>2a, RealValues DEF ScreensInv, CR!MockInv, CR!Read
  <2>. QED  BY <2>1, <2>2, <2>3 DEF ScreensInv
<1>11. CASE UNCHANGED CR!rvars
  BY <1>11 DEF CR!rvars, ScreensInv, CR!TypeOK, CR!StoredInv, CR!MockInv, CR!Read, CR!OnShow,
      CR!Real, CR!Kept
<1>. QED  BY <1>1, <1>2, <1>3, <1>4, <1>5, <1>6, <1>7, <1>8, <1>9, <1>10, <1>11 DEF CR!RNext

\* A screen without a cause to differ shows what is stored, and nothing made up is stored
\* where the server had a value.
LEMMA ScreensTell == ScreensInv => CR!ShownIsStored /\ CR!MockStaysOnThePage
<1>. SUFFICES ASSUME ScreensInv PROVE CR!ShownIsStored /\ CR!MockStaysOnThePage
  OBVIOUS
<1>1. v7 = <<>> => Len(v7) = 0
  OBVIOUS
<1>2. CR!ShownIsStored
  BY <1>1 DEF ScreensInv, CR!StoredInv, CR!OnShow, CR!ShownIsStored
<1>. QED  BY <1>2, RealValues DEF ScreensInv, CR!MockInv, CR!MockStaysOnThePage

-------------------------------------------------------------------------------
(* The console's forms, ConsoleForms *)
CF == INSTANCE ConsoleForms WITH
  MaxTexts <- Bound.texts, MaxLoads <- Bound.cards, MaxAsked <- Bound.asked, card <- v1,
  made <- v2, stored <- v3, version <- v4, latest <- v5, shown <- v6, field <- v7, wire <- v8,
  raced <- v9

ASSUME FormsAssumption == Bound.texts \in Nat /\ Bound.cards \in Nat /\ None \notin Nat

\* The cards and their requests.
FormsInv ==
  /\ CF!TypeOK /\ CF!CountInv /\ CF!ValueInv /\ CF!LoadInv /\ CF!UpInv /\ CF!NewerInv

\* A set with one more has at most one more.
LEMMA OneMoreAtMost ==
  ASSUME NEW those, IsFiniteSet(those), NEW x
  PROVE  /\ IsFiniteSet(those \cup {x}) /\ Cardinality(those) \in Nat /\ Cardinality(those \cup {x}) \in Nat
         /\ Cardinality(those \cup {x}) <= Cardinality(those) + 1
<1>1. IsFiniteSet(those \cup {x}) /\ Cardinality(those) \in Nat
  BY FS_AddElement, FS_CardinalityType
<1>2. Cardinality(those \cup {x}) \in Nat
  BY <1>1, FS_CardinalityType
<1>. QED  BY <1>1, <1>2, FS_AddElement

\* Requests are counted the same in this module and in ConsoleForms.
LEMMA FormsCounted == \A s : CF!Cardinality(s) = Cardinality(s) /\ (CF!IsFiniteSet(s) <=> IsFiniteSet(s))
BY DEF CF!Cardinality, Cardinality, CF!IsFiniteSet, IsFiniteSet

\* The fields of a request.
LEMMA FormsTyped ==
  ASSUME CF!TypeOK
  PROVE  /\ v2 \in Nat /\ v3 \in Nat /\ v4 \in Nat /\ v5 \in Nat /\ v5 <= v4
         /\ v6 \in Nat \cup {None} /\ v7 \in Nat \cup {None}
         /\ \A r \in v8 : /\ r \in CF!Request /\ r.what \in {"load", "save"} /\ r.n \in Nat
                          /\ r.value \in CF!Values \cup {None} /\ r.value \in Nat \cup {None}
                          /\ r.at \in {"sent", "ok", "no"}
BY FormsAssumption DEF CF!TypeOK, CF!Request, CF!Values

\* A request that was served, refused or lost is the same one.
LEMMA FormsReplied ==
  ASSUME CF!TypeOK, NEW r \in v8, NEW at \in {"ok", "no"}, NEW value \in CF!Values \cup {None},
         CF!Becomes(r, at, value)
  PROVE  \E n \in CF!Request : /\ v8' = (v8 \ {r}) \cup {n}
                               /\ n.what = r.what /\ n.n = r.n /\ n.at = at /\ n.value = value
<1>. DEFINE n == [r EXCEPT !.at = at, !.value = value]
<1>1. n \in CF!Request /\ n.what = r.what /\ n.n = r.n /\ n.at = at /\ n.value = value
  BY DEF CF!TypeOK, CF!Request
<1>2. v8' = (v8 \ {r}) \cup {n}
  BY DEF CF!Becomes
<1>. HIDE DEF n
<1>. QED  BY <1>1, <1>2

\* The card is asked for, by the user or after a save.
LEMMA FormsAsk ==
  ASSUME FormsInv, NEW others, CF!Ask(others), UNCHANGED <<v1, v2, v3, v5, v9>>,
         \/ others = v8 /\ v4 + Cardinality(CF!Saves) < Bound.cards
         \/ \E r \in v8 : r.what = "save" /\ others = v8 \ {r}
  PROVE  FormsInv'
<1>. DEFINE n == [what |-> "load", n |-> v4 + 1, value |-> None, at |-> "sent"]
<1>1. v4' = v4 + 1 /\ v8' = others \cup {n} /\ IsFiniteSet(v8) /\ v4 \in Nat /\ v5 \in Nat /\ v5 <= v4
  BY FormsTyped, FormsCounted DEF FormsInv, CF!Ask, CF!CountInv
<1>2. n \in CF!Request /\ n.what = "load" /\ n.n = v4 + 1 /\ n.value = None /\ n.at = "sent"
  BY <1>1 DEF CF!Request
<1>3. (v6' = None /\ v7' = None /\ CF!Counts) \/ (v6' = v6 /\ v7' = v7 /\ ~CF!Counts)
  BY DEF CF!Ask
<1>. HIDE DEF n
<1>4. others \subseteq v8 /\ CF!Saves' \subseteq CF!Saves /\ CF!Loads' = CF!Loads \cup {n}
  BY <1>1, <1>2 DEF CF!Saves, CF!Loads
<1>5. IsFiniteSet(v8') /\ v4' + Cardinality(CF!Saves)' <= Bound.cards
  <2>1. IsFiniteSet(v8') /\ IsFiniteSet(CF!Saves) /\ Cardinality(CF!Saves) \in Nat /\ CF!Saves \subseteq v8
    BY <1>1, <1>4, FS_Subset, FS_AddElement, FS_CardinalityType DEF CF!Saves
  <2>2. CASE others = v8 /\ v4 + Cardinality(CF!Saves) < Bound.cards
    BY <1>1, <1>4, <2>1, <2>2, FS_Subset, FS_CardinalityType, FormsAssumption
  <2>3. ASSUME NEW r \in v8, r.what = "save", others = v8 \ {r} PROVE v4' + Cardinality(CF!Saves)' <= Bound.cards
    <3>1. r \in CF!Saves /\ CF!Saves' \subseteq CF!Saves \ {r}
      BY <1>1, <1>2, <2>3 DEF CF!Saves
    <3>2. Cardinality(CF!Saves \ {r}) = Cardinality(CF!Saves) - 1 /\ IsFiniteSet(CF!Saves \ {r})
      BY <2>1, <3>1, FS_RemoveElement
    <3>3. Cardinality(CF!Saves') <= Cardinality(CF!Saves) - 1 /\ Cardinality(CF!Saves') \in Nat
      BY <3>1, <3>2, FS_Subset, FS_CardinalityType
    <3>4. v4 + Cardinality(CF!Saves) <= Bound.cards
      BY FormsCounted DEF FormsInv, CF!CountInv
    <3>. QED  BY <1>1, <2>1, <3>3, <3>4, FormsAssumption
  <2>. QED  BY <2>1, <2>2, <2>3
<1>6. CF!CountInv'
  BY <1>5, FormsCounted DEF CF!CountInv
<1>7. CF!TypeOK'
  <2>1. v4' \in 0..Bound.cards
    <3>1. IsFiniteSet(CF!Saves')
      BY <1>5, FS_Subset DEF CF!Saves
    <3>. QED  BY <1>1, <1>5, <3>1, FS_CardinalityType, FormsAssumption
  <2>2. v8' \subseteq CF!Request
    BY <1>1, <1>2, <1>4 DEF FormsInv, CF!TypeOK
  <2>. QED  BY <1>1, <1>3, <2>1, <2>2 DEF FormsInv, CF!TypeOK
<1>8. CF!Counts' = CF!Counts /\ CF!Behind' = CF!Behind
  BY DEF CF!Counts, CF!Behind
<1>9. CF!ValueInv'
  BY <1>1, <1>2, <1>3, <1>4, <1>8 DEF FormsInv, CF!ValueInv
<1>10. CF!LoadInv'
  BY <1>1, <1>2, <1>4, FormsTyped DEF FormsInv, CF!LoadInv, CF!Loads
<1>11. CF!UpInv'
  <2>1. n \in CF!Loads' /\ n.n = v4' /\ n.at # "ok"
    BY <1>1, <1>2, <1>4
  <2>2. CASE ~CF!Counts
    BY <1>8, <2>1, <2>2 DEF CF!UpInv
  <2>3. CASE CF!Counts
    <3>1. \A s \in CF!Loads' : s.n = v4' => s.at # "ok"
      BY <1>1, <1>2, <1>4, FormsTyped DEF FormsInv, CF!LoadInv, CF!Loads
    <3>. QED  BY <1>3, <1>8, <2>3, <3>1 DEF CF!UpInv, CF!Tells
  <2>. QED  BY <2>2, <2>3
<1>12. CF!NewerInv'
  BY <1>1, <1>2, <1>3, <1>4, <1>8 DEF FormsInv, CF!NewerInv, CF!Tells
<1>. QED  BY <1>6, <1>7, <1>9, <1>10, <1>11, <1>12 DEF FormsInv

\* A request less.
LEMMA FormsFewer ==
  ASSUME CF!TypeOK, CF!CountInv, v8' \subseteq v8, UNCHANGED v4
  PROVE  CF!CountInv'
<1>1. IsFiniteSet(v8') /\ IsFiniteSet(CF!Saves) /\ CF!Saves' \subseteq CF!Saves
  BY FS_Subset, FormsCounted DEF CF!CountInv, CF!Saves
<1>2. Cardinality(CF!Saves') <= Cardinality(CF!Saves) /\ Cardinality(CF!Saves') \in Nat /\ Cardinality(CF!Saves) \in Nat
  BY <1>1, FS_Subset, FS_CardinalityType
<1>. QED  BY <1>1, <1>2, FormsTyped, FormsCounted, FormsAssumption DEF CF!CountInv

\* When nothing is under way, what is told is stored.
LEMMA FormsQuiet == FormsInv => CF!CardTellsStored
<1>. SUFFICES ASSUME FormsInv, v8 = {}, v6 # None, v9 \cap CF!Behind = {} PROVE v6 = v3
  BY DEF CF!CardTellsStored
<1>. QED  BY DEF FormsInv, CF!UpInv, CF!Wakes, CF!Loads, CF!Tells

\* At first nothing was made or asked.
LEMMA FormsBegin == CF!FInit => FormsInv
<1>. SUFFICES ASSUME CF!FInit PROVE FormsInv
  OBVIOUS
<1>1. CF!Loads = {} /\ CF!Saves = {} /\ IsFiniteSet(v8) /\ Cardinality(CF!Saves) = 0
  BY FS_EmptySet DEF CF!FInit, CF!Loads, CF!Saves
<1>2. CF!TypeOK /\ CF!CountInv
  BY <1>1, FormsAssumption, FormsCounted DEF CF!FInit, CF!TypeOK, CF!Values, CF!CountInv
<1>3. CF!ValueInv /\ CF!LoadInv /\ CF!UpInv /\ CF!NewerInv
  BY <1>1 DEF CF!FInit, CF!ValueInv, CF!LoadInv, CF!UpInv, CF!NewerInv, CF!Tells
<1>. QED  BY <1>2, <1>3 DEF FormsInv

\* Whatever is typed, drawn anew, crossed or lost, a card is up to date or says why not.
LEMMA FormsKeep == FormsInv /\ [CF!FNext]_(CF!fvars) => FormsInv'
<1>. SUFFICES ASSUME FormsInv, [CF!FNext]_(CF!fvars) PROVE FormsInv'
  OBVIOUS
<1>1. ASSUME CF!Load PROVE FormsInv'
  BY <1>1, FormsAsk, FormsCounted DEF CF!Load
<1>2. ASSUME CF!Type PROVE FormsInv'
  <2>b. CF!Counts' = CF!Counts /\ CF!Behind' = CF!Behind
    BY <1>2 DEF CF!Counts, CF!Behind, CF!Type
  <2>1a. /\ ~CF!Counts /\ v7 # None /\ v2 < Bound.texts /\ v2' = v2 + 1 /\ v7' = v2 + 1
         /\ UNCHANGED <<v1, v3, v4, v5, v6, v8, v9>>
    BY <1>2 DEF CF!Type, CF!Counts
  <2>2a. v2 \in Nat /\ v3 \in Nat /\ v2 + 1 \in CF!Values /\ v2 + 1 # None
    BY <2>1a, FormsTyped, FormsAssumption DEF FormsInv, CF!Values
  <2>3a. CF!Loads' = CF!Loads /\ CF!Saves' = CF!Saves
    BY <2>1a DEF CF!Loads, CF!Saves
  <2>1. CF!TypeOK'
    BY <2>1a, <2>2a DEF FormsInv, CF!TypeOK
  <2>2. CF!CountInv'
    BY <2>1a, <2>3a DEF FormsInv, CF!CountInv
  <2>3. CF!ValueInv'
    BY <2>1a, <2>2a, <2>3a, <2>b, FormsTyped DEF FormsInv, CF!ValueInv
  <2>4. CF!LoadInv'
    BY <2>1a, <2>3a DEF FormsInv, CF!LoadInv
  <2>5. CF!UpInv'
    BY <2>1a, <2>3a, <2>b DEF FormsInv, CF!UpInv, CF!Wakes, CF!Tells
  <2>6. CF!NewerInv'
    <3>1. \A s \in v8 : s.value \in Nat => s.value <= v2
      BY FormsAssumption DEF FormsInv, CF!ValueInv
    <3>2. \A s \in CF!Saves : s \in v8 /\ s.value \in Nat
      BY FormsTyped DEF FormsInv, CF!ValueInv, CF!Saves
    <3>3. v7' # v6' /\ v3' <= v7'
      BY <2>1a, <2>2a, FormsTyped DEF FormsInv, CF!ValueInv
    <3>. QED  BY <2>1a, <2>2a, <2>3a, <2>b, <3>1, <3>2, <3>3 DEF FormsInv, CF!NewerInv
  <2>. QED  BY <2>1, <2>2, <2>3, <2>4, <2>5, <2>6 DEF FormsInv
<1>3. ASSUME CF!Click PROVE FormsInv'
  <2>b. CF!Counts' = CF!Counts /\ CF!Behind' = CF!Behind
    BY <1>3 DEF CF!Counts, CF!Behind, CF!Click
  <2>. DEFINE x == IF v1 = "gmail" THEN v2' ELSE v7
              n == [what |-> "save", n |-> v4, at |-> "sent", value |-> x]
  <2>1a. /\ v6 # None /\ v4 + Cardinality(CF!Saves) < Bound.cards /\ v8' = v8 \cup {n}
         /\ v9' = v9 \cup (IF CF!Saves # {} THEN {"crossed"} ELSE {})
         /\ UNCHANGED <<v1, v3, v4, v5, v6, v7>>
         /\ \/ CF!Counts /\ v2 < Bound.texts /\ v2' = v2 + 1 /\ x = v2 + 1
            \/ ~CF!Counts /\ v2' = v2 /\ x = v7
    BY <1>3, FormsCounted DEF CF!Click, CF!Counts
  <2>2a. v2 \in Nat /\ v3 \in Nat /\ v2' \in CF!Values /\ x \in CF!Values /\ x # None /\ x \in Nat /\ x <= v2'
         /\ v2 <= v2' /\ v2' \in Nat
    BY <2>1a, FormsTyped, FormsAssumption DEF FormsInv, CF!TypeOK, CF!ValueInv, CF!Values
  <2>. HIDE DEF x
  <2>4a. n \in CF!Request /\ n.what = "save" /\ n.n = v4 /\ n.at = "sent" /\ n.value = x
    BY <2>2a, FormsTyped DEF CF!Request, FormsInv
  <2>. HIDE DEF n
  <2>3a. CF!Loads' = CF!Loads /\ CF!Saves' = CF!Saves \cup {n}
    BY <2>1a, <2>4a DEF CF!Loads, CF!Saves
  <2>1. CF!TypeOK'
    BY <2>1a, <2>2a, <2>4a DEF FormsInv, CF!TypeOK, CF!Reasons
  <2>2. CF!CountInv'
    <3>1. IsFiniteSet(v8') /\ IsFiniteSet(CF!Saves)
      BY <2>1a, FS_AddElement, FS_Subset, FormsCounted DEF FormsInv, CF!CountInv, CF!Saves
    <3>2. /\ Cardinality(CF!Saves \cup {n}) <= Cardinality(CF!Saves) + 1
          /\ Cardinality(CF!Saves \cup {n}) \in Nat /\ Cardinality(CF!Saves) \in Nat
      BY <3>1, OneMoreAtMost
    <3>3. Cardinality(CF!Saves)' = Cardinality(CF!Saves \cup {n})
      BY <2>3a
    <3>. QED  BY <2>1a, <3>2, <3>3, <3>1, <3>2, FormsTyped, FormsCounted, FormsAssumption DEF FormsInv, CF!CountInv
  <2>3. CF!ValueInv'
    <3>1. v7 # None
      BY <2>1a DEF FormsInv, CF!ValueInv
    <3>. QED  BY <2>1a, <2>2a, <2>4a, <2>b, <3>1, FormsTyped DEF FormsInv, CF!ValueInv
  <2>4. CF!LoadInv'
    BY <2>1a, <2>3a DEF FormsInv, CF!LoadInv
  <2>5. CF!UpInv'
    BY <2>1a, <2>3a, <2>b DEF FormsInv, CF!UpInv, CF!Wakes, CF!Tells
  <2>6. CF!NewerInv'
    <3>. SUFFICES ASSUME v9' = {} PROVE CF!NewerInv'
      BY DEF CF!NewerInv
    <3>1. v9 = {} /\ CF!Saves = {} /\ CF!Saves' = {n} /\ CF!NewerInv
      BY <2>1a, <2>3a DEF FormsInv
    <3>2. v3 <= x
      BY <2>1a, <2>2a, <3>1, FormsAssumption DEF FormsInv, CF!ValueInv, CF!NewerInv
    <3>3. ~CF!Counts => x = v7 /\ (v7 = v6 => x = v3)
      BY <2>1a, <3>1 DEF CF!NewerInv, CF!Tells
    <3>. QED  BY <2>1a, <2>2a, <2>3a, <2>4a, <2>b, <3>1, <3>2, <3>3 DEF CF!NewerInv, CF!Tells
  <2>. QED  BY <2>1, <2>2, <2>3, <2>4, <2>5, <2>6 DEF FormsInv
<1>4. ASSUME CF!GmailConnect PROVE FormsInv'
  <2>b. CF!Counts' = CF!Counts /\ CF!Behind' = CF!Behind
    BY <1>4 DEF CF!Counts, CF!Behind, CF!GmailConnect
  <2>1a. /\ CF!Counts /\ v6 # None /\ v2 < Bound.texts /\ v2' = v2 + 1 /\ v3' = v2 + 1
         /\ v9' = v9 \cup {"outside"} /\ UNCHANGED <<v1, v4, v5, v6, v7, v8>>
    BY <1>4 DEF CF!GmailConnect, CF!Counts
  <2>2a. v2 \in Nat /\ v3 \in Nat /\ v2 + 1 \in CF!Values /\ v2 + 1 # None
    BY <2>1a, FormsTyped, FormsAssumption DEF FormsInv, CF!Values
  <2>3a. CF!Loads' = CF!Loads /\ CF!Saves' = CF!Saves
    BY <2>1a DEF CF!Loads, CF!Saves
  <2>1. CF!TypeOK'
    BY <2>1a, <2>2a DEF FormsInv, CF!TypeOK, CF!Reasons
  <2>2. CF!CountInv'
    BY <2>1a, <2>3a DEF FormsInv, CF!CountInv
  <2>3. CF!ValueInv'
    BY <2>1a, <2>2a, <2>3a, <2>b, FormsTyped DEF FormsInv, CF!ValueInv
  <2>4. CF!LoadInv'
    BY <2>1a, <2>3a DEF FormsInv, CF!LoadInv
  <2>5. CF!UpInv'
    BY <2>1a DEF CF!UpInv, CF!Behind
  <2>6. CF!NewerInv'
    BY <2>1a DEF CF!NewerInv
  <2>. QED  BY <2>1, <2>2, <2>3, <2>4, <2>5, <2>6 DEF FormsInv
<1>5. ASSUME CF!Render PROVE FormsInv'
  <2>b. CF!Counts' = CF!Counts /\ CF!Behind' = CF!Behind
    BY <1>5 DEF CF!Counts, CF!Behind, CF!Render
  <2>1a. /\ v6 # None /\ v7 # v6 /\ v7' = v6 /\ v9' = v9 \cup (IF v8 # {} THEN {"redrawn"} ELSE {})
         /\ UNCHANGED <<v1, v2, v3, v4, v5, v6, v8>>
    BY <1>5 DEF CF!Render
  <2>3a. CF!Loads' = CF!Loads /\ CF!Saves' = CF!Saves
    BY <2>1a DEF CF!Loads, CF!Saves
  <2>1. CF!TypeOK'
    BY <2>1a DEF FormsInv, CF!TypeOK, CF!Reasons
  <2>2. CF!CountInv'
    BY <2>1a, <2>3a DEF FormsInv, CF!CountInv
  <2>3. CF!ValueInv'
    BY <2>1a, <2>3a, <2>b DEF FormsInv, CF!ValueInv
  <2>4. CF!LoadInv'
    BY <2>1a, <2>3a DEF FormsInv, CF!LoadInv
  <2>5. CF!UpInv'
    BY <2>1a, <2>3a, <2>b DEF FormsInv, CF!UpInv, CF!Wakes, CF!Tells
  <2>6. CF!NewerInv'
    <3>. SUFFICES ASSUME v9' = {} PROVE CF!NewerInv'
      BY DEF CF!NewerInv
    <3>1. v9 = {} /\ v8 = {} /\ CF!Saves = {}
      BY <2>1a DEF CF!Saves
    <3>2. v6 = v3
      BY <2>1a, <3>1, FormsQuiet DEF CF!CardTellsStored
    <3>. QED  BY <2>1a, <2>3a, <2>b, <3>1, <3>2, FormsTyped DEF FormsInv, CF!NewerInv, CF!Tells
  <2>. QED  BY <2>1, <2>2, <2>3, <2>4, <2>5, <2>6 DEF FormsInv
<1>6. ASSUME NEW r \in v8, CF!Serve(r) PROVE FormsInv'
  <2>b. CF!Counts' = CF!Counts /\ CF!Behind' = CF!Behind
    BY <1>6 DEF CF!Counts, CF!Behind, CF!Serve
  <2>1a. r.at = "sent" /\ UNCHANGED <<v1, v2, v4, v5, v6, v7>>
    BY <1>6 DEF CF!Serve
  <2>2a. PICK n \in CF!Request :
           /\ v8' = (v8 \ {r}) \cup {n} /\ n.what = r.what /\ n.n = r.n
           /\ \/ r.what = "load" /\ n.at = "ok" /\ n.value = v3 /\ UNCHANGED <<v3, v9>>
              \/ r.what = "save" /\ n.at = "ok" /\ n.value = r.value /\ v3' = r.value /\ UNCHANGED v9
              \/ r.what = "save" /\ n.at = "no" /\ n.value = r.value /\ v3' = r.value /\ v9' = v9 \cup {"lost"}
              \/ n.at = "no" /\ n.value = r.value /\ UNCHANGED <<v3, v9>>
    <3>1. v3 \in CF!Values \cup {None} /\ r.value \in CF!Values \cup {None} /\ CF!TypeOK
      BY FormsTyped DEF FormsInv, CF!TypeOK
    <3>2. CASE r.what = "load" /\ CF!Becomes(r, "ok", v3) /\ UNCHANGED <<v3, v9>>
      BY <3>1, <3>2, FormsReplied
    <3>3. CASE r.what = "save" /\ v3' = r.value /\ CF!Becomes(r, "ok", r.value) /\ UNCHANGED v9
      BY <3>1, <3>3, FormsReplied
    <3>4. CASE r.what = "save" /\ v3' = r.value /\ CF!Becomes(r, "no", r.value) /\ v9' = v9 \cup {"lost"}
      BY <3>1, <3>4, FormsReplied
    <3>5. CASE CF!Becomes(r, "no", r.value) /\ UNCHANGED <<v3, v9>>
      BY <3>1, <3>5, FormsReplied
    <3>. QED  BY <1>6, <3>2, <3>3, <3>4, <3>5 DEF CF!Serve
  <2>3a. /\ v3 \in Nat /\ (r.what = "save" => r.value \in Nat /\ r.value <= v2) /\ v3 <= v2 /\ v2 \in Nat
         /\ r.what \in {"load", "save"}
    BY FormsTyped, FormsAssumption DEF FormsInv, CF!ValueInv
  <2>4a. /\ \A s \in v8' : s = n \/ (s \in v8 /\ s # r)
         /\ n \in v8' /\ \A s \in v8 : s = r \/ s \in v8'
    BY <2>2a
  <2>1. CF!TypeOK'
    <3>1. v3' \in CF!Values
      BY <2>2a, <2>3a, FormsTyped, FormsAssumption DEF FormsInv, CF!TypeOK, CF!Values
    <3>. QED  BY <2>1a, <2>2a, <3>1 DEF FormsInv, CF!TypeOK, CF!Reasons
  <2>2. CF!CountInv'
    <3>1. IsFiniteSet(v8) /\ v4 + Cardinality(CF!Saves) <= Bound.cards
      BY FormsCounted DEF FormsInv, CF!CountInv
    <3>2. IsFiniteSet(v8') /\ IsFiniteSet(CF!Saves)
      BY <2>2a, <3>1, FS_AddElement, FS_Subset DEF CF!Saves
    <3>3. Cardinality(CF!Saves)' <= Cardinality(CF!Saves) /\ Cardinality(CF!Saves)' \in Nat /\ Cardinality(CF!Saves) \in Nat
      <4>1. CASE r.what = "load"
        <5>1. CF!Saves' = CF!Saves
          BY <2>2a, <4>1 DEF CF!Saves
        <5>. QED  BY <3>2, <5>1, FS_CardinalityType
      <4>2. CASE r.what = "save"
        <5>1. r \in CF!Saves /\ CF!Saves' = (CF!Saves \ {r}) \cup {n}
          BY <2>2a, <4>2 DEF CF!Saves
        <5>2. Cardinality(CF!Saves \ {r}) = Cardinality(CF!Saves) - 1 /\ IsFiniteSet(CF!Saves \ {r})
          BY <3>2, <5>1, FS_RemoveElement
        <5>3. /\ Cardinality((CF!Saves \ {r}) \cup {n}) <= Cardinality(CF!Saves \ {r}) + 1
              /\ IsFiniteSet((CF!Saves \ {r}) \cup {n})
          BY <5>2, OneMoreAtMost
        <5>4. Cardinality(CF!Saves) \in Nat /\ Cardinality((CF!Saves \ {r}) \cup {n}) \in Nat
          BY <3>2, <5>3, FS_CardinalityType
        <5>5. Cardinality(CF!Saves)' = Cardinality((CF!Saves \ {r}) \cup {n})
          BY <5>1
        <5>. QED  BY <5>2, <5>3, <5>4, <5>5
      <4>. QED  BY <2>3a, <4>1, <4>2
    <3>. QED  BY <2>1a, <3>1, <3>2, <3>3, FormsTyped, FormsCounted, FormsAssumption DEF FormsInv, CF!CountInv
  <2>3. CF!ValueInv'
    <3>1. v3' <= v2
      BY <2>2a, <2>3a
    <3>2. ~CF!Counts /\ CF!Saves' # {} => v7 # None
      BY <2>2a DEF FormsInv, CF!ValueInv, CF!Saves
    <3>3. \A s \in v8' : /\ s.value # None => s.value <= v2
                         /\ s.what = "save" \/ s.at = "ok" => s.value # None
      BY <2>2a, <2>3a, FormsAssumption DEF FormsInv, CF!ValueInv
    <3>. QED  BY <2>1a, <2>b, <3>1, <3>2, <3>3 DEF FormsInv, CF!ValueInv
  <2>4. CF!LoadInv'
    BY <2>1a, <2>2a DEF FormsInv, CF!LoadInv, CF!Loads
  <2>5. CF!UpInv'
    <3>. SUFFICES ASSUME v9' \cap CF!Behind' = {} PROVE CF!UpInv'
      BY DEF CF!UpInv
    <3>1. CASE r.what = "save" /\ n.at = "ok"
      BY <2>2a, <3>1 DEF CF!UpInv, CF!Wakes
    <3>2. CASE r.what = "save" /\ v9' = v9 \cup {"lost"}
      BY <2>b, <3>2 DEF CF!Behind
    <3>3. CASE UNCHANGED <<v3, v9>> /\ (n.at = "no" \/ (r.what = "load" /\ n.value = v3))
      <4>1. CF!UpInv /\ v9 \cap CF!Behind = {}
        BY <2>b, <3>3 DEF FormsInv
      <4>2. CF!Wakes => CF!Wakes'
        BY <2>1a, <2>4a DEF CF!Wakes
      <4>3. CF!Tells' <=> CF!Tells
        BY <2>1a, <3>3 DEF CF!Tells
      <4>4. \A s \in CF!Loads' : s \in CF!Loads \/ (s = n /\ r \in CF!Loads)
        BY <2>2a DEF CF!Loads
      <4>5. ASSUME NEW s \in CF!Loads, s.n = v4, s.at = "ok" => s.value = v3
            PROVE  \E t \in CF!Loads' : t.n = v4 /\ (t.at = "ok" => t.value = v3)
        BY <2>2a, <2>4a, <3>3, <4>5 DEF CF!Loads
      <4>. QED  BY <2>1a, <2>2a, <2>b, <3>3, <4>1, <4>2, <4>3, <4>4, <4>5 DEF CF!UpInv
    <3>. QED  BY <2>2a, <3>1, <3>2, <3>3
  <2>6. CF!NewerInv'
    <3>. SUFFICES ASSUME v9' = {} PROVE CF!NewerInv'
      BY DEF CF!NewerInv
    <3>1. v9 = {} /\ CF!NewerInv /\ v9' # v9 \cup {"lost"}
      BY <2>2a DEF FormsInv
    <3>2. \A s, t \in CF!Saves' : s = t
      BY <2>2a, <3>1 DEF CF!NewerInv, CF!Saves
    <3>3. CASE r.what = "save" /\ n.at = "ok" /\ n.value = r.value /\ v3' = r.value
      <4>1. CF!Saves' = {n} /\ r \in CF!Saves
        BY <2>2a, <3>2, <3>3 DEF CF!Saves
      <4>2. ~CF!Counts => v7 \in Nat /\ r.value <= v7 /\ (v7 = v6 => r.value = v3)
        BY <2>1a, <3>1, <4>1, FormsTyped DEF FormsInv, CF!ValueInv, CF!NewerInv, CF!Saves
      <4>. QED  BY <2>1a, <2>2a, <2>3a, <2>b, <3>1, <3>2, <3>3, <4>1, <4>2 DEF CF!NewerInv, CF!Tells
    <3>4. CASE UNCHANGED <<v3, v9>> /\ (n.at = "no" \/ (r.what = "load" /\ n.value = v3))
      <4>1. \A s \in CF!Saves' : s.at = "sent" => s \in CF!Saves
        BY <2>1a, <2>2a, <3>4 DEF CF!Saves
      <4>2. (~CF!Counts /\ v7 = v6) => \A s \in v8' : s.what = "save" \/ s.at = "ok" => s.value = v3
        BY <2>1a, <2>2a, <3>1, <3>4 DEF CF!NewerInv
      <4>. QED  BY <2>1a, <2>b, <3>1, <3>2, <3>4, <4>1, <4>2 DEF CF!NewerInv, CF!Tells
    <3>. QED  BY <2>2a, <3>1, <3>3, <3>4
  <2>. QED  BY <2>1, <2>2, <2>3, <2>4, <2>5, <2>6 DEF FormsInv
<1>7. ASSUME NEW r \in v8, CF!OnLoad(r) PROVE FormsInv'
  <2>b. CF!Counts' = CF!Counts /\ CF!Behind' = CF!Behind
    BY <1>7 DEF CF!Counts, CF!Behind, CF!OnLoad
  <2>1a. r.what = "load" /\ v8' = v8 \ {r} /\ UNCHANGED <<v1, v2, v3, v4>> /\ r.at \in {"ok", "no"}
    BY <1>7 DEF CF!OnLoad
  <2>2a. \/ r.at = "ok" /\ CF!Wanted(r) /\ v6' = r.value /\ v7' = r.value /\ v5' = r.n
            /\ v8 = {r} /\ r.value = v3 /\ v9' = {}
         \/ /\ r.at = "ok" /\ CF!Wanted(r) /\ v6' = r.value /\ v7' = r.value /\ v5' = r.n /\ v9 \subseteq v9'
            /\ v9' \subseteq v9 \cup {"overtaken", "redrawn"}
            /\ r.n < v5 => "overtaken" \in v9'
            /\ v7 # v6 => "redrawn" \in v9'
         \/ ~(r.at = "ok" /\ CF!Wanted(r)) /\ UNCHANGED <<v5, v6, v7>> /\ v9 \subseteq v9'
            /\ v9' \subseteq v9 \cup {"failed"} /\ (r.at = "no" => "failed" \in v9')
    <3>1. CASE r.at = "ok" /\ CF!Wanted(r) /\ v8 = {r} /\ r.value = v3
      BY <1>7, <3>1 DEF CF!OnLoad
    <3>2. CASE r.at = "ok" /\ CF!Wanted(r) /\ ~(v8 = {r} /\ r.value = v3)
      BY <1>7, <3>2 DEF CF!OnLoad
    <3>3. CASE ~(r.at = "ok" /\ CF!Wanted(r))
      BY <1>7, <3>3 DEF CF!OnLoad
    <3>. QED  BY <3>1, <3>2, <3>3
  <2>3a. /\ r \in CF!Loads /\ CF!Loads' = CF!Loads \ {r} /\ CF!Saves' = CF!Saves
         /\ r.n <= v4 /\ r.n \in Nat /\ v3 \in Nat /\ v4 \in Nat
         /\ r.value \in CF!Values \cup {None} /\ (r.at = "ok" => r.value # None)
         /\ r.value # None => r.value <= v2
    BY <2>1a, FormsTyped DEF FormsInv, CF!Loads, CF!Saves, CF!LoadInv, CF!ValueInv
  <2>1. CF!TypeOK'
    <3>1. v5' \in 0..v4'
      BY <2>1a, <2>2a, <2>3a, FormsTyped DEF FormsInv
    <3>2. v9' \subseteq CF!Reasons
      <4>1. v9' \subseteq v9 \cup {"overtaken", "redrawn", "failed"}
        BY <2>2a
      <4>. QED  BY <4>1 DEF FormsInv, CF!TypeOK, CF!Reasons
    <3>. QED  BY <2>1a, <2>2a, <2>3a, <3>1, <3>2 DEF FormsInv, CF!TypeOK
  <2>2. CF!CountInv'
    BY <2>1a, FormsFewer DEF FormsInv
  <2>3. CF!ValueInv'
    BY <2>1a, <2>2a, <2>3a, <2>b DEF FormsInv, CF!ValueInv
  <2>4. CF!LoadInv'
    BY <2>1a, <2>3a DEF FormsInv, CF!LoadInv
  <2>5. CF!UpInv'
    <3>. SUFFICES ASSUME v9' \cap CF!Behind' = {} PROVE CF!UpInv'
      BY DEF CF!UpInv
    <3>1. CASE v8 = {r} /\ r.value = v3 /\ v6' = r.value
      <4>1. CF!Loads' = {} /\ CF!Tells'
        BY <2>1a, <2>3a, <3>1 DEF CF!Tells, CF!Loads
      <4>. QED  BY <2>b, <4>1 DEF CF!UpInv
    <3>2. CASE v9 \subseteq v9' /\ ~(v8 = {r} /\ r.value = v3 /\ v6' = r.value)
      <4>1. CF!UpInv /\ v9 \cap CF!Behind = {}
        BY <2>b, <3>2 DEF FormsInv
      <4>2. CF!Wakes => CF!Wakes'
        BY <2>1a DEF CF!Wakes
      <4>3. CASE CF!Counts
        <5>1. CF!Tells /\ (\A s \in CF!Loads : s.n = v4 /\ s.at = "ok" => s.value = v3) => CF!Tells'
          BY <2>1a, <2>2a, <2>3a, <4>3 DEF CF!Tells, CF!Wanted
        <5>. QED  BY <2>1a, <2>3a, <2>b, <4>1, <4>2, <4>3, <5>1 DEF CF!UpInv
      <4>4. CASE ~CF!Counts
        <5>1. /\ r.at = "ok" /\ v6' = r.value /\ v5' = r.n /\ ~(r.n < v5)
          BY <2>1a, <2>2a, <2>b, <3>2, <4>4 DEF CF!Behind, CF!Wanted
        <5>2. ASSUME NEW s \in CF!Loads, s.n = v4, s.at = "ok" => s.value = v3
              PROVE  CF!UpInv'
          <6>1. CASE s = r
            <7>1. \A t \in CF!Loads' : t.n < v5'
              BY <2>3a, <5>1, <5>2, <6>1, FormsTyped DEF FormsInv, CF!LoadInv, CF!Loads
            <7>. QED  BY <2>1a, <2>b, <4>4, <5>1, <5>2, <6>1, <7>1 DEF CF!UpInv, CF!Tells
          <6>2. CASE s # r
            BY <2>1a, <2>3a, <2>b, <4>4, <5>2, <6>2 DEF CF!UpInv
          <6>. QED  BY <6>1, <6>2
        <5>. QED  BY <2>3a, <4>1, <4>2, <4>4, <5>1, <5>2 DEF CF!UpInv
      <4>. QED  BY <4>3, <4>4
    <3>. QED  BY <2>2a, <3>1, <3>2
  <2>6. CF!NewerInv'
    <3>. SUFFICES ASSUME v9' = {} PROVE CF!NewerInv'
      BY DEF CF!NewerInv
    <3>1. CASE v8 = {r} /\ r.value = v3 /\ v6' = r.value /\ v7' = r.value
      <4>1. v8' = {} /\ CF!Saves' = {}
        BY <2>1a, <3>1 DEF CF!Saves
      <4>. QED  BY <2>1a, <2>3a, <2>b, <3>1, <4>1 DEF CF!NewerInv, CF!Tells
    <3>2. CASE v9 \subseteq v9' /\ r.at = "ok" /\ CF!Wanted(r) /\ v6' = r.value /\ v7' = r.value /\ v7 = v6
      <4>1. CF!NewerInv /\ v9 = {}
        BY <3>2 DEF FormsInv
      <4>2. ~CF!Counts => r.value = v3 /\ \A s \in v8 : s.what = "save" \/ s.at = "ok" => s.value = v3
        BY <3>2, <4>1 DEF CF!NewerInv
      <4>3. \A s \in CF!Saves : s \in v8 /\ s.what = "save"
        BY DEF CF!Saves
      <4>. QED  BY <2>1a, <2>3a, <2>b, <3>2, <4>1, <4>2, <4>3 DEF CF!NewerInv, CF!Tells
    <3>3. CASE v9 \subseteq v9' /\ ~(r.at = "ok" /\ CF!Wanted(r)) /\ r.at # "no"
      <4>1. CF!NewerInv /\ v9 = {} /\ CF!Counts
        BY <2>1a, <3>3 DEF FormsInv, CF!Wanted
      <4>. QED  BY <2>1a, <2>3a, <2>b, <4>1 DEF CF!NewerInv
    <3>. QED  BY <2>2a, <3>1, <3>2, <3>3
  <2>. QED  BY <2>1, <2>2, <2>3, <2>4, <2>5, <2>6 DEF FormsInv
<1>8. ASSUME NEW r \in v8, CF!OnSave(r) PROVE FormsInv'
  <2>b. CF!Counts' = CF!Counts /\ CF!Behind' = CF!Behind
    BY <1>8 DEF CF!Counts, CF!Behind, CF!OnSave
  <2>1. CASE r.at = "ok"
    BY <1>8, <2>1, FormsAsk DEF CF!OnSave
  <2>2. CASE r.at # "ok"
    <3>1. /\ r.what = "save" /\ v8' = v8 \ {r} /\ UNCHANGED <<v1, v2, v3, v4, v5, v6, v7, v9>>
      BY <1>8, <2>2 DEF CF!OnSave
    <3>2. CF!Loads' = CF!Loads /\ CF!Saves' = CF!Saves \ {r}
      BY <3>1 DEF CF!Loads, CF!Saves
    <3>3. CF!CountInv'
      BY <3>1, <3>2, FormsFewer DEF FormsInv
    <3>4. CF!TypeOK' /\ CF!LoadInv'
      BY <3>1, <3>2 DEF FormsInv, CF!TypeOK, CF!LoadInv
    <3>5. CF!ValueInv'
      BY <2>b, <3>1, <3>2 DEF FormsInv, CF!ValueInv
    <3>6. CF!UpInv'
      BY <2>b, <2>2, <3>1, <3>2 DEF FormsInv, CF!UpInv, CF!Wakes, CF!Tells
    <3>7. CF!NewerInv'
      BY <2>b, <3>1, <3>2 DEF FormsInv, CF!NewerInv, CF!Tells
    <3>. QED  BY <3>3, <3>4, <3>5, <3>6, <3>7 DEF FormsInv
  <2>. QED  BY <2>1, <2>2
<1>9. CASE UNCHANGED CF!fvars
  BY <1>9 DEF CF!fvars, FormsInv, CF!TypeOK, CF!CountInv, CF!ValueInv, CF!LoadInv, CF!UpInv,
      CF!NewerInv, CF!Loads, CF!Saves, CF!Behind, CF!Counts, CF!Wakes, CF!Tells
<1>. QED  BY <1>1, <1>2, <1>3, <1>4, <1>5, <1>6, <1>7, <1>8, <1>9 DEF CF!FNext


\* A save that puts an older text back was not alone.
LEMMA FormsKeepNewer == FormsInv /\ [CF!FNext]_(CF!fvars) => CF!NoOlderTextReturns
<1>. SUFFICES ASSUME FormsInv, [CF!FNext]_(CF!fvars), v3' < v3, v9 = {} PROVE FALSE
  BY DEF CF!NoOlderTextReturns
<1>1. v3 \in Nat /\ v2 \in Nat /\ v3 <= v2
  BY FormsTyped DEF FormsInv, CF!ValueInv
<1>2. CASE CF!GmailConnect
  BY <1>1, <1>2 DEF CF!GmailConnect
<1>3. ASSUME NEW r \in v8, CF!Serve(r) PROVE FALSE
  <2>1. r.what = "save" /\ r.at = "sent" /\ v3' = r.value
    BY <1>1, <1>3 DEF CF!Serve
  <2>2. v3 <= r.value /\ r.value \in Nat
    BY <2>1, FormsTyped DEF FormsInv, CF!NewerInv, CF!ValueInv, CF!Saves
  <2>. QED  BY <1>1, <2>1, <2>2
<1>4. CASE UNCHANGED v3
  BY <1>1, <1>4
<1>. QED
  BY <1>2, <1>3, <1>4 DEF CF!FNext, CF!fvars, CF!Load, CF!Type, CF!Click, CF!Render, CF!OnLoad, CF!OnSave

-------------------------------------------------------------------------------
(* The pages of a collaboration, CollabPages *)
CP == INSTANCE CollabPages WITH
  Creator <- Bound.creator, Offers <- Ids, MaxAsked <- Bound.asked, status <- v1, terms <- v2,
  select <- v3, reviewed <- v4, rows <- v5, camps <- v6, offers <- v7, wire <- v8,
  told <- v9, accepted <- v10

\* A row of campaign_terms, of the two people.
OfferRow == [state : CP!C!TermStates, proposed : Ids, agreed : Ids \cup {None},
             link : BOOLEAN, spark : BOOLEAN]

ASSUME OffersAssumption == None \notin OfferRow

\* The two pages and the collaboration.
OffersInv == CP!TypeOK /\ CP!WireInv /\ CP!SeenInv /\ CP!ToldIsDone

\* A collaboration only goes on: what was proposed stays, and no state comes back.
Onward(agreeing) ==
  LET k == Bound.creator
      t == v2[k]
      u == v2'[k] IN
    /\ v1[k] # "none" => v1'[k] # "none"
    /\ t # None =>
         /\ u # None /\ u.proposed = t.proposed
         /\ u.agreed = t.agreed \/ (agreeing /\ u.agreed = t.proposed)
         /\ (t.link => u.link) /\ (t.spark => u.spark)
         /\ t.state \notin {"selected", "declined"} => u.state \notin {"selected", "declined"}
         /\ t.state = "declined" => u.state = "declined"
         /\ t.state \in {"sample_shipped", "content_submitted", "completed"} =>
              u.state \in {"sample_shipped", "content_submitted", "completed"}
         /\ t.state \in {"content_submitted", "completed"} => u.state \in {"content_submitted", "completed"}
         /\ t.state = "completed" => u.state = "completed"
    /\ t = None /\ u # None => u.agreed = None

\* What each page may tell as done.
LEMMA OffersReached ==
  /\ CP!Reached("apply")    <=> v1[Bound.creator] # "none"
  /\ CP!Reached("select")   <=> v2[Bound.creator] # None
  /\ CP!Reached("agree")    <=> v2[Bound.creator] # None /\ v2[Bound.creator].state \notin {"selected", "declined"}
  /\ CP!Reached("decline")  <=> v2[Bound.creator] # None /\ v2[Bound.creator].state = "declined"
  /\ CP!Reached("ship")     <=> /\ v2[Bound.creator] # None
                                /\ v2[Bound.creator].state \in {"sample_shipped", "content_submitted", "completed"}
  /\ CP!Reached("link")     <=> v2[Bound.creator] # None /\ v2[Bound.creator].link
  /\ CP!Reached("spark")    <=> v2[Bound.creator] # None /\ v2[Bound.creator].spark
  /\ CP!Reached("content")  <=> /\ v2[Bound.creator] # None
                                /\ v2[Bound.creator].state \in {"content_submitted", "completed"}
  /\ CP!Reached("complete") <=> v2[Bound.creator] # None /\ v2[Bound.creator].state = "completed"
BY DEF CP!Reached

\* What was done stays done.
LEMMA OnwardKeeps ==
  ASSUME NEW agreeing, Onward(agreeing)
  PROVE  \A op \in CP!BrandOps \cup CP!CreatorOps : CP!Reached(op) => CP!Reached(op)'
<1>. SUFFICES ASSUME NEW op \in CP!BrandOps \cup CP!CreatorOps, CP!Reached(op) PROVE CP!Reached(op)'
  OBVIOUS
<1>1. CASE op = "apply"
  BY <1>1 DEF Onward, CP!Reached
<1>2. CASE op = "select"
  BY <1>2 DEF Onward, CP!Reached
<1>3. CASE op = "agree"
  BY <1>3 DEF Onward, CP!Reached
<1>4. CASE op = "decline"
  BY <1>4 DEF Onward, CP!Reached
<1>5. CASE op = "ship"
  BY <1>5 DEF Onward, CP!Reached
<1>6. CASE op = "link"
  BY <1>6 DEF Onward, CP!Reached
<1>7. CASE op = "spark"
  BY <1>7 DEF Onward, CP!Reached
<1>8. CASE op = "content"
  BY <1>8 DEF Onward, CP!Reached
<1>9. CASE op = "complete"
  BY <1>9 DEF Onward, CP!Reached
<1>. QED
  BY <1>1, <1>2, <1>3, <1>4, <1>5, <1>6, <1>7, <1>8, <1>9 DEF CP!BrandOps, CP!CreatorOps

\* A step on terms that are there writes one row.
LEMMA OffersChange ==
  ASSUME CP!TypeOK, NEW r \in OfferRow, UNCHANGED <<v3, v4>>,
         v2' = [v2 EXCEPT ![Bound.creator] = r], v1' \in [{Bound.creator} -> CP!C!Statuses]
  PROVE  CP!C!TypeOK' /\ v2'[Bound.creator] = r /\ r # None
<1>1. v2 \in [{Bound.creator} -> OfferRow \cup {None}] /\ v2' \in [{Bound.creator} -> OfferRow \cup {None}]
  BY DEF CP!TypeOK, CP!C!TypeOK, OfferRow
<1>. QED  BY <1>1, OffersAssumption DEF CP!TypeOK, CP!C!TypeOK, OfferRow

\* Each operation takes the collaboration on, and does what it says.
LEMMA OffersDone ==
  ASSUME CP!TypeOK, CP!SeenInv, NEW what, CP!Does(what)
  PROVE  CP!C!TypeOK' /\ Onward(what = "agree") /\ CP!Reached(what)'
<1>. DEFINE k == Bound.creator
<1>1. /\ v2 \in [{k} -> OfferRow \cup {None}] /\ v1 \in [{k} -> CP!C!Statuses]
      /\ v2[k] # None => v2[k] \in OfferRow
  BY DEF CP!TypeOK, CP!C!TypeOK, OfferRow
<1>2. CASE what = "apply" /\ CP!C!Apply(k)
  <2>1. v1' = [v1 EXCEPT ![k] = "applied"] /\ UNCHANGED <<v2, v3, v4>> /\ v1[k] = "none"
    BY <1>2 DEF CP!C!Apply
  <2>2. v1' \in [{k} -> CP!C!Statuses] /\ v1'[k] = "applied"
    BY <1>1, <2>1 DEF CP!C!Statuses
  <2>3. CP!C!TypeOK'
    BY <2>1, <2>2 DEF CP!TypeOK, CP!C!TypeOK
  <2>. QED  BY <1>2, <2>1, <2>2, <2>3 DEF Onward, CP!Reached
<1>3. CASE what = "agree" /\ CP!C!Agree(k)
  <2>. DEFINE r == [v2[k] EXCEPT !.state = "terms_agreed", !.agreed = v2[k].proposed]
  <2>1. v2' = [v2 EXCEPT ![k] = r] /\ UNCHANGED <<v3, v4>> /\ v2[k] # None
    BY <1>3 DEF CP!C!Agree, CP!C!In
  <2>2. v2[k] \in OfferRow /\ v2[k].state \in CP!C!TermStates
    BY <1>1, <2>1 DEF OfferRow
  <2>3. r \in OfferRow
    BY <2>2 DEF OfferRow, CP!C!TermStates
  <2>4. r.state = "terms_agreed" /\ r.proposed = v2[k].proposed /\ r.agreed = v2[k].proposed
    BY <2>2 DEF OfferRow
  <2>5. r.link = v2[k].link /\ r.spark = v2[k].spark
    BY <2>2 DEF OfferRow
  <2>6. v1' \in [{k} -> CP!C!Statuses] /\ (v1[k] # "none" => v1'[k] # "none")
    BY <1>1, <1>3 DEF CP!C!Agree, CP!C!Statuses
  <2>. HIDE DEF r
  <2>7. CP!C!TypeOK' /\ v2'[k] = r /\ r # None
    BY <2>1, <2>3, <2>6, OffersChange
  <2>8. v2[k].state \in {"selected"}
    BY <1>3, <2>2 DEF CP!C!Agree, CP!C!In, CP!C!TermStates
  <2>9. CP!Reached(what)'
    BY <1>3, <2>4, <2>5, <2>7, <2>8 DEF CP!Reached
  <2>. QED  BY <1>3, <2>1, <2>4, <2>5, <2>6, <2>7, <2>8, <2>9 DEF Onward
<1>4. CASE what = "decline" /\ CP!C!Decline(k)
  <2>. DEFINE r == [v2[k] EXCEPT !.state = "declined"]
  <2>1. v2' = [v2 EXCEPT ![k] = r] /\ UNCHANGED <<v3, v4>> /\ v2[k] # None
    BY <1>4 DEF CP!C!Decline, CP!C!In, CP!C!Move
  <2>2. v2[k] \in OfferRow /\ v2[k].state \in CP!C!TermStates
    BY <1>1, <2>1 DEF OfferRow
  <2>3. r \in OfferRow
    BY <2>2 DEF OfferRow, CP!C!TermStates
  <2>4. r.state = "declined" /\ r.proposed = v2[k].proposed /\ r.agreed = v2[k].agreed
    BY <2>2 DEF OfferRow
  <2>5. r.link = v2[k].link /\ r.spark = v2[k].spark
    BY <2>2 DEF OfferRow
  <2>6. v1' \in [{k} -> CP!C!Statuses] /\ (v1[k] # "none" => v1'[k] # "none")
    BY <1>1, <1>4 DEF CP!C!Decline, CP!C!Statuses
  <2>. HIDE DEF r
  <2>7. CP!C!TypeOK' /\ v2'[k] = r /\ r # None
    BY <2>1, <2>3, <2>6, OffersChange
  <2>8. v2[k].state \in {"selected"}
    BY <1>4, <2>2 DEF CP!C!Decline, CP!C!In, CP!C!TermStates
  <2>9. CP!Reached(what)'
    BY <1>4, <2>4, <2>5, <2>7, <2>8 DEF CP!Reached
  <2>. QED  BY <1>4, <2>1, <2>4, <2>5, <2>6, <2>7, <2>8, <2>9 DEF Onward
<1>5. CASE what = "ship" /\ CP!C!SampleShipped(k)
  <2>. DEFINE r == [v2[k] EXCEPT !.state = "sample_shipped"]
  <2>1. v2' = [v2 EXCEPT ![k] = r] /\ UNCHANGED <<v3, v4>> /\ v2[k] # None
    BY <1>5 DEF CP!C!SampleShipped, CP!C!In, CP!C!Move
  <2>2. v2[k] \in OfferRow /\ v2[k].state \in CP!C!TermStates
    BY <1>1, <2>1 DEF OfferRow
  <2>3. r \in OfferRow
    BY <2>2 DEF OfferRow, CP!C!TermStates
  <2>4. r.state = "sample_shipped" /\ r.proposed = v2[k].proposed /\ r.agreed = v2[k].agreed
    BY <2>2 DEF OfferRow
  <2>5. r.link = v2[k].link /\ r.spark = v2[k].spark
    BY <2>2 DEF OfferRow
  <2>6. v1' \in [{k} -> CP!C!Statuses] /\ (v1[k] # "none" => v1'[k] # "none")
    BY <1>1, <1>5 DEF CP!C!SampleShipped, CP!C!Statuses
  <2>. HIDE DEF r
  <2>7. CP!C!TypeOK' /\ v2'[k] = r /\ r # None
    BY <2>1, <2>3, <2>6, OffersChange
  <2>8. v2[k].state \in {"terms_agreed"}
    BY <1>5, <2>2 DEF CP!C!SampleShipped, CP!C!In, CP!C!TermStates
  <2>9. CP!Reached(what)'
    BY <1>5, <2>4, <2>5, <2>7, <2>8 DEF CP!Reached
  <2>. QED  BY <1>5, <2>1, <2>4, <2>5, <2>6, <2>7, <2>8, <2>9 DEF Onward
<1>6. CASE what = "link" /\ CP!C!IssueAffiliateLink(k)
  <2>. DEFINE r == [v2[k] EXCEPT !.link = TRUE]
  <2>1. v2' = [v2 EXCEPT ![k] = r] /\ UNCHANGED <<v3, v4>> /\ v2[k] # None
    BY <1>6 DEF CP!C!IssueAffiliateLink, CP!C!In
  <2>2. v2[k] \in OfferRow /\ v2[k].state \in CP!C!TermStates
    BY <1>1, <2>1 DEF OfferRow
  <2>3. r \in OfferRow
    BY <2>2 DEF OfferRow, CP!C!TermStates
  <2>4. r.state = v2[k].state /\ r.proposed = v2[k].proposed /\ r.agreed = v2[k].agreed
    BY <2>2 DEF OfferRow
  <2>5. r.link = TRUE /\ r.spark = v2[k].spark
    BY <2>2 DEF OfferRow
  <2>6. v1' \in [{k} -> CP!C!Statuses] /\ (v1[k] # "none" => v1'[k] # "none")
    BY <1>1, <1>6 DEF CP!C!IssueAffiliateLink, CP!C!Statuses
  <2>. HIDE DEF r
  <2>7. CP!C!TypeOK' /\ v2'[k] = r /\ r # None
    BY <2>1, <2>3, <2>6, OffersChange
  <2>8. v2[k].state \in CP!C!TermStates \ {"selected", "declined"}
    BY <1>6, <2>2 DEF CP!C!IssueAffiliateLink, CP!C!In, CP!C!TermStates
  <2>9. CP!Reached(what)'
    BY <1>6, <2>4, <2>5, <2>7, <2>8 DEF CP!Reached
  <2>. QED  BY <1>6, <2>1, <2>4, <2>5, <2>6, <2>7, <2>8, <2>9 DEF Onward
<1>7. CASE what = "spark" /\ CP!C!SubmitSparkCode(k)
  <2>. DEFINE r == [v2[k] EXCEPT !.spark = TRUE]
  <2>1. v2' = [v2 EXCEPT ![k] = r] /\ UNCHANGED <<v3, v4>> /\ v2[k] # None
    BY <1>7 DEF CP!C!SubmitSparkCode, CP!C!In
  <2>2. v2[k] \in OfferRow /\ v2[k].state \in CP!C!TermStates
    BY <1>1, <2>1 DEF OfferRow
  <2>3. r \in OfferRow
    BY <2>2 DEF OfferRow, CP!C!TermStates
  <2>4. r.state = v2[k].state /\ r.proposed = v2[k].proposed /\ r.agreed = v2[k].agreed
    BY <2>2 DEF OfferRow
  <2>5. r.link = v2[k].link /\ r.spark = TRUE
    BY <2>2 DEF OfferRow
  <2>6. v1' \in [{k} -> CP!C!Statuses] /\ (v1[k] # "none" => v1'[k] # "none")
    BY <1>1, <1>7 DEF CP!C!SubmitSparkCode, CP!C!Statuses
  <2>. HIDE DEF r
  <2>7. CP!C!TypeOK' /\ v2'[k] = r /\ r # None
    BY <2>1, <2>3, <2>6, OffersChange
  <2>8. v2[k].state \in {"terms_agreed", "sample_shipped", "content_submitted"}
    BY <1>7, <2>2 DEF CP!C!SubmitSparkCode, CP!C!In, CP!C!TermStates
  <2>9. CP!Reached(what)'
    BY <1>7, <2>4, <2>5, <2>7, <2>8 DEF CP!Reached
  <2>. QED  BY <1>7, <2>1, <2>4, <2>5, <2>6, <2>7, <2>8, <2>9 DEF Onward
<1>8. CASE what = "content" /\ CP!C!SubmitContent(k)
  <2>. DEFINE r == [v2[k] EXCEPT !.state = "content_submitted"]
  <2>1. v2' = [v2 EXCEPT ![k] = r] /\ UNCHANGED <<v3, v4>> /\ v2[k] # None
    BY <1>8 DEF CP!C!SubmitContent, CP!C!In, CP!C!Move
  <2>2. v2[k] \in OfferRow /\ v2[k].state \in CP!C!TermStates
    BY <1>1, <2>1 DEF OfferRow
  <2>3. r \in OfferRow
    BY <2>2 DEF OfferRow, CP!C!TermStates
  <2>4. r.state = "content_submitted" /\ r.proposed = v2[k].proposed /\ r.agreed = v2[k].agreed
    BY <2>2 DEF OfferRow
  <2>5. r.link = v2[k].link /\ r.spark = v2[k].spark
    BY <2>2 DEF OfferRow
  <2>6. v1' \in [{k} -> CP!C!Statuses] /\ (v1[k] # "none" => v1'[k] # "none")
    BY <1>1, <1>8 DEF CP!C!SubmitContent, CP!C!Statuses
  <2>. HIDE DEF r
  <2>7. CP!C!TypeOK' /\ v2'[k] = r /\ r # None
    BY <2>1, <2>3, <2>6, OffersChange
  <2>8. v2[k].state \in {"terms_agreed", "sample_shipped"}
    BY <1>8, <2>2 DEF CP!C!SubmitContent, CP!C!In, CP!C!TermStates
  <2>9. CP!Reached(what)'
    BY <1>8, <2>4, <2>5, <2>7, <2>8 DEF CP!Reached
  <2>. QED  BY <1>8, <2>1, <2>4, <2>5, <2>6, <2>7, <2>8, <2>9 DEF Onward
<1>9. CASE what = "complete" /\ CP!C!CompleteTerms(k)
  <2>. DEFINE r == [v2[k] EXCEPT !.state = "completed"]
  <2>1. v2' = [v2 EXCEPT ![k] = r] /\ UNCHANGED <<v3, v4>> /\ v2[k] # None
    BY <1>9 DEF CP!C!CompleteTerms, CP!C!In, CP!C!Move
  <2>2. v2[k] \in OfferRow /\ v2[k].state \in CP!C!TermStates
    BY <1>1, <2>1 DEF OfferRow
  <2>3. r \in OfferRow
    BY <2>2 DEF OfferRow, CP!C!TermStates
  <2>4. r.state = "completed" /\ r.proposed = v2[k].proposed /\ r.agreed = v2[k].agreed
    BY <2>2 DEF OfferRow
  <2>5. r.link = v2[k].link /\ r.spark = v2[k].spark
    BY <2>2 DEF OfferRow
  <2>6. v1' \in [{k} -> CP!C!Statuses] /\ (v1[k] # "none" => v1'[k] # "none")
    BY <1>1, <1>9 DEF CP!C!CompleteTerms, CP!C!Statuses
  <2>. HIDE DEF r
  <2>7. CP!C!TypeOK' /\ v2'[k] = r /\ r # None
    BY <2>1, <2>3, <2>6, OffersChange
  <2>8. v2[k].state \in {"content_submitted"}
    BY <1>9, <2>2 DEF CP!C!CompleteTerms, CP!C!In, CP!C!TermStates
  <2>9. CP!Reached(what)'
    BY <1>9, <2>4, <2>5, <2>7, <2>8 DEF CP!Reached
  <2>. QED  BY <1>9, <2>1, <2>4, <2>5, <2>6, <2>7, <2>8, <2>9 DEF Onward
<1>. QED  BY <1>2, <1>3, <1>4, <1>5, <1>6, <1>7, <1>8, <1>9 DEF CP!Does

\* The offer that is inserted is there.
LEMMA OffersInserted ==
  ASSUME CP!TypeOK, NEW o \in Ids, CP!C!SelectInserts("tx", o)
  PROVE  CP!C!TypeOK' /\ Onward(FALSE) /\ CP!Reached("select")'
<1>. DEFINE k == Bound.creator
            Under == [creator : {k}, step : {"locked", "counted"}]
<1>1. /\ v2 \in [{k} -> OfferRow \cup {None}] /\ v1 \in [{k} -> CP!C!Statuses]
      /\ v3 \in [{"tx"} -> Under \cup {None}]
  BY DEF CP!TypeOK, CP!C!TypeOK, OfferRow
<1>. DEFINE r == [state |-> "selected", proposed |-> o, agreed |-> None, link |-> FALSE, spark |-> FALSE]
<1>2. v3["tx"] \in Under /\ v3["tx"].creator = k
  BY <1>1 DEF CP!C!SelectInserts
<1>3. /\ v2[k] = None /\ v2' = [v2 EXCEPT ![k] = r] /\ v1' = [v1 EXCEPT ![k] = "selected"]
      /\ v3' = [v3 EXCEPT !["tx"] = None] /\ v4' = v4
  BY <1>2 DEF CP!C!SelectInserts
<1>4. r \in OfferRow
  BY DEF OfferRow, CP!C!TermStates
<1>5. r.agreed = None
  OBVIOUS
<1>. HIDE DEF r
<1>6. v2' \in [{k} -> OfferRow \cup {None}] /\ v2'[k] = r /\ r # None
  BY <1>1, <1>3, <1>4, OffersAssumption
<1>7. v1' \in [{k} -> CP!C!Statuses] /\ v1'[k] = "selected" /\ v3' \in [{"tx"} -> Under \cup {None}]
  BY <1>1, <1>3 DEF CP!C!Statuses
<1>8. CP!C!TypeOK'
  BY <1>3, <1>6, <1>7 DEF CP!TypeOK, CP!C!TypeOK, OfferRow
<1>. QED  BY <1>3, <1>5, <1>6, <1>7, <1>8 DEF Onward, CP!Reached

\* The steps of a selection: it makes the one offer there is, once.
LEMMA OffersSelect ==
  ASSUME CP!TypeOK,
         \/ CP!C!SelectBegins("tx", Bound.creator) \/ CP!C!SelectCounts("tx") \/ CP!C!SelectEnds("tx")
         \/ \E o \in Ids : CP!C!SelectInserts("tx", o)
  PROVE  /\ CP!C!TypeOK' /\ Onward(FALSE)
         /\ UNCHANGED <<v1, v2>> \/ CP!Reached("select")'
<1>. DEFINE k == Bound.creator
            Under == [creator : {k}, step : {"locked", "counted"}]
<1>1. /\ v2 \in [{k} -> OfferRow \cup {None}] /\ v1 \in [{k} -> CP!C!Statuses]
      /\ v3 \in [{"tx"} -> Under \cup {None}]
  BY DEF CP!TypeOK, CP!C!TypeOK, OfferRow
<1>2. CASE CP!C!SelectBegins("tx", k)
  <2>1. [creator |-> k, step |-> "locked"] \in Under
    OBVIOUS
  <2>2. v3' \in [{"tx"} -> Under \cup {None}] /\ UNCHANGED <<v1, v2, v4>>
    BY <1>1, <1>2, <2>1 DEF CP!C!SelectBegins
  <2>. QED  BY <2>2 DEF CP!TypeOK, CP!C!TypeOK, Onward
<1>3. CASE CP!C!SelectCounts("tx")
  <2>. DEFINE n == [v3["tx"] EXCEPT !.step = "counted"]
  <2>1. v3["tx"] \in Under /\ v3' = [v3 EXCEPT !["tx"] = n] /\ UNCHANGED <<v1, v2, v4>>
    BY <1>1, <1>3 DEF CP!C!SelectCounts
  <2>2. n \in Under
    BY <2>1
  <2>3. v3' \in [{"tx"} -> Under \cup {None}]
    BY <1>1, <2>1, <2>2
  <2>. QED  BY <2>1, <2>3 DEF CP!TypeOK, CP!C!TypeOK, Onward
<1>4. CASE CP!C!SelectEnds("tx")
  <2>1. v3' \in [{"tx"} -> Under \cup {None}] /\ UNCHANGED <<v1, v2, v4>>
    BY <1>1, <1>4 DEF CP!C!SelectEnds
  <2>. QED  BY <2>1 DEF CP!TypeOK, CP!C!TypeOK, Onward
<1>5. CASE \E o \in Ids : CP!C!SelectInserts("tx", o)
  BY <1>5, OffersInserted
<1>. QED  BY <1>2, <1>3, <1>4, <1>5

\* A step that leaves the tables alone takes nothing back.
LEMMA OffersStay ==
  ASSUME UNCHANGED <<v1, v2, v3, v4>>, CP!TypeOK
  PROVE  CP!C!TypeOK' /\ Onward(FALSE)
BY DEF Onward, CP!TypeOK, CP!C!TypeOK

\* A request that was sound stays so.
LEMMA OffersSound ==
  ASSUME NEW agreeing, Onward(agreeing), NEW r, CP!Sound(r), v10 # None => v10' # None
  PROVE  CP!Sound(r)'
BY OnwardKeeps DEF CP!Sound, CP!Fits, Onward

\* What was seen stays what was proposed.
LEMMA OffersSeen ==
  ASSUME NEW agreeing \in BOOLEAN, Onward(agreeing), CP!SeenInv, UNCHANGED v10, agreeing => v10 # None,
         v7' = v7 \/ CP!Fits(v7')
  PROVE  CP!SeenInv'
<1>1. \A x : CP!Fits(x) => CP!Fits(x)'
  BY DEF CP!Fits, Onward
<1>2. v7' # None => CP!Fits(v7)'
  BY <1>1 DEF CP!SeenInv
<1>. QED  BY <1>2 DEF CP!SeenInv, Onward

\* What a page sends.
LEMMA OffersSent ==
  ASSUME NEW what \in CP!BrandOps \cup CP!CreatorOps \cup CP!Lists \cup {"show"}, NEW offer \in Ids \cup {None}
  PROVE  /\ CP!Sent(what, offer) \in CP!Request /\ CP!Sent(what, offer).what = what
         /\ CP!Sent(what, offer).offer = offer /\ CP!Sent(what, offer).at = "sent"
BY DEF CP!Sent, CP!Request

\* What a read finds is the offer that was made.
LEMMA OffersRead ==
  ASSUME CP!TypeOK, NEW what
  PROVE  CP!Now(what) \in CP!Seen /\ CP!Fits(CP!Now("offers"))
<1>. DEFINE k == Bound.creator
            t == v2[k]
<1>1. t = None \/ (t.state \in CP!C!TermStates /\ t.proposed \in Ids)
  BY DEF CP!TypeOK, CP!C!TypeOK
<1>. DEFINE x(w) == IF v1[k] = "none" THEN "none" ELSE IF t = None \/ w = "campaigns" THEN "applied" ELSE t.state
            y(w) == IF w = "offers" /\ t # None THEN t.proposed ELSE None
<1>2. \A w : x(w) \in CP!C!TermStates \cup {"none", "applied"} /\ y(w) \in Ids \cup {None}
  BY <1>1
<1>3. x("offers") = "selected" => t # None /\ y("offers") = t.proposed
  OBVIOUS
<1>4. \A w : CP!Now(w) = [state |-> x(w), proposed |-> y(w)]
  BY DEF CP!Now
<1>. HIDE DEF x, y
<1>5. \A w : CP!Now(w) \in CP!Seen /\ CP!Now(w).state = x(w) /\ CP!Now(w).proposed = y(w)
  BY <1>2, <1>4 DEF CP!Seen
<1>. QED  BY <1>3, <1>5 DEF CP!Fits

\* A request goes on.
LEMMA OffersReply ==
  ASSUME CP!TypeOK, NEW r \in v8, NEW at \in {"locked", "ok", "no"}, NEW seen \in CP!Seen \cup {None},
         CP!Becomes(r, at, seen)
  PROVE  \E n \in CP!Request : /\ v8' = (v8 \ {r}) \cup {n} /\ n.what = r.what /\ n.offer = r.offer
                               /\ n.at = at /\ n.seen = seen
<1>. DEFINE n == [r EXCEPT !.at = at, !.seen = seen]
<1>1. n \in CP!Request /\ n.what = r.what /\ n.offer = r.offer /\ n.at = at /\ n.seen = seen
  BY DEF CP!TypeOK, CP!Request
<1>2. v8' = (v8 \ {r}) \cup {n}
  BY DEF CP!Becomes
<1>. HIDE DEF n
<1>. QED  BY <1>1, <1>2

\* A step of the server, on a request: the request goes on, and what it says is done is done.
LEMMA OffersServed ==
  ASSUME OffersInv, NEW agreeing \in BOOLEAN, Onward(agreeing), CP!C!TypeOK', UNCHANGED <<v5, v6, v7, v10>>,
         v9' = None, NEW r \in v8, agreeing => r.what = "agree",
         NEW n \in CP!Request, v8' \in {v8, (v8 \ {r}) \cup {n}}, n.what = r.what, n.offer = r.offer,
         n.at = "ok" => IF r.what \in CP!BrandOps \cup CP!CreatorOps THEN CP!Reached(r.what)'
                        ELSE r.what = "offers" => CP!Fits(n.seen)'
  PROVE  OffersInv'
<1>1. CP!TypeOK'
  BY DEF OffersInv, CP!TypeOK
<1>2. \A s \in v8 : CP!Sound(s)'
  BY OffersSound DEF OffersInv, CP!WireInv
<1>3. v8' # v8 => CP!Sound(n)'
  <2>1. r.what = "select" => r.offer # None
    BY DEF OffersInv, CP!WireInv, CP!Sound
  <2>2. r.what = "agree" => v10 # None
    BY DEF OffersInv, CP!WireInv, CP!Sound
  <2>3. "offers" \notin CP!BrandOps \cup CP!CreatorOps
    BY DEF CP!BrandOps, CP!CreatorOps
  <2>. QED  BY <2>1, <2>2, <2>3 DEF CP!Sound
<1>4. CP!WireInv'
  BY <1>2, <1>3 DEF CP!WireInv
<1>5. CP!SeenInv'
  BY OffersSeen DEF OffersInv, CP!WireInv, CP!Sound
<1>6. CP!ToldIsDone'
  BY DEF CP!ToldIsDone
<1>. QED  BY <1>1, <1>4, <1>5, <1>6 DEF OffersInv

\* A step of a page: it leaves requests and sends some.
LEMMA OffersPaged ==
  ASSUME OffersInv, UNCHANGED <<v1, v2, v3, v4>>, CP!TypeOK',
         \A s \in v8' : s \in v8 \/ (s.at = "sent" /\ (s.what = "select" => s.offer # None)
                                            /\ (s.what = "agree" => v10' # None)),
         v10' = v10 \/ (v10' # None /\ v2[Bound.creator] # None /\ v10' = v2[Bound.creator].proposed),
         v7' = v7 \/ CP!Fits(v7'), v9' = None \/ CP!Reached(v9')
  PROVE  OffersInv'
<1>1. Onward(FALSE)
  BY OffersStay DEF OffersInv
<1>2. v10 # None => v10' # None
  OBVIOUS
<1>3. \A s \in v8 : CP!Sound(s)'
  BY <1>1, <1>2, OffersSound DEF OffersInv, CP!WireInv
<1>4. CP!WireInv'
  BY <1>3 DEF CP!WireInv, CP!Sound
<1>5. CP!SeenInv'
  <2>1. v7' # None => CP!Fits(v7')
    BY DEF OffersInv, CP!SeenInv
  <2>. QED  BY <2>1 DEF OffersInv, CP!SeenInv, CP!Fits
<1>6. CP!ToldIsDone'
  <2>1. ASSUME v9' # None, CP!Reached(v9') PROVE CP!Reached(v9)'
    BY <2>1 DEF CP!Reached
  <2>. QED  BY <2>1 DEF CP!ToldIsDone
<1>. QED  BY <1>4, <1>5, <1>6 DEF OffersInv

\* At first nobody has applied.
LEMMA OffersBegin == CP!PInit => OffersInv
<1>. SUFFICES ASSUME CP!PInit PROVE OffersInv
  OBVIOUS
<1>1. CP!C!TypeOK
  BY DEF CP!PInit, CP!C!CInit, CP!C!TypeOK, CP!C!Statuses
<1>2. v2[Bound.creator] = None
  BY DEF CP!PInit, CP!C!CInit
<1>. QED  BY <1>1, <1>2 DEF CP!PInit, OffersInv, CP!TypeOK, CP!WireInv, CP!SeenInv, CP!ToldIsDone

\* However old the cards are that are pressed, and in whatever order the answers come, the
\* collaboration is what both were told.
LEMMA OffersKeep == OffersInv /\ [CP!PNext]_(CP!pvars) => OffersInv'
<1>. SUFFICES ASSUME OffersInv, [CP!PNext]_(CP!pvars) PROVE OffersInv'
  OBVIOUS
<1>a. CP!TypeOK /\ CP!WireInv /\ CP!SeenInv
  BY DEF OffersInv
<1>1. ASSUME CP!Look PROVE OffersInv'
  <2>1. /\ \/ v8' = v8 \cup {CP!Sent("show", None)}
           \/ v8' = v8 \cup {CP!Sent(l, None) : l \in CP!Lists}
        /\ v9' = None /\ UNCHANGED <<v1, v2, v3, v4, v5, v6, v7, v10>>
    BY <1>1 DEF CP!Look, CP!server, CP!shown
  <2>2. \A s \in v8' : s \in v8 \/ (s \in CP!Request /\ s.at = "sent" /\ s.what \notin {"select", "agree"})
    BY <2>1, OffersSent DEF CP!Lists
  <2>3. CP!TypeOK'
    BY <1>a, <2>1, <2>2 DEF CP!TypeOK, CP!C!TypeOK
  <2>. QED  BY <2>1, <2>2, <2>3, OffersPaged
<1>2. ASSUME NEW op \in CP!BrandOps, NEW o \in Ids \cup {None}, CP!BrandActs(op, o) PROVE OffersInv'
  <2>1. /\ v8' = v8 \cup {CP!Sent(op, o)} /\ (op = "select" => o # None)
        /\ v9' = None /\ UNCHANGED <<v1, v2, v3, v4, v5, v6, v7, v10>>
    BY <1>2 DEF CP!BrandActs, CP!server, CP!shown
  <2>2. /\ CP!Sent(op, o) \in CP!Request /\ CP!Sent(op, o).at = "sent" /\ CP!Sent(op, o).what = op
        /\ CP!Sent(op, o).offer = o /\ op # "agree"
    BY OffersSent DEF CP!BrandOps
  <2>3. CP!TypeOK'
    BY <1>a, <2>1, <2>2 DEF CP!TypeOK, CP!C!TypeOK
  <2>. QED  BY <2>1, <2>2, <2>3, OffersPaged
<1>3. ASSUME NEW op \in CP!CreatorOps, CP!CreatorActs(op) PROVE OffersInv'
  <2>1. /\ v8' = v8 \cup {CP!Sent(op, None)} /\ op \in CP!CreatorOffers
        /\ v9' = None /\ UNCHANGED <<v1, v2, v3, v4, v5, v6, v7>>
        /\ v10' = IF op = "agree" THEN v7.proposed ELSE v10
    BY <1>3 DEF CP!CreatorActs, CP!server, CP!shown
  <2>2. /\ CP!Sent(op, None) \in CP!Request /\ CP!Sent(op, None).at = "sent" /\ CP!Sent(op, None).what = op
        /\ op # "select"
    BY OffersSent DEF CP!CreatorOps
  <2>3. op = "agree" => /\ v2[Bound.creator] # None /\ v7.proposed = v2[Bound.creator].proposed
                        /\ v7.proposed \in Ids
    <3>1. op = "agree" => v7 # None /\ v7.state = "selected"
      BY <2>1 DEF CP!CreatorOffers
    <3>. QED  BY <1>a, <3>1 DEF CP!SeenInv, CP!Fits, CP!TypeOK, CP!C!TypeOK
  <2>4. CP!TypeOK'
    BY <1>a, <2>1, <2>2, <2>3 DEF CP!TypeOK, CP!C!TypeOK
  <2>. QED  BY <2>1, <2>2, <2>3, <2>4, OffersPaged, NullAssumption
<1>4. ASSUME NEW r \in v8, CP!ServeRead(r) PROVE OffersInv'
  <2>1. /\ CP!Becomes(r, "ok", CP!Now(r.what)) /\ r.what \in CP!Lists \cup {"show"} /\ v9' = None
        /\ UNCHANGED <<v1, v2, v3, v4, v5, v6, v7, v10>>
    BY <1>4 DEF CP!ServeRead, CP!server, CP!shown
  <2>2. PICK n \in CP!Request : /\ v8' = (v8 \ {r}) \cup {n} /\ n.what = r.what /\ n.offer = r.offer
                                /\ n.at = "ok" /\ n.seen = CP!Now(r.what)
    BY <1>a, <2>1, OffersReply, OffersRead
  <2>3. r.what = "offers" => CP!Fits(n.seen)'
    BY <1>a, <2>1, <2>2, OffersRead DEF CP!Fits
  <2>4. CP!C!TypeOK' /\ Onward(FALSE) /\ r.what \notin CP!BrandOps \cup CP!CreatorOps
    BY <1>a, <2>1, OffersStay DEF CP!Lists, CP!BrandOps, CP!CreatorOps
  <2>. QED  BY <2>1, <2>2, <2>3, <2>4, OffersServed
<1>5. ASSUME NEW r \in v8, CP!ServeOp(r) PROVE OffersInv'
  <2>1. /\ CP!Does(r.what) /\ v9' = None /\ UNCHANGED <<v5, v6, v7, v10>>
        /\ r.what \in CP!BrandOps \cup CP!CreatorOps
    BY <1>5 DEF CP!ServeOp, CP!shown, CP!Does, CP!BrandOps, CP!CreatorOps
  <2>2. PICK at \in {"ok", "no"} : CP!Becomes(r, at, None)
    BY <1>5 DEF CP!ServeOp
  <2>3. PICK n \in CP!Request : /\ v8' = (v8 \ {r}) \cup {n} /\ n.what = r.what /\ n.offer = r.offer
                                /\ n.at = at
    BY <1>a, <2>2, OffersReply
  <2>. DEFINE agreeing == r.what = "agree"
  <2>4. CP!C!TypeOK' /\ Onward(agreeing) /\ CP!Reached(r.what)' /\ agreeing \in BOOLEAN
    BY <1>a, <2>1, OffersDone
  <2>. QED  BY <2>1, <2>3, <2>4, OffersServed
<1>6. ASSUME NEW r \in v8, CP!ServeSelect(r) PROVE OffersInv'
  <2>1. /\ r.what = "select" /\ v9' = None /\ UNCHANGED <<v5, v6, v7, v10>>
        /\ r.offer \in Ids
    BY <1>6, <1>a DEF CP!ServeSelect, CP!shown, CP!WireInv, CP!Sound, CP!TypeOK, CP!Request
  <2>2. /\ CP!C!TypeOK' /\ Onward(FALSE) /\ (UNCHANGED <<v1, v2>> \/ CP!Reached("select")')
    BY <1>6, <1>a, <2>1, OffersSelect DEF CP!ServeSelect
  <2>3. CASE v8' = v8
    <3>1. r \in CP!Request
      BY <1>a DEF CP!TypeOK
    <3>2. r.at = "ok" => CP!Reached("select")'
      BY <1>a, <2>1, <2>2, OnwardKeeps DEF CP!WireInv, CP!Sound, CP!BrandOps
    <3>. QED  BY <2>1, <2>2, <2>3, <3>1, <3>2, OffersServed
  <2>4. CASE \E at \in {"locked", "no"} : CP!Becomes(r, at, None)
    <3>1. PICK at \in {"locked", "no"} : CP!Becomes(r, at, None)
      BY <2>4
    <3>2. PICK n \in CP!Request : /\ v8' = (v8 \ {r}) \cup {n} /\ n.what = r.what /\ n.offer = r.offer
                                  /\ n.at = at
      BY <1>a, <3>1, OffersReply
    <3>. QED  BY <2>1, <2>2, <3>2, OffersServed
  <2>5. CASE CP!C!SelectInserts("tx", r.offer) /\ \E at \in {"ok", "no"} : CP!Becomes(r, at, None)
    <3>1. PICK at \in {"ok", "no"} : CP!Becomes(r, at, None)
      BY <2>5
    <3>2. PICK n \in CP!Request : /\ v8' = (v8 \ {r}) \cup {n} /\ n.what = r.what /\ n.offer = r.offer
                                  /\ n.at = at
      BY <1>a, <3>1, OffersReply
    <3>3. CP!Reached("select")'
      BY <1>a, <2>1, <2>5, OffersInserted
    <3>. QED  BY <2>1, <2>2, <3>2, <3>3, OffersServed
  <2>. QED  BY <1>6, <2>3, <2>4, <2>5 DEF CP!ServeSelect
<1>7. ASSUME NEW r \in v8, CP!Refuse(r) PROVE OffersInv'
  <2>1. CP!Becomes(r, "no", None) /\ v9' = None /\ UNCHANGED <<v1, v2, v3, v4, v5, v6, v7, v10>>
    BY <1>7 DEF CP!Refuse, CP!server, CP!shown
  <2>2. PICK n \in CP!Request : /\ v8' = (v8 \ {r}) \cup {n} /\ n.what = r.what /\ n.offer = r.offer
                                /\ n.at = "no"
    BY <1>a, <2>1, OffersReply
  <2>3. CP!C!TypeOK' /\ Onward(FALSE)
    BY <1>a, <2>1, OffersStay
  <2>. QED  BY <2>1, <2>2, <2>3, OffersServed
<1>8. ASSUME NEW r \in v8, CP!OnRead(r) PROVE OffersInv'
  <2>1. /\ v8' = v8 \ {r} /\ v9' = None /\ UNCHANGED <<v1, v2, v3, v4, v10>>
        /\ v5' \in {v5, r.seen} /\ v6' \in {v6, r.seen}
        /\ v7' = v7 \/ (v7' = r.seen /\ r.what = "offers" /\ r.at = "ok")
    BY <1>8 DEF CP!OnRead, CP!server
  <2>2. r.seen \in CP!Seen \cup {None}
    BY <1>a DEF CP!TypeOK, CP!Request
  <2>3. v7' = v7 \/ CP!Fits(v7')
    BY <1>a, <2>1 DEF CP!WireInv, CP!Sound
  <2>4. CP!TypeOK'
    BY <1>a, <2>1, <2>2 DEF CP!TypeOK, CP!C!TypeOK
  <2>. QED  BY <2>1, <2>3, <2>4, OffersPaged
<1>9. ASSUME NEW r \in v8, CP!OnOp(r) PROVE OffersInv'
  <2>1. /\ UNCHANGED <<v1, v2, v3, v4, v5, v6, v7, v10>> /\ r.what \in CP!BrandOps \cup CP!CreatorOps
        /\ \/ v8' = v8 \ {r} /\ v9' = None
           \/ /\ v9' = r.what /\ r.at = "ok"
              /\ \/ v8' = (v8 \ {r}) \cup {CP!Sent("show", None)}
                 \/ v8' = (v8 \ {r}) \cup {CP!Sent(l, None) : l \in CP!Lists}
    BY <1>9 DEF CP!OnOp, CP!server, CP!shown
  <2>2. \A s \in v8' : s \in v8 \/ (s \in CP!Request /\ s.at = "sent" /\ s.what \notin {"select", "agree"})
    BY <2>1, OffersSent DEF CP!Lists
  <2>3. v9' = None \/ CP!Reached(v9')
    BY <1>a, <2>1 DEF CP!WireInv, CP!Sound
  <2>4. CP!TypeOK'
    BY <1>a, <2>1, <2>2 DEF CP!TypeOK, CP!C!TypeOK
  <2>. QED  BY <2>1, <2>2, <2>3, <2>4, OffersPaged
<1>10. CASE UNCHANGED CP!pvars
  <2>1. UNCHANGED <<v1, v2, v3, v4, v5, v6, v7, v8, v9, v10>>
    BY <1>10 DEF CP!pvars
  <2>2. CP!TypeOK'
    BY <1>a, <2>1 DEF CP!TypeOK, CP!C!TypeOK
  <2>3. v9' = None \/ CP!Reached(v9')
    BY <2>1 DEF OffersInv, CP!ToldIsDone
  <2>. QED  BY <2>1, <2>2, <2>3, OffersPaged
<1>. QED  BY <1>1, <1>2, <1>3, <1>4, <1>5, <1>6, <1>7, <1>8, <1>9, <1>10 DEF CP!PNext

\* The commission that was agreed to is the one that was seen.
LEMMA OffersAgreed == OffersInv => CP!AgreedAsShown
BY DEF OffersInv, CP!SeenInv, CP!AgreedAsShown

\* What is done stays done.
LEMMA OffersLast == OffersInv /\ [CP!PNext]_(CP!pvars) => CP!DoneStaysDone
<1>. SUFFICES ASSUME OffersInv, [CP!PNext]_(CP!pvars) PROVE CP!DoneStaysDone
  OBVIOUS
<1>1. ASSUME NEW agreeing, Onward(agreeing) PROVE CP!DoneStaysDone
  BY <1>1, OnwardKeeps DEF CP!DoneStaysDone
<1>2. CASE UNCHANGED <<v1, v2, v3, v4>>
  <2>1. Onward(FALSE)
    BY <1>2, OffersStay DEF OffersInv
  <2>. QED  BY <1>1, <2>1
<1>3. ASSUME NEW r \in v8, CP!ServeOp(r) PROVE CP!DoneStaysDone
  BY <1>1, <1>3, OffersDone DEF OffersInv, CP!ServeOp
<1>4. ASSUME NEW r \in v8, CP!ServeSelect(r) PROVE CP!DoneStaysDone
  <2>1. r.offer \in Ids
    BY <1>4 DEF CP!ServeSelect, OffersInv, CP!WireInv, CP!Sound, CP!TypeOK, CP!Request
  <2>. QED  BY <1>1, <1>4, <2>1, OffersSelect DEF OffersInv, CP!ServeSelect
<1>. QED
  BY <1>2, <1>3, <1>4 DEF CP!PNext, CP!pvars, CP!server, CP!Look, CP!BrandActs, CP!CreatorActs,
     CP!ServeRead, CP!Refuse, CP!OnRead, CP!OnOp

-------------------------------------------------------------------------------
(* The rooms of the creator's page, CreatorRoom *)
M == INSTANCE CreatorRoom WITH
  Cells <- Names, Langs <- Ids, MaxPosts <- Bound.posts, commOpen <- v1, typed <- v2,
  opening <- v3, posting <- v4, posted <- v5, misled <- v6, excused <- v7, lang <- v8,
  saved <- v9, chosen <- v10, detecting <- v11

\* What is typed, said and chosen in the rooms.
TalkInv ==
  /\ M!TypeOK /\ M!RoomInv
  /\ M!PostedWhereTyped /\ M!MisledOnlyWhenClosed /\ M!ChoiceIsKept

\* No room is open, and nothing is chosen.
LEMMA TalkBegins == M!MInit => TalkInv
BY DEF M!MInit, TalkInv, M!TypeOK, M!RoomInv, M!PostedWhereTyped, M!MisledOnlyWhenClosed, M!ChoiceIsKept

\* Rooms open over each other, posts are answered late and the language is detected: every
\* step keeps where a text belongs.
LEMMA TalkKeeps == TalkInv /\ [M!MNext]_(M!mvars) => TalkInv'
<1>. SUFFICES ASSUME TalkInv, [M!MNext]_(M!mvars) PROVE TalkInv'
  OBVIOUS
<1>1. ASSUME NEW c \in Names, M!CommOpenCell(c) PROVE TalkInv'
  <2>1. M!TypeOK'
    BY <1>1, NullAssumption DEF TalkInv, M!TypeOK, M!CommOpenCell, M!language, M!rooms, M!Post
  <2>2. M!RoomInv'
    BY <1>1, NullAssumption DEF TalkInv, M!RoomInv, M!CommOpenCell, M!language, M!rooms, M!TypeOK
  <2>3. M!PostedWhereTyped'
    BY <1>1, NullAssumption DEF TalkInv, M!PostedWhereTyped, M!CommOpenCell, M!language, M!rooms,
        M!RoomInv
  <2>4. M!MisledOnlyWhenClosed'
    BY <1>1, NullAssumption DEF TalkInv, M!MisledOnlyWhenClosed, M!CommOpenCell, M!language,
        M!rooms, M!RoomInv
  <2>5. M!ChoiceIsKept'
    BY <1>1, NullAssumption DEF TalkInv, M!ChoiceIsKept, M!CommOpenCell, M!language, M!rooms,
        M!RoomInv
  <2>. QED  BY <2>1, <2>2, <2>3, <2>4, <2>5 DEF TalkInv
<1>2. ASSUME NEW c \in Names, M!OnRoom(c) PROVE TalkInv'
  <2>1. M!TypeOK'
    BY <1>2, NullAssumption DEF TalkInv, M!TypeOK, M!OnRoom, M!language, M!rooms, M!Post
  <2>2. M!RoomInv'
    BY <1>2, NullAssumption DEF TalkInv, M!RoomInv, M!OnRoom, M!language, M!rooms, M!TypeOK
  <2>3. M!PostedWhereTyped'
    BY <1>2, NullAssumption DEF TalkInv, M!PostedWhereTyped, M!OnRoom, M!language, M!rooms,
        M!RoomInv
  <2>4. M!MisledOnlyWhenClosed'
    BY <1>2, NullAssumption DEF TalkInv, M!MisledOnlyWhenClosed, M!OnRoom, M!language, M!rooms,
        M!RoomInv
  <2>5. M!ChoiceIsKept'
    BY <1>2, NullAssumption DEF TalkInv, M!ChoiceIsKept, M!OnRoom, M!language, M!rooms, M!RoomInv
  <2>. QED  BY <2>1, <2>2, <2>3, <2>4, <2>5 DEF TalkInv
<1>3. ASSUME NEW c \in Names, M!OnRoomRefused(c) PROVE TalkInv'
  <2>1. M!TypeOK'
    BY <1>3, NullAssumption DEF TalkInv, M!TypeOK, M!OnRoomRefused, M!language, M!rooms, M!Post
  <2>2. M!RoomInv'
    BY <1>3, NullAssumption DEF TalkInv, M!RoomInv, M!OnRoomRefused, M!language, M!rooms, M!TypeOK
  <2>3. M!PostedWhereTyped'
    BY <1>3, NullAssumption DEF TalkInv, M!PostedWhereTyped, M!OnRoomRefused, M!language, M!rooms,
        M!RoomInv
  <2>4. M!MisledOnlyWhenClosed'
    BY <1>3, NullAssumption DEF TalkInv, M!MisledOnlyWhenClosed, M!OnRoomRefused, M!language,
        M!rooms, M!RoomInv
  <2>5. M!ChoiceIsKept'
    BY <1>3, NullAssumption DEF TalkInv, M!ChoiceIsKept, M!OnRoomRefused, M!language, M!rooms,
        M!RoomInv
  <2>. QED  BY <2>1, <2>2, <2>3, <2>4, <2>5 DEF TalkInv
<1>4. ASSUME M!CommClose PROVE TalkInv'
  <2>1. M!TypeOK'
    BY <1>4, NullAssumption DEF TalkInv, M!TypeOK, M!CommClose, M!language, M!rooms, M!Post
  <2>2. M!RoomInv'
    BY <1>4, NullAssumption DEF TalkInv, M!RoomInv, M!CommClose, M!language, M!rooms, M!TypeOK
  <2>3. M!PostedWhereTyped'
    BY <1>4, NullAssumption DEF TalkInv, M!PostedWhereTyped, M!CommClose, M!language, M!rooms,
        M!RoomInv
  <2>4. M!MisledOnlyWhenClosed'
    BY <1>4, NullAssumption DEF TalkInv, M!MisledOnlyWhenClosed, M!CommClose, M!language, M!rooms,
        M!RoomInv
  <2>5. M!ChoiceIsKept'
    BY <1>4, NullAssumption DEF TalkInv, M!ChoiceIsKept, M!CommClose, M!language, M!rooms,
        M!RoomInv
  <2>. QED  BY <2>1, <2>2, <2>3, <2>4, <2>5 DEF TalkInv
<1>5. ASSUME M!Type PROVE TalkInv'
  <2>1. M!TypeOK'
    BY <1>5, NullAssumption DEF TalkInv, M!TypeOK, M!Type, M!language, M!rooms, M!Post
  <2>2. M!RoomInv'
    BY <1>5, NullAssumption DEF TalkInv, M!RoomInv, M!Type, M!language, M!rooms, M!TypeOK
  <2>3. M!PostedWhereTyped'
    BY <1>5, NullAssumption DEF TalkInv, M!PostedWhereTyped, M!Type, M!language, M!rooms, M!RoomInv
  <2>4. M!MisledOnlyWhenClosed'
    BY <1>5, NullAssumption DEF TalkInv, M!MisledOnlyWhenClosed, M!Type, M!language, M!rooms,
        M!RoomInv
  <2>5. M!ChoiceIsKept'
    BY <1>5, NullAssumption DEF TalkInv, M!ChoiceIsKept, M!Type, M!language, M!rooms, M!RoomInv
  <2>. QED  BY <2>1, <2>2, <2>3, <2>4, <2>5 DEF TalkInv
<1>6. ASSUME M!Render PROVE TalkInv'
  <2>1. M!TypeOK'
    BY <1>6, NullAssumption DEF TalkInv, M!TypeOK, M!Render, M!language, M!rooms, M!Post
  <2>2. M!RoomInv'
    BY <1>6, NullAssumption DEF TalkInv, M!RoomInv, M!Render, M!language, M!rooms, M!TypeOK
  <2>3. M!PostedWhereTyped'
    BY <1>6, NullAssumption DEF TalkInv, M!PostedWhereTyped, M!Render, M!language, M!rooms,
        M!RoomInv
  <2>4. M!MisledOnlyWhenClosed'
    BY <1>6, NullAssumption DEF TalkInv, M!MisledOnlyWhenClosed, M!Render, M!language, M!rooms,
        M!RoomInv
  <2>5. M!ChoiceIsKept'
    BY <1>6, NullAssumption DEF TalkInv, M!ChoiceIsKept, M!Render, M!language, M!rooms, M!RoomInv
  <2>. QED  BY <2>1, <2>2, <2>3, <2>4, <2>5 DEF TalkInv
<1>7. ASSUME M!CommPost PROVE TalkInv'
  <2>1. M!TypeOK'
    BY <1>7, NullAssumption DEF TalkInv, M!TypeOK, M!CommPost, M!language, M!rooms, M!Post
  <2>2. M!RoomInv'
    BY <1>7, NullAssumption DEF TalkInv, M!RoomInv, M!CommPost, M!language, M!rooms, M!TypeOK
  <2>3. M!PostedWhereTyped'
    BY <1>7, NullAssumption DEF TalkInv, M!PostedWhereTyped, M!CommPost, M!language, M!rooms,
        M!RoomInv
  <2>4. M!MisledOnlyWhenClosed'
    BY <1>7, NullAssumption DEF TalkInv, M!MisledOnlyWhenClosed, M!CommPost, M!language, M!rooms,
        M!RoomInv
  <2>5. M!ChoiceIsKept'
    BY <1>7, NullAssumption DEF TalkInv, M!ChoiceIsKept, M!CommPost, M!language, M!rooms, M!RoomInv
  <2>. QED  BY <2>1, <2>2, <2>3, <2>4, <2>5 DEF TalkInv
<1>8. ASSUME M!Reload PROVE TalkInv'
  <2>1. M!TypeOK'
    BY <1>8, NullAssumption DEF TalkInv, M!TypeOK, M!Reload, M!language, M!rooms, M!Post
  <2>2. M!RoomInv'
    BY <1>8, NullAssumption DEF TalkInv, M!RoomInv, M!Reload, M!language, M!rooms, M!TypeOK
  <2>3. M!PostedWhereTyped'
    BY <1>8, NullAssumption DEF TalkInv, M!PostedWhereTyped, M!Reload, M!language, M!rooms,
        M!RoomInv
  <2>4. M!MisledOnlyWhenClosed'
    BY <1>8, NullAssumption DEF TalkInv, M!MisledOnlyWhenClosed, M!Reload, M!language, M!rooms,
        M!RoomInv
  <2>5. M!ChoiceIsKept'
    BY <1>8, NullAssumption DEF TalkInv, M!ChoiceIsKept, M!Reload, M!language, M!rooms, M!RoomInv
  <2>. QED  BY <2>1, <2>2, <2>3, <2>4, <2>5 DEF TalkInv
<1>9. ASSUME NEW p \in v4, M!ServePost(p) PROVE TalkInv'
  <2>10. p \in M!Post
    BY DEF TalkInv, M!TypeOK
  <2>1. M!TypeOK'
    BY <1>9, <2>10, NullAssumption DEF TalkInv, M!TypeOK, M!ServePost, M!Becomes, M!language,
        M!rooms, M!Post
  <2>2. M!RoomInv'
    BY <1>9, <2>10, NullAssumption DEF TalkInv, M!RoomInv, M!ServePost, M!Becomes, M!language,
        M!rooms, M!Post
  <2>3. M!PostedWhereTyped'
    BY <1>9, NullAssumption DEF TalkInv, M!PostedWhereTyped, M!ServePost, M!Becomes, M!language,
        M!rooms, M!RoomInv
  <2>4. M!MisledOnlyWhenClosed'
    BY <1>9, NullAssumption DEF TalkInv, M!MisledOnlyWhenClosed, M!ServePost, M!Becomes,
        M!language, M!rooms, M!RoomInv
  <2>5. M!ChoiceIsKept'
    BY <1>9, NullAssumption DEF TalkInv, M!ChoiceIsKept, M!ServePost, M!Becomes, M!language,
        M!rooms, M!RoomInv
  <2>. QED  BY <2>1, <2>2, <2>3, <2>4, <2>5 DEF TalkInv
<1>10. ASSUME NEW p \in v4, M!LosePost(p) PROVE TalkInv'
  <2>10. p \in M!Post
    BY DEF TalkInv, M!TypeOK
  <2>1. M!TypeOK'
    BY <1>10, <2>10, NullAssumption DEF TalkInv, M!TypeOK, M!LosePost, M!Becomes, M!language,
        M!rooms, M!Post
  <2>2. M!RoomInv'
    BY <1>10, <2>10, NullAssumption DEF TalkInv, M!RoomInv, M!LosePost, M!Becomes, M!language,
        M!rooms, M!Post
  <2>3. M!PostedWhereTyped'
    BY <1>10, NullAssumption DEF TalkInv, M!PostedWhereTyped, M!LosePost, M!Becomes, M!language,
        M!rooms, M!RoomInv
  <2>4. M!MisledOnlyWhenClosed'
    BY <1>10, NullAssumption DEF TalkInv, M!MisledOnlyWhenClosed, M!LosePost, M!Becomes,
        M!language, M!rooms, M!RoomInv
  <2>5. M!ChoiceIsKept'
    BY <1>10, NullAssumption DEF TalkInv, M!ChoiceIsKept, M!LosePost, M!Becomes, M!language,
        M!rooms, M!RoomInv
  <2>. QED  BY <2>1, <2>2, <2>3, <2>4, <2>5 DEF TalkInv
<1>11. ASSUME NEW p \in v4, M!OnPosted(p) PROVE TalkInv'
  <2>1. M!TypeOK'
    BY <1>11, NullAssumption DEF TalkInv, M!TypeOK, M!OnPosted, M!language, M!rooms, M!Post
  <2>2. M!RoomInv'
    BY <1>11, NullAssumption DEF TalkInv, M!RoomInv, M!OnPosted, M!language, M!rooms, M!TypeOK
  <2>3. M!PostedWhereTyped'
    BY <1>11, NullAssumption DEF TalkInv, M!PostedWhereTyped, M!OnPosted, M!language, M!rooms,
        M!RoomInv
  <2>4. M!MisledOnlyWhenClosed'
    BY <1>11, NullAssumption DEF TalkInv, M!MisledOnlyWhenClosed, M!OnPosted, M!language, M!rooms,
        M!RoomInv
  <2>5. M!ChoiceIsKept'
    BY <1>11, NullAssumption DEF TalkInv, M!ChoiceIsKept, M!OnPosted, M!language, M!rooms,
        M!RoomInv
  <2>. QED  BY <2>1, <2>2, <2>3, <2>4, <2>5 DEF TalkInv
<1>12. ASSUME NEW p \in v4, M!OnPostFailed(p) PROVE TalkInv'
  <2>1. M!TypeOK'
    BY <1>12, NullAssumption DEF TalkInv, M!TypeOK, M!OnPostFailed, M!language, M!rooms, M!Post
  <2>2. M!RoomInv'
    BY <1>12, NullAssumption DEF TalkInv, M!RoomInv, M!OnPostFailed, M!language, M!rooms, M!TypeOK
  <2>3. M!PostedWhereTyped'
    BY <1>12, NullAssumption DEF TalkInv, M!PostedWhereTyped, M!OnPostFailed, M!language, M!rooms,
        M!RoomInv
  <2>4. M!MisledOnlyWhenClosed'
    BY <1>12, NullAssumption DEF TalkInv, M!MisledOnlyWhenClosed, M!OnPostFailed, M!language,
        M!rooms, M!RoomInv
  <2>5. M!ChoiceIsKept'
    BY <1>12, NullAssumption DEF TalkInv, M!ChoiceIsKept, M!OnPostFailed, M!language, M!rooms,
        M!RoomInv
  <2>. QED  BY <2>1, <2>2, <2>3, <2>4, <2>5 DEF TalkInv
<1>13. ASSUME NEW l \in Ids, M!SetConversationLang(l) PROVE TalkInv'
  <2>1. M!TypeOK'
    BY <1>13, NullAssumption DEF TalkInv, M!TypeOK, M!SetConversationLang, M!language, M!rooms,
        M!Post
  <2>2. M!RoomInv'
    BY <1>13, NullAssumption DEF TalkInv, M!RoomInv, M!SetConversationLang, M!language, M!rooms,
        M!TypeOK
  <2>3. M!PostedWhereTyped'
    BY <1>13, NullAssumption DEF TalkInv, M!PostedWhereTyped, M!SetConversationLang, M!language,
        M!rooms, M!RoomInv
  <2>4. M!MisledOnlyWhenClosed'
    BY <1>13, NullAssumption DEF TalkInv, M!MisledOnlyWhenClosed, M!SetConversationLang,
        M!language, M!rooms, M!RoomInv
  <2>5. M!ChoiceIsKept'
    BY <1>13, NullAssumption DEF TalkInv, M!ChoiceIsKept, M!SetConversationLang, M!language,
        M!rooms, M!RoomInv
  <2>. QED  BY <2>1, <2>2, <2>3, <2>4, <2>5 DEF TalkInv
<1>14. ASSUME NEW l \in Ids, M!OnDetected(l) PROVE TalkInv'
  <2>1. M!TypeOK'
    BY <1>14, NullAssumption DEF TalkInv, M!TypeOK, M!OnDetected, M!language, M!rooms, M!Post
  <2>2. M!RoomInv'
    BY <1>14, NullAssumption DEF TalkInv, M!RoomInv, M!OnDetected, M!language, M!rooms, M!TypeOK
  <2>3. M!PostedWhereTyped'
    BY <1>14, NullAssumption DEF TalkInv, M!PostedWhereTyped, M!OnDetected, M!language, M!rooms,
        M!RoomInv
  <2>4. M!MisledOnlyWhenClosed'
    BY <1>14, NullAssumption DEF TalkInv, M!MisledOnlyWhenClosed, M!OnDetected, M!language,
        M!rooms, M!RoomInv
  <2>5. M!ChoiceIsKept'
    BY <1>14, NullAssumption DEF TalkInv, M!ChoiceIsKept, M!OnDetected, M!language, M!rooms,
        M!RoomInv
  <2>. QED  BY <2>1, <2>2, <2>3, <2>4, <2>5 DEF TalkInv
<1>15. CASE UNCHANGED M!mvars
  BY <1>15 DEF M!mvars, TalkInv, M!TypeOK, M!RoomInv, M!PostedWhereTyped, M!MisledOnlyWhenClosed,
      M!ChoiceIsKept
<1>. QED  BY <1>1, <1>2, <1>3, <1>4, <1>5, <1>6, <1>7, <1>8, <1>9, <1>10, <1>11, <1>12, <1>13, <1>14, <1>15 DEF
    M!MNext

-------------------------------------------------------------------------------
(* The approvals of the React console, ApprovalDesk *)
Y == INSTANCE ApprovalDesk WITH
  Cards <- Bound.gates, MaxLists <- Bound.pages, state <- v1, may <- v2, done <- v3,
  page <- v4, live <- v5, lists <- v6, posts <- v7, local <- v8, overlap <- v9

ASSUME ApprovalsAssumption ==
  /\ Bound.pages \in Nat \ {0}
  /\ None \notin [Bound.gates -> Y!States]
               \cup [verdict : Y!Verdicts, answer : {"none", "ok", "failed"}]

\* What the page and the lists on their way to it say.
ApprovalsInv == Y!TypeOK /\ Y!ListsInv

\* The gates wait, and the first list is asked for.
LEMMA ApprovalsBegin == Y!AInit => ApprovalsInv
<1>. SUFFICES ASSUME Y!AInit PROVE ApprovalsInv
  OBVIOUS
<1>1. v6 = <<None>> /\ v6 \in Seq([Bound.gates -> Y!States] \cup {None}) /\ Len(v6) = 1 /\ v6[1] = None
  BY DEF Y!AInit
<1>2. /\ v1 = [x \in Bound.gates |-> "PENDING"] /\ v4 = [x \in Bound.gates |-> "PENDING"]
      /\ v2 \subseteq Bound.gates /\ v3 = {} /\ v5 = FALSE /\ v7 = [x \in Bound.gates |-> None]
      /\ v8 = {} /\ v9 = FALSE
  BY DEF Y!AInit
<1>3. Y!TypeOK
  <2>1. Len(v6) <= Bound.pages
    BY <1>1, ApprovalsAssumption
  <2>2. /\ v1 \in [Bound.gates -> Y!States] /\ v4 \in [Bound.gates -> Y!States]
        /\ v7 \in [Bound.gates -> [verdict : Y!Verdicts, answer : {"none", "ok", "failed"}] \cup {None}]
    BY <1>2 DEF Y!States
  <2>. QED  BY <1>1, <1>2, <2>1, <2>2 DEF Y!TypeOK
<1>4. \A j \in DOMAIN v6 : v6[j] = None
  BY <1>1
<1>5. Y!ListsInv
  BY <1>1, <1>2, <1>4 DEF Y!ListsInv, Y!Holds, Y!Open
<1>. QED  BY <1>3, <1>5 DEF ApprovalsInv

\* What the server does leaves a decision as it is, and what was read of it true.
LEMMA ApprovalsServe ==
  ASSUME ApprovalsInv, v1' \in [Bound.gates -> Y!States], v3' \subseteq Bound.gates, v3 \subseteq v3',
         \A x \in Bound.gates : /\ v1[x] \notin Y!Open => v1'[x] \notin Y!Open
                                /\ v1'[x] = "APPROVED" => x \in v3',
         v7' \in [Bound.gates -> [verdict : Y!Verdicts, answer : {"none", "ok", "failed"}] \cup {None}],
         UNCHANGED <<v2, v4, v5, v6, v8, v9>>
  PROVE  ApprovalsInv'
<1>1. Y!TypeOK'
  BY DEF ApprovalsInv, Y!TypeOK
<1>2. ASSUME NEW s, NEW x \in Bound.gates, Y!Holds(s, x)
      PROVE  (s[x] = "APPROVED" => x \in v3') /\ (s[x] \notin Y!Open => v1'[x] \notin Y!Open)
  BY <1>2 DEF Y!Holds
<1>3. ASSUME NEW x \in Bound.gates
      PROVE  /\ x \notin v8' => /\ v4'[x] = "APPROVED" => x \in v3'
                                /\ v4'[x] \notin Y!Open => v1'[x] \notin Y!Open
             /\ \A j \in DOMAIN v6' : v6'[j] # None =>
                  /\ v6'[j][x] = "APPROVED" => x \in v3'
                  /\ v6'[j][x] \notin Y!Open => v1'[x] \notin Y!Open
                  /\ ~v9' /\ x \notin v8' /\ v4'[x] \notin Y!Open => v6'[j][x] \notin Y!Open
  BY <1>2 DEF ApprovalsInv, Y!ListsInv
<1>4. Y!ListsInv'
  BY <1>3 DEF ApprovalsInv, Y!ListsInv, Y!Holds, Y!Open
<1>. QED  BY <1>1, <1>4 DEF ApprovalsInv

\* A decision of the server is final, and one that approves is carried out.
LEMMA ApprovalsDecide ==
  ASSUME ApprovalsInv, NEW x \in Bound.gates, NEW w \in Y!Verdicts, NEW b \in BOOLEAN,
         v1[x] \in Y!Open, Y!Decides(x, w, b)
  PROVE  /\ v1' \in [Bound.gates -> Y!States] /\ v3' \subseteq Bound.gates /\ v3 \subseteq v3'
         /\ \A y \in Bound.gates : /\ v1[y] \notin Y!Open => v1'[y] \notin Y!Open
                                   /\ v1'[y] = "APPROVED" => y \in v3'
<1>1. /\ v1 \in [Bound.gates -> Y!States] /\ v3 \subseteq Bound.gates /\ w \in Y!States
      /\ \A y \in Bound.gates : v1[y] = "APPROVED" => y \in v3
  BY DEF ApprovalsInv, Y!TypeOK, Y!ListsInv, Y!Verdicts
<1>2. CASE w = "APPROVED" /\ ~b
  BY <1>1, <1>2 DEF Y!Decides
<1>3. CASE ~(w = "APPROVED" /\ ~b)
  <2>1. v1' = [v1 EXCEPT ![x] = w] /\ v3' = IF w = "APPROVED" THEN v3 \cup {x} ELSE v3
    BY <1>3 DEF Y!Decides
  <2>2. \A y \in Bound.gates : v1'[y] = IF y = x THEN w ELSE v1[y]
    BY <1>1, <2>1
  <2>. QED  BY <1>1, <2>1, <2>2
<1>. QED  BY <1>2, <1>3

\* A post changes its answer only.
LEMMA ApprovalsAnswer ==
  ASSUME ApprovalsInv, NEW x \in Bound.gates, v7[x] # None, NEW a \in {"ok", "failed"},
         v7' = [v7 EXCEPT ![x].answer = a]
  PROVE  v7' \in [Bound.gates -> [verdict : Y!Verdicts, answer : {"none", "ok", "failed"}] \cup {None}]
<1>. DEFINE n == [v7[x] EXCEPT !.answer = a]
<1>1. v7 \in [Bound.gates -> [verdict : Y!Verdicts, answer : {"none", "ok", "failed"}] \cup {None}]
  BY DEF ApprovalsInv, Y!TypeOK
<1>2. n \in [verdict : Y!Verdicts, answer : {"none", "ok", "failed"}]
  BY <1>1
<1>3. v7' = [v7 EXCEPT ![x] = n]
  OBVIOUS
<1>. HIDE DEF n
<1>. QED  BY <1>1, <1>2, <1>3

\* What is left of the lists when one came is of those that were there.
LEMMA ApprovalsLeft ==
  ASSUME ApprovalsInv, NEW k \in DOMAIN v6, v6' = Y!Without(v6, k)
  PROVE  /\ v6' \in Seq([Bound.gates -> Y!States] \cup {None})
         /\ Len(v6') = Len(v6) - 1 /\ Len(v6) \in Nat /\ Len(v6') <= Bound.pages
         /\ \A j \in DOMAIN v6' : \E i \in DOMAIN v6 : v6'[j] = v6[i]
<1>1. v6 \in Seq([Bound.gates -> Y!States] \cup {None}) /\ Len(v6) <= Bound.pages
  BY DEF ApprovalsInv, Y!TypeOK
<1>2. v6' \in Seq([Bound.gates -> Y!States] \cup {None}) /\ Len(v6') = Len(v6) - 1
  BY <1>1, OthersKeepOrder DEF Y!Without
<1>3. v6 \in Seq({v6[i] : i \in DOMAIN v6})
  BY <1>1
<1>4. v6' \in Seq({v6[i] : i \in DOMAIN v6})
  BY <1>3, OthersKeepOrder DEF Y!Without
<1>5. \A j \in DOMAIN v6' : v6'[j] \in {v6[i] : i \in DOMAIN v6}
  BY <1>4
<1>. QED  BY <1>1, <1>2, <1>5, ApprovalsAssumption

\* Whatever members decide and whenever lists come, they say what was so.
LEMMA ApprovalsKeep == ApprovalsInv /\ [Y!ANext]_(Y!avars) => ApprovalsInv'
<1>. SUFFICES ASSUME ApprovalsInv, [Y!ANext]_(Y!avars) PROVE ApprovalsInv'
  OBVIOUS
<1>t. /\ v1 \in [Bound.gates -> Y!States] /\ v2 \subseteq Bound.gates /\ v3 \subseteq Bound.gates
      /\ v4 \in [Bound.gates -> Y!States] /\ v5 \in BOOLEAN
      /\ v6 \in Seq([Bound.gates -> Y!States] \cup {None}) /\ Len(v6) <= Bound.pages
      /\ v7 \in [Bound.gates -> [verdict : Y!Verdicts, answer : {"none", "ok", "failed"}] \cup {None}]
      /\ v8 \subseteq Bound.gates /\ v9 \in BOOLEAN
  BY DEF ApprovalsInv, Y!TypeOK
<1>1. ASSUME NEW x \in Bound.gates, NEW b \in BOOLEAN, NEW h \in BOOLEAN, Y!Arrive(x, b, h)
      PROVE  ApprovalsInv'
  <2>1. v7[x] # None /\ v7[x].verdict \in Y!Verdicts /\ UNCHANGED <<v2, v4, v5, v6, v8, v9>>
    BY <1>t, <1>1 DEF Y!Arrive
  <2>2. CASE Y!Decidable(x, v7[x].verdict, x \in v2)
    <3>1. v1[x] \in Y!Open /\ Y!Decides(x, v7[x].verdict, b)
      BY <1>1, <2>2 DEF Y!Arrive, Y!Decidable
    <3>2. \E a \in {"ok", "failed"} : v7' = [v7 EXCEPT ![x].answer = a]
      BY <1>1, <2>2 DEF Y!Arrive
    <3>3. v7' \in [Bound.gates -> [verdict : Y!Verdicts, answer : {"none", "ok", "failed"}] \cup {None}]
      BY <2>1, <3>2, ApprovalsAnswer
    <3>. QED  BY <2>1, <3>1, <3>3, ApprovalsDecide, ApprovalsServe
  <2>3. CASE ~Y!Decidable(x, v7[x].verdict, x \in v2)
    <3>1. v7' = [v7 EXCEPT ![x].answer = "failed"] /\ v1' = v1 /\ v3' = v3
      BY <1>1, <2>3 DEF Y!Arrive
    <3>. QED  BY <1>t, <2>1, <3>1, ApprovalsAnswer, ApprovalsServe DEF ApprovalsInv, Y!ListsInv
  <2>. QED  BY <2>2, <2>3
<1>2. ASSUME NEW x \in Bound.gates, Y!Lose(x) PROVE ApprovalsInv'
  BY <1>t, <1>2, ApprovalsAnswer, ApprovalsServe DEF Y!Lose, ApprovalsInv, Y!ListsInv
<1>3. ASSUME NEW x \in Bound.gates, NEW w \in Y!Verdicts, NEW b \in BOOLEAN, Y!OtherDecides(x, w, b)
      PROVE  ApprovalsInv'
  <2>1. v1[x] \in Y!Open /\ Y!Decides(x, w, TRUE) /\ v7' = v7 /\ UNCHANGED <<v2, v4, v5, v6, v8, v9>>
    BY <1>3 DEF Y!OtherDecides, Y!Decidable
  <2>. QED  BY <1>t, <2>1, ApprovalsDecide, ApprovalsServe
<1>4. ASSUME NEW k \in DOMAIN v6, Y!ReadList(k) PROVE ApprovalsInv'
  <2>1. v6' = [v6 EXCEPT ![k] = v1] /\ UNCHANGED <<v1, v2, v3, v4, v5, v7, v8, v9>>
    BY <1>4 DEF Y!ReadList
  <2>2. /\ v6' \in Seq([Bound.gates -> Y!States] \cup {None}) /\ Len(v6') = Len(v6)
        /\ DOMAIN v6' = DOMAIN v6 /\ \A j \in DOMAIN v6 : v6'[j] = IF j = k THEN v1 ELSE v6[j]
    BY <1>t, <2>1
  <2>3. Y!TypeOK'
    BY <1>t, <2>1, <2>2 DEF Y!TypeOK
  <2>4. ASSUME NEW x \in Bound.gates, NEW j \in DOMAIN v6', v6'[j] # None
        PROVE  Y!Holds(v6'[j], x) /\ (~v9 /\ x \notin v8 /\ v4[x] \notin Y!Open => v6'[j][x] \notin Y!Open)
    BY <2>2, <2>4 DEF ApprovalsInv, Y!ListsInv, Y!Holds
  <2>5. Y!ListsInv'
    BY <2>1, <2>2, <2>4 DEF ApprovalsInv, Y!ListsInv, Y!Holds
  <2>. QED  BY <2>3, <2>5 DEF ApprovalsInv
<1>5. ASSUME NEW x \in Bound.gates, NEW w \in Y!Verdicts, Y!Decide(x, w) PROVE ApprovalsInv'
  <2>. DEFINE n == [verdict |-> w, answer |-> "none"]
  <2>1. v7' = [v7 EXCEPT ![x] = n] /\ UNCHANGED <<v1, v2, v3, v4, v5, v6, v8, v9>>
    BY <1>5 DEF Y!Decide
  <2>2. n \in [verdict : Y!Verdicts, answer : {"none", "ok", "failed"}]
    OBVIOUS
  <2>. HIDE DEF n
  <2>. QED  BY <1>t, <2>1, <2>2, ApprovalsServe DEF ApprovalsInv, Y!ListsInv
<1>6. ASSUME NEW x \in Bound.gates, NEW w \in Y!Verdicts, Y!ShowVerdict(x, w), v7' \in
               [Bound.gates -> [verdict : Y!Verdicts, answer : {"none", "ok", "failed"}] \cup {None}],
             UNCHANGED <<v1, v2, v3, v5, v6, v9>>
      PROVE  ApprovalsInv'
  <2>1. v4' = [v4 EXCEPT ![x] = w] /\ v8' = v8 \cup {x}
    BY <1>6 DEF Y!ShowVerdict
  <2>2. v4' \in [Bound.gates -> Y!States] /\ \A y \in Bound.gates \ {x} : v4'[y] = v4[y]
    BY <1>t, <2>1 DEF Y!Verdicts
  <2>3. Y!TypeOK'
    BY <1>t, <1>6, <2>1, <2>2 DEF Y!TypeOK
  <2>4. Y!ListsInv'
    BY <1>6, <2>1, <2>2 DEF ApprovalsInv, Y!ListsInv, Y!Holds, Y!Open
  <2>. QED  BY <2>3, <2>4 DEF ApprovalsInv
<1>7. ASSUME NEW x \in Bound.gates, NEW w \in Y!Verdicts, Y!DecideOffline(x, w) PROVE ApprovalsInv'
  BY <1>t, <1>6, <1>7 DEF Y!DecideOffline
<1>8. ASSUME NEW x \in Bound.gates, Y!Failed(x) PROVE ApprovalsInv'
  <2>1. v7[x].verdict \in Y!Verdicts /\ v7' = [v7 EXCEPT ![x] = None]
    BY <1>t, <1>8 DEF Y!Failed
  <2>2. v7' \in [Bound.gates -> [verdict : Y!Verdicts, answer : {"none", "ok", "failed"}] \cup {None}]
    BY <1>t, <2>1
  <2>. QED  BY <1>6, <1>8, <2>1, <2>2 DEF Y!Failed
<1>9. ASSUME NEW x \in Bound.gates, Y!Decided(x) PROVE ApprovalsInv'
  <2>1. /\ v7' = [v7 EXCEPT ![x] = None] /\ v6' = Append(v6, None) /\ v9' = (v9 \/ v6 # <<>>)
        /\ Len(v6) < Bound.pages /\ UNCHANGED <<v1, v2, v3, v4, v5, v8>>
    BY <1>9 DEF Y!Decided
  <2>2. v7' \in [Bound.gates -> [verdict : Y!Verdicts, answer : {"none", "ok", "failed"}] \cup {None}]
    BY <1>t, <2>1
  <2>3. /\ v6' \in Seq([Bound.gates -> Y!States] \cup {None}) /\ Len(v6') = Len(v6) + 1
        /\ Len(v6) \in Nat /\ \A j \in DOMAIN v6' : v6'[j] = None \/ (j \in DOMAIN v6 /\ v6'[j] = v6[j])
    BY <1>t, <2>1
  <2>4. Y!TypeOK'
    BY <1>t, <2>1, <2>2, <2>3, ApprovalsAssumption DEF Y!TypeOK
  <2>5. ~v9' => ~v9 /\ Len(v6') <= 1
    <3>1. v6 = <<>> => Len(v6') <= 1
      BY <2>3
    <3>2. ~v9' => ~v9 /\ v6 = <<>>
      BY <2>1
    <3>. QED  BY <3>1, <3>2
  <2>6. Y!ListsInv'
    BY <2>1, <2>3, <2>5 DEF ApprovalsInv, Y!ListsInv, Y!Holds, Y!Open
  <2>. QED  BY <2>4, <2>6 DEF ApprovalsInv
<1>10. ASSUME NEW k \in DOMAIN v6, Y!Refreshed(k) PROVE ApprovalsInv'
  <2>1. /\ v6[k] # None /\ v4' = v6[k] /\ v5' = TRUE /\ v8' = {} /\ v6' = Y!Without(v6, k)
        /\ UNCHANGED <<v1, v2, v3, v7, v9>>
    BY <1>10 DEF Y!Refreshed
  <2>2. v4' \in [Bound.gates -> Y!States]
    BY <1>t, <2>1
  <2>3. Y!TypeOK'
    BY <1>t, <2>1, <2>2, ApprovalsLeft DEF Y!TypeOK
  <2>4. ~v9 => Len(v6') = 0 /\ DOMAIN v6' = {}
    BY <1>t, <2>1, ApprovalsLeft DEF ApprovalsInv, Y!ListsInv
  <2>5. Y!ListsInv'
    BY <2>1, <2>4, ApprovalsLeft DEF ApprovalsInv, Y!ListsInv, Y!Holds, Y!Open
  <2>. QED  BY <2>3, <2>5 DEF ApprovalsInv
<1>11. ASSUME NEW k \in DOMAIN v6, Y!NotRefreshed(k) PROVE ApprovalsInv'
  <2>1. v5' = FALSE /\ v6' = Y!Without(v6, k) /\ UNCHANGED <<v1, v2, v3, v4, v7, v8, v9>>
    BY <1>11 DEF Y!NotRefreshed
  <2>2. Y!TypeOK'
    BY <1>t, <2>1, ApprovalsLeft DEF Y!TypeOK
  <2>3. ~v9 => Len(v6') <= 1
    BY <1>t, <2>1, ApprovalsLeft DEF ApprovalsInv, Y!ListsInv
  <2>4. Y!ListsInv'
    BY <2>1, <2>3, ApprovalsLeft DEF ApprovalsInv, Y!ListsInv, Y!Holds, Y!Open
  <2>. QED  BY <2>2, <2>4 DEF ApprovalsInv
<1>12. CASE UNCHANGED Y!avars
  BY <1>12 DEF Y!avars, ApprovalsInv, Y!TypeOK, Y!ListsInv, Y!Holds
<1>. QED  BY <1>1, <1>2, <1>3, <1>4, <1>5, <1>7, <1>8, <1>9, <1>10, <1>11, <1>12 DEF Y!ANext

\* What the page calls approved was executed.
LEMMA ApprovalsTell == ApprovalsInv => Y!ApprovedIsExecuted
BY DEF ApprovalsInv, Y!ListsInv, Y!Holds, Y!ApprovedIsExecuted

\* A card is open again after its decision only by lists that overtook each other, or by the
\* page itself.
LEMMA ApprovalsLast == ApprovalsInv /\ [Y!ANext]_(Y!avars) => Y!DecidedStaysDecided
<1>. SUFFICES ASSUME ApprovalsInv, [Y!ANext]_(Y!avars), NEW x \in Bound.gates,
                     v4[x] \notin Y!Open, v4'[x] \in Y!Open, ~v9, x \notin v8 \cup v8'
              PROVE  FALSE
  BY DEF Y!DecidedStaysDecided
<1>1. \/ v4' = v4
      \/ \E y \in Bound.gates, w \in Y!Verdicts : Y!ShowVerdict(y, w)
      \/ \E k \in DOMAIN v6 : Y!Refreshed(k)
  <2>1. ASSUME NEW y \in Bound.gates, Y!Failed(y) PROVE \E w \in Y!Verdicts : Y!ShowVerdict(y, w)
    BY <2>1 DEF ApprovalsInv, Y!TypeOK, Y!Failed
  <2>. QED
    BY <2>1 DEF Y!ANext, Y!avars, Y!Arrive, Y!Lose, Y!OtherDecides, Y!ReadList, Y!Decide,
       Y!DecideOffline, Y!Decided, Y!NotRefreshed
<1>2. ASSUME NEW y \in Bound.gates, NEW w \in Y!Verdicts, Y!ShowVerdict(y, w) PROVE FALSE
  <2>1. y # x
    BY <1>2 DEF Y!ShowVerdict
  <2>. QED  BY <1>2, <2>1 DEF ApprovalsInv, Y!TypeOK, Y!ShowVerdict
<1>3. ASSUME NEW k \in DOMAIN v6, Y!Refreshed(k) PROVE FALSE
  <2>1. v6[k] # None /\ v4' = v6[k]
    BY <1>3 DEF Y!Refreshed
  <2>. QED  BY <2>1 DEF ApprovalsInv, Y!ListsInv
<1>. QED  BY <1>1, <1>2, <1>3
===============================================================================
