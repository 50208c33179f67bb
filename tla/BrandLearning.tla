----------------------------- MODULE BrandLearning -----------------------------
(* The page that learns a brand: its stored profile, the answers that may be typed,   *)
(* the analysis of a homepage, and the conversation with the assistant.  Everything   *)
(* of the page is emptied when the brand changes, but the two flags: they are freed   *)
(* by the answers they wait for, of whatever brand these are.                         *)
EXTENDS Naturals

CONSTANTS
  Brands,
  Urls,
  MaxChanges,  \* bound: changes of the brand
  None

VARIABLES
  brand,        \* BRAND()
  visit,        \* how often the brand changed
  profileData,  \* the brand whose profile is shown
  answers,      \* profileAnswers: for which brand, and who filled them last
  url,          \* profileUrl
  analysed,     \* profileDraft: brand and address of the analysis
  profileBusy,
  loading,      \* loads of the profile in flight
  learning,     \* the analyses and savings in flight
  stored,       \* what each brand has stored: the brand its answers were given for
  chatBusy,
  chat,         \* chatMessages: the visit of each, in order of coming: a question, an answer
  chatting,     \* the question in flight
  raced         \* history: the brand changed while an analysis, or a question, was answered

hvars == <<brand, visit, profileData, answers, url, analysed, profileBusy, loading, learning,
           stored, chatBusy, chat, chatting, raced>>

Page == <<profileData, answers, url, analysed>>
Talk == <<chatBusy, chat, chatting>>
Given == [brand : Brands, by : {"stored", "typed", "analysis"}]
Learning == [kind : {"learn", "save"}, brand : Brands, url : Urls \cup {None},
             answers : Given \cup {None}, saved : BOOLEAN]

TypeOK ==
  /\ brand \in Brands \cup {None} /\ visit \in 0..MaxChanges
  /\ profileData \in Brands \cup {None} /\ answers \in Given \cup {None}
  /\ url \in Urls \cup {None} /\ analysed \in [brand : Brands, url : Urls] \cup {None}
  /\ profileBusy \in BOOLEAN /\ chatBusy \in BOOLEAN /\ raced \in BOOLEAN
  /\ loading \subseteq Brands /\ learning \subseteq Learning
  /\ stored \in [Brands -> Brands \cup {None}]
  /\ chat \subseteq [visit : 0..MaxChanges, who : {"user", "assistant"}]
  /\ chatting \in [brand : Brands, visit : 0..MaxChanges] \cup {None}

-------------------------------------------------------------------------------
\* Mutant: the flag is freed too.
ReloadBrand_Frees(b) ==
  /\ b # brand /\ brand' = b
  /\ visit < MaxChanges /\ visit' = visit + 1
  /\ profileData' = None /\ answers' = None /\ url' = None /\ analysed' = None
  /\ profileBusy' = FALSE /\ chat' = {}
  /\ loading' = IF b = None THEN loading ELSE loading \cup {b}
  /\ raced' = (raced \/ profileBusy \/ chatBusy)
  /\ UNCHANGED <<learning, stored, chatBusy, chatting>>

\* reloadBrand, for a brand that is picked, changed or left.
ReloadBrand(b) ==
  /\ b # brand /\ brand' = b
  /\ visit < MaxChanges /\ visit' = visit + 1
  /\ profileData' = None /\ answers' = None /\ url' = None /\ analysed' = None
  /\ chat' = {}
  /\ loading' = IF b = None THEN loading ELSE loading \cup {b}
  /\ raced' = (raced \/ profileBusy \/ chatBusy)
  /\ UNCHANGED <<profileBusy, learning, stored, chatBusy, chatting>>

-------------------------------------------------------------------------------
(* The profile *)

\* loadProfile's answer, over what was typed meanwhile.
OnProfile(b) ==
  /\ b \in loading /\ loading' = loading \ {b}
  /\ IF b = brand
       THEN /\ profileData' = b
            /\ answers' = IF stored[b] # None THEN [brand |-> b, by |-> "stored"] ELSE answers
       ELSE UNCHANGED <<profileData, answers>>
  /\ UNCHANGED <<brand, visit, url, analysed, profileBusy, learning, stored, Talk, raced>>

OnProfileFailed(b) ==
  /\ b \in loading /\ loading' = loading \ {b}
  /\ UNCHANGED <<brand, visit, Page, profileBusy, learning, stored, Talk, raced>>

ProfileAnswer ==
  /\ brand # None
  /\ answers' = [brand |-> brand, by |-> "typed"]
  /\ UNCHANGED <<brand, visit, profileData, url, analysed, profileBusy, loading, learning,
                 stored, Talk, raced>>

\* Another address: the analysis of the one before is dropped.
ProfileUrlChanged(u) ==
  /\ brand # None /\ ~profileBusy /\ u # url
  /\ url' = u /\ analysed' = None
  /\ UNCHANGED <<brand, visit, profileData, answers, profileBusy, loading, learning, stored, Talk, raced>>

\* liveLearn and liveSaveProfile.
LiveLearn ==
  /\ brand # None /\ ~profileBusy /\ url # None
  /\ profileBusy' = TRUE /\ analysed' = None
  /\ learning' = learning \cup
       {[kind |-> "learn", brand |-> brand, url |-> url, answers |-> None, saved |-> FALSE]}
  /\ UNCHANGED <<brand, visit, profileData, answers, url, loading, stored, Talk, raced>>

LiveSaveProfile ==
  /\ brand # None /\ ~profileBusy /\ (analysed # None \/ answers # None)
  /\ profileBusy' = TRUE
  /\ learning' = learning \cup
       {[kind |-> "save", brand |-> brand, url |-> IF analysed = None THEN None ELSE analysed.url,
         answers |-> answers, saved |-> FALSE]}
  /\ UNCHANGED <<brand, visit, Page, loading, stored, Talk, raced>>

ServeSave(r) ==
  /\ r.kind = "save" /\ ~r.saved
  /\ stored' = [stored EXCEPT ![r.brand] = IF r.answers = None THEN r.brand ELSE r.answers.brand]
  /\ learning' = (learning \ {r}) \cup {[r EXCEPT !.saved = TRUE]}
  /\ UNCHANGED <<brand, visit, Page, profileBusy, loading, Talk, raced>>

\* What was typed is overwritten by what the page tells.
OnLearned(r) ==
  /\ r.kind = "learn" /\ learning' = learning \ {r}
  /\ profileBusy' = FALSE
  /\ IF r.brand = brand
       THEN /\ analysed' = [brand |-> brand, url |-> r.url]
            /\ answers' = [brand |-> brand, by |-> "analysis"]
       ELSE UNCHANGED <<analysed, answers>>
  /\ UNCHANGED <<brand, visit, profileData, url, loading, stored, Talk, raced>>

OnSaved(r) ==
  /\ r.saved /\ learning' = learning \ {r}
  /\ profileBusy' = FALSE
  /\ IF r.brand = brand THEN profileData' = brand /\ analysed' = None
                        ELSE UNCHANGED <<profileData, analysed>>
  /\ UNCHANGED <<brand, visit, answers, url, loading, stored, Talk, raced>>

OnLearningFailed(r) ==
  /\ learning' = learning \ {r} /\ profileBusy' = FALSE
  /\ UNCHANGED <<brand, visit, Page, loading, stored, Talk, raced>>

-------------------------------------------------------------------------------
(* The conversation *)

LiveChat ==
  /\ brand # None /\ ~chatBusy
  /\ chatBusy' = TRUE
  /\ chat' = chat \cup {[visit |-> visit, who |-> "user"]}
  /\ chatting' = [brand |-> brand, visit |-> visit]
  /\ UNCHANGED <<brand, visit, Page, profileBusy, loading, learning, stored, raced>>

\* An answer or its failure, which is shown as one.
OnReply ==
  /\ chatting # None /\ chatting' = None /\ chatBusy' = FALSE
  /\ chat' = IF chatting.brand = brand
               THEN chat \cup {[visit |-> chatting.visit, who |-> "assistant"]} ELSE chat
  /\ UNCHANGED <<brand, visit, Page, profileBusy, loading, learning, stored, raced>>

-------------------------------------------------------------------------------
HInit ==
  /\ brand = None /\ visit = 0 /\ profileData = None /\ answers = None /\ url = None
  /\ analysed = None /\ profileBusy = FALSE /\ loading = {} /\ learning = {}
  /\ stored = [b \in Brands |-> None]
  /\ chatBusy = FALSE /\ chat = {} /\ chatting = None /\ raced = FALSE

HNext ==
  \/ \E b \in Brands \cup {None} : ReloadBrand(b)
  \/ \E b \in loading : OnProfile(b) \/ OnProfileFailed(b)
  \/ ProfileAnswer \/ \E u \in Urls : ProfileUrlChanged(u)
  \/ LiveLearn \/ LiveSaveProfile
  \/ \E r \in learning : ServeSave(r) \/ OnLearned(r) \/ OnSaved(r) \/ OnLearningFailed(r)
  \/ LiveChat \/ OnReply

HSpec == HInit /\ [][HNext]_hvars

-------------------------------------------------------------------------------
(* Properties *)

\* No brand's profile is stored with, or shown among, answers that were typed, analysed or
\* loaded for another brand.
AnswersOfTheBrand ==
  /\ answers # None => answers.brand = brand
  /\ \A b \in Brands : stored[b] \in {b, None}

\* The flag is up exactly while an analysis or a saving is on its way, never two: what the
\* flag protects is not started again on another brand, nor after coming back to this one.
OneLearning ==
  \A r \in learning : learning = {r} /\ profileBusy

\* An analysis that may be saved is of the address that stands in the form, and an answer
\* of the assistant stands below a question, unless the brand changed, and changed back,
\* while it was on its way: the comparison of the brand does not notice that.
AnswersWhatIsAsked ==
  ~raced => /\ analysed # None => analysed = [brand |-> brand, url |-> url]
            /\ \A m \in chat : [m EXCEPT !.who = "user"] \in chat /\ m.visit = visit

\* What makes the properties inductive: answers on their way are of the brand they are saved
\* for, and until the brand changes under one, what is asked is of the page as it stands.
AskedInv ==
  /\ \A r \in learning : /\ (r.answers # None => r.answers.brand = r.brand)
                         /\ (r.kind = "learn" => r.url # None)
  /\ (chatting # None => chatBusy)
  /\ ~raced => /\ \A r \in learning : r.brand = brand /\ (r.kind = "learn" => r.url = url)
               /\ (chatting # None => chatting = [brand |-> brand, visit |-> visit])
               /\ (chatting # None => [visit |-> visit, who |-> "user"] \in chat)
===============================================================================
