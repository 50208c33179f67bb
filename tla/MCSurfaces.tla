------------------------------ MODULE MCSurfaces ------------------------------
(* The pages of the four surfaces, the tables behind them and the engines of the      *)
(* harvest, that share no state but what each module has of the others already.  A    *)
(* behaviour follows one of them, chosen at the start, and v1, v2... are the variables *)
(* of that one.  Names stands for the two brands, accounts, creators, rooms, tabs or  *)
(* processes of a part, and Ids for its requests, tokens, addresses or languages.     *)
EXTENDS SurfaceParts, TableParts, TLC

vars == <<part, v1, v2, v3, v4, v5, v6, v7, v8, v9, v10, v11, v12, v13, v14>>

\* The variables a part does not have.
Rest13 == v14 = None
Rest12 == v13 = None /\ Rest13
Rest11 == v12 = None /\ Rest12
Rest10 == v11 = None /\ Rest11
Rest9 == v10 = None /\ Rest10
Rest8 == v9 = None /\ Rest9
Rest7 == v8 = None /\ Rest8
Rest6 == v7 = None /\ Rest7
Rest5 == v6 = None /\ Rest6
Rest4 == v5 = None /\ Rest5

\* The threads of the inbox are of one brand; the other one has none.
Init ==
  \/ part = "session"   /\ S!SInit /\ Rest8
  \/ part = "epoch"     /\ E!EInit /\ Rest5
  \/ part = "panels"    /\ B!BInit /\ Rest9
  \/ part = "billing"   /\ P!PInit /\ Rest9
  \/ part = "mail"      /\ O!OInit /\ Rest13
  \/ part = "learning"  /\ H!HInit
  \/ part = "rooms"     /\ G!GInit /\ Rest12
  \/ part = "creator"   /\ R!RInit /\ Rest9
  \/ part = "talk"      /\ M!MInit /\ Rest11
  \/ part = "collab"    /\ C!CInit /\ Rest4
  \/ part = "desk"      /\ D!DInit /\ Rest7
  \/ part = "pool"      /\ I!IInit /\ Rest9
  \/ part = "dispatch"  /\ K!KInit /\ Rest8
  \/ part = "sender"    /\ W!WInit /\ Rest7
  \/ part = "signup"    /\ U!Init
  \/ part = "admin"     /\ X!XInit /\ Rest9
  \/ part = "inbox"     /\ N!NInit /\ \A t, u \in Names : v1[t] = v1[u]
  \/ part = "drip"      /\ Q!QInit /\ Rest13
  \/ part = "referral"  /\ F!FInit /\ Rest8
  \/ part = "seeding"   /\ A!GInit /\ Rest5
  \/ part = "finding"   /\ V!DInit /\ Rest11
  \/ part = "posts"     /\ J!SInit /\ Rest5
  \/ part = "fit"       /\ L!MInit /\ Rest13
  \/ part = "links"     /\ T!LInit /\ Rest6
  \/ part = "approvals" /\ Y!AInit /\ Rest9
  \/ part = "gates"     /\ Z!GInit /\ Rest5
  \/ part = "consent"   /\ CS!CInit /\ Rest5
  \/ part = "screens"   /\ CR!RInit /\ Rest10
  \/ part = "offers"    /\ CP!PInit /\ Rest10
  \/ part = "forms"     /\ CF!FInit /\ Rest9
  \/ part = "apply"     /\ SF!SInit

Next ==
  \/ part = "session"   /\ S!SNext /\ UNCHANGED <<part, v9, v10, v11, v12, v13, v14>>
  \/ part = "epoch"     /\ E!ENext /\ UNCHANGED <<part, v6, v7, v8, v9, v10, v11, v12, v13, v14>>
  \/ part = "panels"    /\ B!BNext /\ UNCHANGED <<part, v10, v11, v12, v13, v14>>
  \/ part = "billing"   /\ P!PNext /\ UNCHANGED <<part, v10, v11, v12, v13, v14>>
  \/ part = "mail"      /\ O!ONext /\ UNCHANGED <<part, v14>>
  \/ part = "learning"  /\ H!HNext /\ UNCHANGED part
  \/ part = "rooms"     /\ G!GNext /\ UNCHANGED <<part, v13, v14>>
  \/ part = "creator"   /\ R!RNext /\ UNCHANGED <<part, v10, v11, v12, v13, v14>>
  \/ part = "talk"      /\ M!MNext /\ UNCHANGED <<part, v12, v13, v14>>
  \/ part = "collab"    /\ C!CNext /\ UNCHANGED <<part, v5, v6, v7, v8, v9, v10, v11, v12, v13, v14>>
  \/ part = "desk"      /\ D!DNext /\ UNCHANGED <<part, v8, v9, v10, v11, v12, v13, v14>>
  \/ part = "pool"      /\ I!INext /\ UNCHANGED <<part, v10, v11, v12, v13, v14>>
  \/ part = "dispatch"  /\ K!KNext /\ UNCHANGED <<part, v9, v10, v11, v12, v13, v14>>
  \/ part = "sender"    /\ W!WNext /\ UNCHANGED <<part, v8, v9, v10, v11, v12, v13, v14>>
  \/ part = "signup"    /\ U!Next /\ UNCHANGED part
  \/ part = "admin"     /\ X!XNext /\ UNCHANGED <<part, v10, v11, v12, v13, v14>>
  \/ part = "inbox"     /\ N!NNext /\ UNCHANGED part
  \/ part = "drip"      /\ Q!QNext /\ UNCHANGED <<part, v14>>
  \/ part = "referral"  /\ F!FNext /\ UNCHANGED <<part, v9, v10, v11, v12, v13, v14>>
  \/ part = "seeding"   /\ A!GNext /\ UNCHANGED <<part, v6, v7, v8, v9, v10, v11, v12, v13, v14>>
  \/ part = "finding"   /\ V!DNext /\ UNCHANGED <<part, v12, v13, v14>>
  \/ part = "posts"     /\ J!SNext /\ UNCHANGED <<part, v6, v7, v8, v9, v10, v11, v12, v13, v14>>
  \/ part = "fit"       /\ L!MNext /\ UNCHANGED <<part, v14>>
  \/ part = "links"     /\ T!LNext /\ UNCHANGED <<part, v7, v8, v9, v10, v11, v12, v13, v14>>
  \/ part = "approvals" /\ Y!ANext /\ UNCHANGED <<part, v10, v11, v12, v13, v14>>
  \/ part = "gates"     /\ Z!GNext /\ UNCHANGED <<part, v6, v7, v8, v9, v10, v11, v12, v13, v14>>
  \/ part = "consent"   /\ CS!CNext /\ UNCHANGED <<part, v6, v7, v8, v9, v10, v11, v12, v13, v14>>
  \/ part = "screens"   /\ CR!RNext /\ UNCHANGED <<part, v11, v12, v13, v14>>
  \/ part = "offers"    /\ CP!PNext /\ UNCHANGED <<part, v11, v12, v13, v14>>
  \/ part = "forms"     /\ CF!FNext /\ UNCHANGED <<part, v10, v11, v12, v13, v14>>
  \/ part = "apply"     /\ SF!SNext /\ UNCHANGED part

Spec == Init /\ [][Next]_vars

\* For TLC.
Few == [refreshes |-> 2, changes |-> 3, turns |-> 3, posts |-> 2, asked |-> 2, replies |-> 1,
        signins |-> 2, loads |-> 6, looks |-> 3, tokens |-> 2, lists |-> 4, edits |-> 4,
        apps |-> 2, checks |-> 1, places |-> 1, offers |-> {5, 10}, candidates |-> {"c"},
        perCall |-> 1, dailyCap |-> 2, days |-> 2, versions |-> 2, users |-> {"u"},
        brands |-> {"b", "demo"}, demos |-> {"demo"}, entries |-> 5, ttl |-> 2, epochs |-> 1,
        ticks |-> 3, addresses |-> {"a"}, mails |-> 1, peers |-> 2, window |-> 2,
        until |-> [invite |-> 3, magic |-> 1, reset |-> 2], time |-> 2, links |-> 2,
        texts |-> 2, cards |-> 3, creator |-> "c", gates |-> {"g"},
        pages |-> 3, hooks |-> 2, ban |-> 2, day |-> 3, grants |-> 2, entered |-> 5,
        submitted |-> {"p"}, creators |-> {"c"}, communities |-> {"c"}, week |-> 2,
        warned |-> 3, lastDay |-> 3, drafts |-> 2, people |-> {"o", "p", "q"},
        perDevice |-> 2, vendors |-> {1, 2}, budget |-> 1, observed |-> 2, perNew |-> 2,
        streak |-> 2, fanout |-> 1, seen |-> 1, delays |-> <<1>>, warmup |-> <<1, 2>>,
        minSent |-> 2, perMail |-> 3, lastMail |-> 1]
Symmetry == Permutations(Names) \cup Permutations(Ids)

-------------------------------------------------------------------------------
\* The values of every variable, in every part.
TypeOK ==
  /\ part = "session"   => S!TypeOK
  /\ part = "epoch"     => E!TypeOK
  /\ part = "panels"    => B!TypeOK
  /\ part = "billing"   => P!TypeOK
  /\ part = "mail"      => O!TypeOK
  /\ part = "learning"  => H!TypeOK
  /\ part = "rooms"     => G!TypeOK
  /\ part = "creator"   => R!TypeOK
  /\ part = "talk"      => M!TypeOK
  /\ part = "collab"    => C!TypeOK
  /\ part = "desk"      => D!TypeOK
  /\ part = "pool"      => I!TypeOK
  /\ part = "dispatch"  => K!TypeOK
  /\ part = "sender"    => W!TypeOK
  /\ part = "signup"    => U!TypeOK
  /\ part = "admin"     => X!TypeOK
  /\ part = "inbox"     => N!TypeOK
  /\ part = "drip"      => Q!TypeOK
  /\ part = "referral"  => F!TypeOK
  /\ part = "seeding"   => A!TypeOK
  /\ part = "finding"   => V!TypeOK
  /\ part = "posts"     => J!TypeOK
  /\ part = "fit"       => L!TypeOK
  /\ part = "links"     => T!TypeOK
  /\ part = "approvals" => Y!TypeOK
  /\ part = "gates"     => Z!TypeOK
  /\ part = "consent"   => CS!TypeOK
  /\ part = "screens"   => CR!TypeOK
  /\ part = "offers"    => CP!TypeOK
  /\ part = "forms"     => CF!TypeOK
  /\ part = "apply"     => SF!TypeOK

\* A page acts for the account it shows, but for a token replaced under it, and a session
\* that was revoked, or is new, is judged right by every process within the cache's time.
\* Of the tabs of the admin app each has the account that signed in, the second factor
\* asks for no code that nobody can give, and the first account is made once, but for
\* calls that crossed.  A link that is mailed fits the account of its address, no more
\* than the limit are mailed, and a reset of the password ends the sessions before it.
SessionIsOne ==
  /\ part = "session"   => S!MixedOnlyInRace
  /\ part = "epoch"     => E!RevokedWithinTtl
  /\ part = "epoch"     => E!NewSessionWithinTtl
  /\ part = "admin"     => X!NotLockedOut
  /\ part = "admin"     => X!OneBootstrap
  /\ part = "admin"     => X!SignedInHasToken
  /\ part = "links"     => T!LinksFitTheAccount
  /\ part = "links"     => T!ResetsAreLimited
  /\ part = "links"     => T!ResetEndsSessions

\* What a page shows, or works on, is of the brand or creator chosen above it, although
\* answers for another one still arrive.
PagesShowTheirBrand ==
  /\ part = "panels"    => B!OwnBrandOnly
  /\ part = "panels"    => B!FailureOfTheBrand
  /\ part = "apply"     => SF!LearningFitsTheSite
  /\ part = "billing"   => P!BillingOfTheBrand
  /\ part = "mail"      => O!DraftOfTheBrand
  /\ part = "learning"  => H!AnswersOfTheBrand
  /\ part = "creator"   => R!ForeignOnlyAfterLink
  /\ part = "inbox"     => N!ThreadOfTheBrand
  /\ part = "inbox"     => N!ResultOfTheBrand

\* Of several answers to the same question the page keeps the newest, what it tells of a
\* text, a list or an address is of the one it shows, and what it shows as done is stored,
\* but for the causes that are named.
PagesShowTheNewest ==
  /\ part = "panels"    => B!NewestAnswer
  /\ part = "creator"   => R!ReadyIsNewest
  /\ part = "billing"   => P!StaleOnlyWhenMissed
  /\ part = "pool"      => I!PlanIsOfTheText
  /\ part = "mail"      => O!PickedAreShown
  /\ part = "learning"  => H!AnswersWhatIsAsked
  /\ part = "inbox"     => N!RepliesAreShown
  /\ part = "screens"   => CR!ShownIsStored
  /\ part = "offers"    => CP!ToldIsDone
  /\ part = "forms"     => CF!CardTellsStored
  /\ part = "apply"     => SF!TextIsOfTheSite
  /\ part = "apply"     => SF!StatusIsOfTheSlug

\* A button is blocked while its request is on its way, and freed with the answer, also
\* when the brand or the room changes in between: one request of a kind at a time.
PagesAskOnce ==
  /\ part = "billing"   => P!BusyOnlyWhileAsked
  /\ part = "billing"   => P!OneCardOp
  /\ part = "learning"  => H!OneLearning
  /\ part = "rooms"     => G!BlockedWhileReplying
  /\ part = "desk"      => D!OneDecisionEach
  /\ part = "inbox"     => N!OneSync

\* What a person typed goes where it was typed, and gives way to nothing older or made up.  A
\* reply and a message are stored in the thread, or the room, they were typed in, whatever was
\* opened in between; the model's text replaces none, a made-up value no stored one, an older
\* text no newer one but for the causes named; a brand's reply stays until it is stored or its
\* room is left, the text of the outreach form until its saving is answered; a chosen language
\* stays, and the link of an approval is shown until it is closed.
\* A typed text is not said to survive elsewhere.  Every render empties the reply to a thread,
\* the creator's message and the cards of the console (only the fields of the outreach form
\* and the question are put back), a list that comes late goes over a field of the creator's
\* screens, and the answer to a saved draft over what was typed into the form meanwhile:
\* Render, Redraw, OnRoom, OnDetected, Load and OnDrafted of the modules take it.
TextsGoWhereTyped ==
  /\ [](/\ part = "mail"      => O!LostOnlyWhenChanged
        /\ part = "rooms"     => G!RepliedWhereTyped
        /\ part = "rooms"     => G!OlderOnlyByRetry
        /\ part = "inbox"     => N!RepliedWhereTyped
        /\ part = "talk"      => M!PostedWhereTyped
        /\ part = "talk"      => M!MisledOnlyWhenClosed
        /\ part = "talk"      => M!ChoiceIsKept
        /\ part = "desk"      => D!LinkIsShown
        /\ part = "screens"   => CR!MockStaysOnThePage)
  /\ [][/\ part = "mail"      => O!WritesOverNothing
        /\ part = "rooms"     => G!DraftIsKept
        /\ part = "forms"     => CF!NoOlderTextReturns]_vars

\* Who is invited or written to, and by whom that was decided.
ContactsAreDecided ==
  /\ part = "dispatch"  => K!InvitedAfterApproval
  /\ part = "dispatch"  => K!RepeatOnlyWhenBothWaited
  /\ part = "dispatch"  => K!OneVerdict
  /\ part = "sender"    => W!PausedUntilResumed
  /\ part = "sender"    => W!CodeIsKept
  /\ part = "sender"    => W!ActiveIsWarm
  /\ part = "consent"   => CS!WithdrawalIsFelt

\* Who works for whom, and on which terms.
TermsAreAgreed ==
  /\ part = "pool"      => I!ToldIsRegistered
  /\ part = "collab"    => C!CapacityKept
  /\ part = "collab"    => C!WorkIsAgreed
  /\ part = "collab"    => C!ApplicationFollowsTerms
  /\ part = "offers"    => CP!AgreedAsShown
  /\ part = "apply"     => SF!OneOwnerASlug
  /\ part = "apply"     => SF!AppliesOnce

\* What an approval does, and what a brief allows.
ApprovalsCount ==
  /\ part = "posts"     => J!HeedingPasses
  /\ part = "posts"     => J!ProposalsAreAllowed
  /\ part = "approvals" => Y!ApprovedIsExecuted
  /\ part = "gates"     => Z!LedgerTellsGates
  /\ part = "gates"     => Z!ApprovedIsExecuted

\* What a person has to decide is decided by one, once: invitations, applications, imports,
\* the end of a pause.  What follows is what was decided on: a campaign has no more
\* creators than places, work begins on terms both sides agreed to, and the application
\* follows the collaboration, however the calls of two people overlap.  What is approved
\* was carried out, or is told to have failed; what a brief allows is not sent back; and a
\* consent that was withdrawn is felt everywhere.
PeopleDecide ==
  /\ [](ContactsAreDecided /\ TermsAreAgreed /\ ApprovalsCount)
  /\ [][/\ part = "approvals" => Y!DecidedStaysDecided
        /\ part = "desk"      => D!KeepsDecisions
        /\ part = "offers"    => CP!DoneStaysDone
        /\ part = "pool"      => I!InsertsPromisedRows]_vars

\* What the harvest does to people.
ContactsAreLimited ==
  /\ part = "drip"      => Q!EachMailOnce
  /\ part = "drip"      => Q!DailyCap
  /\ part = "referral"  => F!PaidOnce
  /\ part = "referral"  => F!DeviceIsLimited
  /\ part = "seeding"   => A!OnePostAWeek

\* What it finds of them.
FindsAreKept ==
  /\ part = "finding"   => V!FindsAreAccounted
  /\ part = "finding"   => V!PoolIsEnriched
  /\ part = "finding"   => V!ConvergedFoundLittle
  /\ part = "finding"   => V!EmittedOnce

\* What the harvest does to people stays within what it says of itself: a mail goes to
\* a person once, to no one who left, and no more of them a day than the warm-up allows;
\* a reward is paid once; a community has one post a week and none while it bans.  What
\* it finds is in the pool, or is accounted for.  The exceptions are those of failures,
\* restarts and two drafts at once, which the modules name.
HarvestKeepsItsLimits ==
  /\ [](ContactsAreLimited /\ FindsAreKept)
  /\ [][/\ part = "drip"      => Q!LeftAlone
        /\ part = "referral"  => F!FirstContactCounts
        /\ part = "seeding"   => A!WarningsAreHeeded]_vars

\* What costs money is counted: a brand is charged for its verified members, the ledger
\* tells each of them, and none is missed but by the race of a join with a verification;
\* no more evaluations are asked of the AI than a day's cap, none twice, and each is shown
\* for the row it judged.
WhatCostsIsCounted ==
  /\ part = "signup"    => U!ChargedAreVerifiedMembers
  /\ part = "signup"    => U!LedgerTellsMembers
  /\ part = "signup"    => U!MissedOnlyInRace
  /\ part = "fit"       => L!CapPerDay
  /\ part = "fit"       => L!ShownFitsTheRow
  /\ part = "fit"       => L!EvaluatedOnce
-------------------------------------------------------------------------------
(* All the parts *)

PartsInv ==
  /\ part = "billing"   => BillingInv
  /\ part = "learning"  => LearningInv
  /\ part = "rooms"     => RoomsInv
  /\ part = "desk"      => DeskInv
  /\ part = "inbox"     => InboxInv
  /\ part = "panels"    => PanelsInv
  /\ part = "mail"      => MailInv
  /\ part = "creator"   => CreatorInv
  /\ part = "apply"     => AppliedInv
  /\ part = "collab"    => CollabInv
  /\ part = "fit"       => FitInv
  /\ part = "signup"    => SignUpsInv
  /\ part = "session"   => SignedUpInv
  /\ part = "epoch"     => EpochsInv
  /\ part = "admin"     => AdminInv
  /\ part = "links"     => LinksInv
  /\ part = "pool"      => PoolInv
  /\ part = "screens"   => ScreensInv
  /\ part = "forms"     => FormsInv
  /\ part = "offers"    => OffersInv
  /\ part = "talk"      => TalkInv
  /\ part = "sender"    => SenderInv
  /\ part = "approvals" => ApprovalsInv
  /\ part = "consent"   => ConsentInv
  /\ part = "gates"     => GatesInv
  /\ part = "posts"     => PostsInv
  /\ part = "dispatch"  => BatchesInv
  /\ part = "seeding"   => SeedingInv
  /\ part = "referral"  => ReferralInv
  /\ part = "finding"   => DiscoveryInv
  /\ part = "drip"      => DripInv

\* A behaviour starts in its part...
LEMMA PartsBegin == Init => PartsInv
BY BillingBegins, LearningBegins, RoomsBegin, DeskBegins, InboxBegins, PanelsBegin, MailBegins,
   CreatorBegins, AppliedBegins, CollabBegins, FitBegins, SignUpsBegin, SessionBegins,
   EpochBegins, AdminBegins, LinksBegin, PoolBegins, ScreensBegin, FormsBegin, OffersBegin,
   TalkBegins, SenderBegins, ApprovalsBegin, ConsentBegins, GatesBegin, PostsBegin,
   BatchesBegin, SeedingBegins, ReferralBegins, DiscoveryBegins, DripBegins
   DEF Init, PartsInv

\* ...and stays in it.
LEMMA PartStays == [Next]_vars => UNCHANGED part
BY DEF Next, vars

\* What a behaviour does is a step of its part, or changes nothing of it.
LEMMA StepsOfThePart ==
  ASSUME [Next]_vars
  PROVE  /\ part = "billing"   => [P!PNext]_(P!pvars)
         /\ part = "learning"  => [H!HNext]_(H!hvars)
         /\ part = "rooms"     => [G!GNext]_(G!gvars)
         /\ part = "desk"      => [D!DNext]_(D!dvars)
         /\ part = "inbox"     => [N!NNext]_(N!nvars)
         /\ part = "panels"    => [B!BNext]_(B!bvars)
         /\ part = "mail"      => [O!ONext]_(O!ovars)
         /\ part = "creator"   => [R!RNext]_(R!rvars)
         /\ part = "apply"     => [SF!SNext]_(SF!svars)
         /\ part = "collab"    => [C!CNext]_(C!cvars)
         /\ part = "fit"       => [L!MNext]_(L!mvars)
         /\ part = "signup"    => [U!Next]_(U!vars)
         /\ part = "session"   => [S!SNext]_(S!svars)
         /\ part = "epoch"     => [E!ENext]_(E!evars)
         /\ part = "admin"     => [X!XNext]_(X!xvars)
         /\ part = "links"     => [T!LNext]_(T!lvars)
         /\ part = "pool"      => [I!INext]_(I!ivars)
         /\ part = "screens"   => [CR!RNext]_(CR!rvars)
         /\ part = "forms"     => [CF!FNext]_(CF!fvars)
         /\ part = "offers"    => [CP!PNext]_(CP!pvars)
         /\ part = "talk"      => [M!MNext]_(M!mvars)
         /\ part = "sender"    => [W!WNext]_(W!wvars)
         /\ part = "approvals" => [Y!ANext]_(Y!avars)
         /\ part = "consent"   => [CS!CNext]_(CS!cvars)
         /\ part = "gates"     => [Z!GNext]_(Z!gvars)
         /\ part = "posts"     => [J!SNext]_(J!svars)
         /\ part = "dispatch"  => [K!KNext]_(K!kvars)
         /\ part = "seeding"   => [A!GNext]_(A!gvars)
         /\ part = "referral"  => [F!FNext]_(F!fvars)
         /\ part = "finding"   => [V!DNext]_(V!dvars)
         /\ part = "drip"      => [Q!QNext]_(Q!qvars)
BY DEF Next, vars, P!pvars, H!hvars, G!gvars, D!dvars, N!nvars, B!bvars, O!ovars, R!rvars,
       SF!svars, C!cvars, L!mvars, U!vars, S!svars, E!evars, X!xvars, T!lvars, I!ivars,
       CR!rvars, CF!fvars, CP!pvars, M!mvars, W!wvars, Y!avars, CS!cvars, Z!gvars, J!svars,
       K!kvars, A!gvars, F!fvars, V!dvars, Q!qvars, U!tables, U!lvars

\* Each part keeps its invariant, and the others have nothing to keep.
LEMMA PartsKeep == PartsInv /\ [Next]_vars => PartsInv'
<1>. SUFFICES ASSUME PartsInv, [Next]_vars PROVE PartsInv'
  OBVIOUS
<1>1. UNCHANGED part
  BY PartStays
<1>2. CASE part = "billing"
  BY <1>1, <1>2, StepsOfThePart, BillingKeeps DEF PartsInv
<1>3. CASE part = "learning"
  BY <1>1, <1>3, StepsOfThePart, LearningKeeps DEF PartsInv
<1>4. CASE part = "rooms"
  BY <1>1, <1>4, StepsOfThePart, RoomsKeep DEF PartsInv
<1>5. CASE part = "desk"
  BY <1>1, <1>5, StepsOfThePart, DeskKeeps DEF PartsInv
<1>6. CASE part = "inbox"
  BY <1>1, <1>6, StepsOfThePart, InboxKeeps DEF PartsInv
<1>7. CASE part = "panels"
  BY <1>1, <1>7, StepsOfThePart, PanelsKeep DEF PartsInv
<1>8. CASE part = "mail"
  BY <1>1, <1>8, StepsOfThePart, MailKeeps DEF PartsInv
<1>9. CASE part = "creator"
  BY <1>1, <1>9, StepsOfThePart, CreatorKeeps DEF PartsInv
<1>10. CASE part = "apply"
  BY <1>1, <1>10, StepsOfThePart, AppliedKeeps DEF PartsInv
<1>11. CASE part = "collab"
  BY <1>1, <1>11, StepsOfThePart, CollabKeeps DEF PartsInv
<1>12. CASE part = "fit"
  BY <1>1, <1>12, StepsOfThePart, FitKeeps DEF PartsInv
<1>13. CASE part = "signup"
  BY <1>1, <1>13, StepsOfThePart, SignUpsKeep DEF PartsInv
<1>14. CASE part = "session"
  BY <1>1, <1>14, StepsOfThePart, SessionKeeps DEF PartsInv
<1>15. CASE part = "epoch"
  BY <1>1, <1>15, StepsOfThePart, EpochKeeps DEF PartsInv
<1>16. CASE part = "admin"
  BY <1>1, <1>16, StepsOfThePart, AdminKeeps DEF PartsInv
<1>17. CASE part = "links"
  BY <1>1, <1>17, StepsOfThePart, LinksKeep DEF PartsInv
<1>18. CASE part = "pool"
  BY <1>1, <1>18, StepsOfThePart, PoolKeeps DEF PartsInv
<1>19. CASE part = "screens"
  BY <1>1, <1>19, StepsOfThePart, ScreensKeep DEF PartsInv
<1>20. CASE part = "forms"
  BY <1>1, <1>20, StepsOfThePart, FormsKeep DEF PartsInv
<1>21. CASE part = "offers"
  BY <1>1, <1>21, StepsOfThePart, OffersKeep DEF PartsInv
<1>22. CASE part = "talk"
  BY <1>1, <1>22, StepsOfThePart, TalkKeeps DEF PartsInv
<1>23. CASE part = "sender"
  BY <1>1, <1>23, StepsOfThePart, SenderKeeps DEF PartsInv
<1>24. CASE part = "approvals"
  BY <1>1, <1>24, StepsOfThePart, ApprovalsKeep DEF PartsInv
<1>25. CASE part = "consent"
  BY <1>1, <1>25, StepsOfThePart, ConsentKeeps DEF PartsInv
<1>26. CASE part = "gates"
  BY <1>1, <1>26, StepsOfThePart, GatesKeep DEF PartsInv
<1>27. CASE part = "posts"
  BY <1>1, <1>27, StepsOfThePart, PostsKeep DEF PartsInv
<1>28. CASE part = "dispatch"
  BY <1>1, <1>28, StepsOfThePart, BatchesKeep DEF PartsInv
<1>29. CASE part = "seeding"
  BY <1>1, <1>29, StepsOfThePart, SeedingKeeps DEF PartsInv
<1>30. CASE part = "referral"
  BY <1>1, <1>30, StepsOfThePart, ReferralKeeps DEF PartsInv
<1>31. CASE part = "finding"
  BY <1>1, <1>31, StepsOfThePart, DiscoveryKeeps DEF PartsInv
<1>32. CASE part = "drip"
  BY <1>1, <1>32, StepsOfThePart, DripKeeps DEF PartsInv
<1>33. CASE part \notin {"billing", "learning", "rooms", "desk", "inbox", "panels", "mail",
                          "creator", "apply", "collab", "fit", "signup", "session", "epoch",
                          "admin", "links", "pool", "screens", "forms", "offers", "talk",
                          "sender", "approvals", "consent", "gates", "posts", "dispatch",
                          "seeding", "referral", "finding", "drip"}
  BY <1>1, <1>33 DEF PartsInv
<1>. QED
  BY <1>2, <1>3, <1>4, <1>5, <1>6, <1>7, <1>8, <1>9, <1>10, <1>11, <1>12, <1>13, <1>14, <1>15,
     <1>16, <1>17, <1>18, <1>19, <1>20, <1>21, <1>22, <1>23, <1>24, <1>25, <1>26, <1>27, <1>28,
     <1>29, <1>30, <1>31, <1>32, <1>33

\* The invariant of each part holds throughout.
LEMMA PartsAreWell == Spec => []PartsInv
BY PartsBegin, PartsKeep, PTL DEF Spec

\* Whatever else goes on, a page blocks the button of a request while that request, or
\* one that excludes it, is under way, and frees it after.
THEOREM ButtonsAskOnce == Spec => []PagesAskOnce
<1>1. PartsInv => PagesAskOnce
  BY DEF PartsInv, PagesAskOnce, BillingInv, LearningInv, RoomsInv, DeskInv, InboxInv,
         BillingOfNow, InboxOfTheBrand
<1>. QED  BY PartsAreWell, <1>1, PTL

\* What a page shows, or works on, is of the brand or creator chosen above it, whatever
\* answers come late.
THEOREM ShownIsOfTheBrand == Spec => []PagesShowTheirBrand
<1>1. PartsInv => PagesShowTheirBrand
  BY DEF PartsInv, PagesShowTheirBrand, PanelsInv, AppliedInv, ApplyInv, BillingInv, MailInv, LearningInv,
         CreatorInv, InboxInv, BillingOfNow, InboxOfTheBrand
<1>. QED  BY PartsAreWell, <1>1, PTL

\* Of several answers to one question a page keeps the newest, and what it shows or tells,
\* of a card, a reply, a list, a screen or a collaboration, is what the server has, but for
\* the cases that the modules name.
THEOREM ShownIsTheNewest == Spec => []PagesShowTheNewest
<1>1. PartsInv => PagesShowTheNewest
  BY BillingTells, PoolPlanned, ScreensTell, FormsQuiet
     DEF PartsInv, PagesShowTheNewest, PanelsInv, PanelsNewest, CreatorInv, MailInv, LearningInv,
         AppliedInv, ApplyInv, InboxInv, OffersInv
<1>. QED  BY PartsAreWell, <1>1, PTL

\* For any number of brands, threads, rooms, texts and requests: what is stored of a person's
\* text is stored where it was typed, and no older, made-up or model's text takes its place but
\* for the causes named; not that a text outlives a redraw, which most fields do not.
THEOREM StoredWhereTyped == Spec => TextsGoWhereTyped
<1>1. PartsInv =>
        /\ part = "mail"    => O!LostOnlyWhenChanged
        /\ part = "rooms"   => G!RepliedWhereTyped
        /\ part = "rooms"   => G!OlderOnlyByRetry
        /\ part = "inbox"   => N!RepliedWhereTyped
        /\ part = "talk"    => M!PostedWhereTyped
        /\ part = "talk"    => M!MisledOnlyWhenClosed
        /\ part = "talk"    => M!ChoiceIsKept
        /\ part = "desk"    => D!LinkIsShown
        /\ part = "screens" => CR!MockStaysOnThePage
  BY ScreensTell DEF PartsInv, RoomsInv, InboxInv, DeskInv, MailInv, TalkInv
<1>2. PartsInv /\ [Next]_vars =>
        /\ part = "mail"  => O!WritesOverNothing
        /\ part = "rooms" => G!DraftIsKept
        /\ part = "forms" => CF!NoOlderTextReturns
  BY StepsOfThePart, MailWrites, RoomsDraft, FormsKeepNewer DEF PartsInv
<1>. QED  BY PartsAreWell, <1>1, <1>2, PTL DEF TextsGoWhereTyped, Spec

\* What is decided is decided by a person, once, and stays so, and what follows is what was
\* decided on: for any number of brands, creators, batches, gates, accounts and calls and any
\* limits.  Nobody is invited before an approval; a campaign keeps its places and works on the
\* commission that the creator agreed to; what is approved was carried out; what is done stays
\* done; and a withdrawal is felt.
THEOREM DecidedByPeople == Spec => PeopleDecide
<1>1. PartsInv => ContactsAreDecided
  BY BatchesTell DEF PartsInv, ContactsAreDecided, SenderInv, ConsentInv
<1>2. PartsInv => TermsAreAgreed
  BY OffersAgreed, AppliedOnce DEF PartsInv, TermsAreAgreed, PoolInv, CollabInv, AppliedInv, ApplyInv
<1>3. PartsInv => ApprovalsCount
  BY ApprovalsTell DEF PartsInv, ApprovalsCount, PostsInv, GatesInv
<1>4. PartsInv /\ [Next]_vars =>
        /\ part = "approvals" => Y!DecidedStaysDecided
        /\ part = "desk"      => D!KeepsDecisions
        /\ part = "offers"    => CP!DoneStaysDone
        /\ part = "pool"      => I!InsertsPromisedRows
  BY StepsOfThePart, ApprovalsLast, DeskDecides, OffersLast, PoolPromised DEF PartsInv
<1>. QED  BY PartsAreWell, <1>1, <1>2, <1>3, <1>4, PTL DEF PeopleDecide, Spec

\* Sign-ups and evaluations are counted, for any number of accounts, brands, candidates and
\* calls and any cap: every charge is of a verified member, the ledger tells each membership
\* once, none is missed but by the race of a join with a verification; and no more is asked of
\* the AI than the cap, nothing twice, and what is shown is of the row it judged.
THEOREM CostsAreCounted == Spec => []WhatCostsIsCounted
<1>1. PartsInv => WhatCostsIsCounted
  BY UsageTold, FitShown DEF PartsInv, WhatCostsIsCounted, SignUpsInv, UsageInv, FitInv
<1>. QED  BY PartsAreWell, <1>1, PTL

\* A browser shows the account its requests are made for; a session that was revoked is refused
\* within the time its epoch is cached; no administrator is locked out, and the first is made
\* once; and a link fits the account it was mailed to, is limited, and a session from before a
\* reset is no longer good: for any number of accounts, tokens, processes and requests, and
\* any limits.
THEOREM OneSession == Spec => []SessionIsOne
<1>1. PartsInv => SessionIsOne
  BY SessionIsOfOne, EpochJudges, AdminHasToken, ResetsEnd
     DEF PartsInv, SessionIsOne, AdminInv, LinksInv
<1>. QED  BY PartsAreWell, <1>1, PTL

\* For any number of people, communities, creators and days and any limits: the harvest mails
\* a person each mail once, no more of them a day than the warm-up allows, and none who left; it
\* pays a reward once, and to a few of a device; a community has one post a week and none while
\* it bans; and what the search found is in the pool or accounted for.
THEOREM HarvestIsLimited == Spec => HarvestKeepsItsLimits
<1>1. PartsInv => ContactsAreLimited
  BY DripLimited, ReferralOnce DEF PartsInv, ContactsAreLimited, DripInv, ReferralInv, SeedingInv
<1>2. PartsInv => FindsAreKept
  BY DiscoveryEnds DEF PartsInv, FindsAreKept, DiscoveryInv
<1>3. PartsInv /\ [Next]_vars =>
        /\ part = "drip"     => Q!LeftAlone
        /\ part = "referral" => F!FirstContactCounts
        /\ part = "seeding"  => A!WarningsAreHeeded
  BY StepsOfThePart, DripLeaves, ReferralFirst, SeedingHeeds DEF PartsInv
<1>. QED  BY PartsAreWell, <1>1, <1>2, <1>3, PTL DEF HarvestKeepsItsLimits, Spec

\* Every variable of every part has its values, whatever the bounds.
THEOREM EveryPartIsTyped == Spec => []TypeOK
<1>1. PartsInv => TypeOK
  BY DEF PartsInv, TypeOK, BillingInv, BillingOfNow, LearningInv, RoomsInv, DeskInv, InboxInv,
         PanelsInv, MailInv, CreatorInv, AppliedInv, ApplyInv, CollabInv, FitInv, SignUpsInv, UsageInv,
         LedgerTyped, U!TypeOK,
         SignedUpInv, EpochsInv, AdminInv, LinksInv, PoolInv, ScreensInv, FormsInv, OffersInv,
         TalkInv, SenderInv, ApprovalsInv, ConsentInv, GatesInv, PostsInv, BatchesInv, K!KInv,
         SeedingInv, ReferralInv, DiscoveryInv, DripInv
<1>. QED  BY PartsAreWell, <1>1, PTL

\* To the ledger, a login with its transactions is any transactions: a step of the sign-up is a
\* step of module Ledger, or none of the ledger's, whatever else the transactions write.
THEOREM SignUpsUseTheLedger == Spec => [][part = "signup" => [U!L!LNext]_(U!L!lvars)]_vars
<1>1. PartsInv /\ [Next]_vars => (part = "signup" => [U!L!LNext]_(U!L!lvars))
  BY StepsOfThePart, LedgerSteps DEF PartsInv, SignUpsInv
<1>. QED  BY PartsAreWell, <1>1, PTL DEF Spec
===============================================================================
