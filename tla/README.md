# Verification of the service's core: TLA+ models, model checking and proofs

This directory models the creator-community operations service where money, consent
and concurrency meet: the FastAPI backend `src/services/api/api` with its PostgreSQL
schema `src/db/migrations`, the pages of its frontends that keep state while requests
are on their way (`engine-live.js` of the console, the creator's app and the sign-up
page, the React screens of the administrators, the approvals and the creators), and the
engines beside it (`services/core`, `services/harvest`). It holds TLA+ modules, the TLC
configurations that check them on small instances, and theorems checked by TLAPS.
`PROJECT.json` maps every definition to the source lines it models.

Contents: 1 the system, 2 conventions, 3 modules, 4 runs, 5 fairness, 6 proofs,
7 findings, 8 what is not modelled, 9 plan.

## 1. The system

One FastAPI process (or several) serves the API, a runner daemon performs periodic
ticks, PostgreSQL keeps all state. `with connect() as c:` is one READ COMMITTED
transaction (`db.py:25-37`), committed at the end of the block and rolled back by an
exception. Requests of different users, the runner's ticks and external services
(the payment gateway NICEpay, "PG" below; Gmail; Telegram) interleave freely and
meet in rows, row locks and advisory locks only. A process may die between any two
transactions, and a call to an external service may be processed although its answer
is lost.

| Component | State | Operations | Interacts with | Hard behaviour | Correct when |
|---|---|---|---|---|---|
| Sign-up usage (`routes_identity.py`, migration 010) | users, creators, memberships, signup_usage | join_brand, verify_creator, the usage trigger | ledger; month close reads the usage | two transactions that cannot see each other; a stale read of users.creator_id | verified members of real brands are charged, once per person; the ledger agrees |
| Month close (`routes_payments.py:41-91`, 621-675) | signup_usage.invoice_id, signup_invoices, signup_usage_audit | close_months (API, billing tick), usage audit list and resolve | usage, settlement | late commits, concurrent closes, audit holds, crash between rows | an invoice is the final sum of exactly its usage of one month that is over |
| Settlement (`routes_payments.py:94-281, 487-604`) | signup_invoices, invoice_charge_attempts | checkout, payment_return, payment_webhook, reconcile, autocharge_tick, _reconcile_tick | PG, card, ledger | stale, late, repeated and lost PG answers; crashes between claim, capture and record | money moves once, is never lost track of, a cancellation is never undone |
| Registered card (`routes_payments.py:298-484`) | brand_billing_keys, the key at the PG | register, expire, status, use by autocharge | PG, settlement | lock held over PG calls, lost answers, revocation during a charge | no charge without consent, no key forgotten while it is live |
| Ledger (`db.py:58-94`) | ledger rows with a hash chain | ledger_append inside every writing transaction, ledger_verify | all | waiting for the last row with a stale snapshot | the committed rows are always an unbroken chain |
| Human gates (`core/gates.py`, `main.py:220-295`, `gateStore.tsx`) | gate_requests; members, executors and ledger of the engine; the cards of the page | request, approve, hold, reject, register | dispatch, harvest | two members decide; an executor fails after the approval; a page that goes on by itself | decided once; what waits for a gate waits for its approval; what is called approved was carried out |
| Dispatch (`routes_dispatch.py`) | dispatch_batches, dispatches | create, gate sync, import results | gates, candidates | batches that wait at the same time; unconditional writes after a read | nobody is invited before approval; a repeat within the ban only by batches that waited together |
| Outreach mail (`routes_outreach.py`, `routes_gmail.py`) | batches, recipients, opt-outs, Gmail accounts | create, approve, cancel, deliver_pending, unsubscribe, pause, quota | Gmail, runner | a send whose outcome is unknown, quota under concurrency | nobody is mailed twice or after an opt-out |
| Gmail sync (`gmail_sync.py`) | mail_messages, mail_threads, sync cursor | sync page by page, inbound webhook, reply | outreach, Gmail | mail that arrives between pages, an expired cursor | every mail is stored; a thread tells its newest |
| Sender domains (`routes_senders.py`) | brand_senders | register, verify, check_dns, report_stats, resume | DNS | each call reads, then writes unconditionally | paused until a person resumes; active only after DNS |
| Community chat (`routes_community.py`) | messages and their translations | post, retry, retry tick | AI service | a retry racing the first translation | a finished translation stays; no message waits for ever |
| Collaborations (`routes_collab.py`, `main.py:416-462`) | applications, campaign_terms | apply, select, agree, decline, ship, link, submit, complete | operations desk | capacity under concurrent selections; two tables that tell one story | not more than the places; no work without agreed terms |
| Operations desk (`routes_ops.py`, `Applications.tsx`) | applications, reports, disputes, submissions | approve, reject, resolve | accounts, collaborations | two administrators; the answer carries the only link | decided once; the link is shown |
| Consent and notices (`core/consent.py`, `core/notifications.py`) | records of consent, the ban, the freeze of all that is sent | grant, withdraw, tell the hooks | - | a hook that fails in the middle | a withdrawal is felt everywhere, or everything stops |
| Accounts and sessions (`auth.py`, `routes_auth.py`, `engine-live.js:986-1098, 1703-1758`) | users.session_epoch, its cache per process; the token in the browser | sign in, second factor, invitations, links, log out, reset | all | a cached epoch; answers for a token that was replaced; two tabs that set up one second factor; requests that overlap at a limit | a revoked session ends; a page acts for the account it shows; a link fits its account; limits hold |
| Candidate pool and learning (`routes_pool.py`, `Pool.tsx`, `routes_products.py`, `engine-live.js:1099-1102, 1274-1296`) | creator_pool; the page's plan; the brand's profile; AI scores and their daily usage | preview, import; analyse, save; candidates of a product | dispatch, AI | a plan that is stale when it is executed; a lock held over an AI call, cut off or crossing midnight | an import inserts what was promised; no candidate is paid for twice or shown a score of another row |
| Console pages (`apps/console/public/engine-live.js`) | the chosen brand, panels, billing, mail form, rooms, flags and counters | load, reload, switch brand, press a button | API | answers that come late, for another brand, or never | a page shows its brand's newest answer, asks once, loses nothing |
| Creator's page (`apps/creator-app/public/engine-live.js`) | lists, rooms, language | sign in, load, post, choose a language | API | as above | as above |
| Creators' screens (`apps/creator-app/src`, `apps/creator-mobile`) | what is shown, whether a list was there | apply, read, change a field or the language | API | changes shown before they are posted, and posted only when live | what is shown is stored; nothing made up is written over the real |
| Harvest: discovery (`discover.py`, `fetch.py`, `workers.py`, `queues.py`) | queues, the pool, the budget, what convergence looks at | discover, fetch, enrich, spread to neighbours, roll over | pool | vendor failures, queues that empty at different times, a window that ends | what is found is in the pool or accounted for; nothing is emitted twice |
| Harvest: mail (`outreach/sequence.py`, `suppression.py`, `runner.py`) | enrolments, suppression, warm-up, counters of bounces and complaints | enrol, ask for the gate, send a batch, poll events, restart | gates | a mail service that fails in a batch, a restart that forgets | one mail of each step per person, none to who left, no more a day than allowed |
| Harvest: referrals, communities (`referral.py`, `community.py`) | codes, claims, rewards; posts and bans of a community | claim, review, pay; draft, post, warn | gates | two claims for one person, a suspended code; two drafts at once | a reward is paid once; one post a week and none under a ban |
| AI agents, content (`ai.py`, `content_agent.py`, `compliance.py`) | briefs, posts and what a check found | write a brief, fall back, check and review a post | all | rules that change between brief and post | who heeds the brief passes the check |

The billing components are modelled in full, the others in the part that has state
worth a property; PROJECT.json lists the status of each and the hazards at their lines.

## 2. Conventions of the models

- **A database transaction is one step** where it takes no snapshot that another
  statement of it relies on later, or where row locks exclude the others. Where the
  code is exposed to READ COMMITTED (month close, sign-up, ledger) a transaction is
  several steps: its statements, with the snapshot each takes, its uncommitted rows,
  its locks, and its commit or rollback.
- **A request to the PG is a step of its own** between transactions. The request stays
  in flight when its sender gives up or dies; the PG may process it later. The answer
  is a copy of the PG's state at that time and may be stale when it is used.
- **A process may die wherever it is** (`WorkerCrash`, `DropJob`, `Crash`, `Abort`,
  `RollBack`). The same action stands for an exception or an aborted transaction:
  both leave what was committed and nothing else.
- **A page** keeps its variables between the callbacks of one event loop: a click, the
  arrival of an answer and a render are steps; between the two, anything else may
  happen. The request carries what the page read when it was sent (brand, version,
  token); its callback is an action of its own whose guard and effects are those of the
  code, comparisons that are *not* made included. The server's answer is a step between
  them and may be lost.
- **History variables** (`raced`, `overlapped`, `missed`, `lost`, `misled`, `crossed`,
  `excused`...) record when the code gives up a promise; the property then says that
  the promise holds but for that case, so that each exception is exact and visible.
- **The PG is external** and only as good as the code may assume: signed answers are
  true when they were given; a second capture for the same order is *not* refused; a
  charge needs a live key; a payment may be cancelled at any time.
- Data is abstract: ids are model values, an amount is a small number in MonthClose and
  left out elsewhere (`payment_valid` compares it, so a wrong amount is an unverified
  answer), hashes are the sequence of events they commit to.
- Operators named `X_Something` beside an operator `X` are mutants: `X` with a
  plausible mistake. No specification uses them; each property of a passing run is
  violated when one of them takes X's place (PROJECT.json, "mutants").

## 3. Modules

| Module | Models | State in the code |
|---|---|---|
| `InvoiceLifecycle` | abstract: an invoice's phase, its money, whether a return is known | - |
| `Settlement` | settlement of invoices through windows and cards | `status`, `tid`, `cancelled` = columns of signup_invoices; `attempt` = invoice_charge_attempts.outcome; `ledger` = number of entries; `jobs` = requests in progress; `wpc`, `winv`, `wtid` = locals of autocharge_tick; `pgState`, `pgOrder`, `approvals`, `charges` = the PG |
| `BillingCard` | one brand's card | `state`, `key` = brand_billing_keys; `lock` = the advisory lock of `_card_operation`; `pgKey`, `requests` = the PG |
| `CardBilling` | Settlement and BillingCard together: a worker is one process in both | - |
| `MonthClose` | close_months, audit, the passing of months | `usage`, `month`, `price`, `bill` = signup_usage; `audit` = signup_usage_audit; `invoices`; `lock` = `billing_lock`; `rows`, `staged` = locals and uncommitted rows of a close |
| `Ledger` | ledger_append | `entries`, `own` = committed and uncommitted rows; `seen` = the row read; `rowLocks` |
| `SignupUsage` | join_brand, verify_creator, the trigger; uses `Ledger` for its appends | `account`, `owner`, `verified`, `members`, `charged` = the tables; `draft` = uncommitted changes |
| `Outreach` | batches, replies, opt-outs, the brand's Gmail account, the two transactions of each mail | `batch`, `created` = outreach_batches; `mail`, `sentOn` = outreach_recipients and mail_messages; `optout`; `connected`, `paused`, `counter` = gmail_accounts; `brandLock`, `acctLock` = the advisory lock and the row lock; `todo`, `cur` = locals of deliver_pending; `posts`, `mailed` = Gmail |
| `Session` | a browser's token, the account the page believes in, sign-ins, second factor, links, log-out | `jwt` = localStorage.CONNECTION_JWT; `me` = window.__ME; `chip`, `panel` = the page; `issued` = the tokens the server knows; `asked` = requests in flight |
| `SessionEpoch` | the epoch that a password reset raises and every process caches | `since` = users.session_epoch and when; `cache` = `_epoch_cache`; `request` = calls of current_user |
| `BrandPanels` | nine panels of the console, what each loader compares and what a redraw shows of it | `kind`, `own`, `adminBrand` = the inputs of BRAND(); `version` = gmailVersion, inboxVersion...; `shown`, `failed` = the panel |
| `ConsoleForms` | the cards of the brand's identity, a product's profile and the Gmail account | `shown` = \_\_BID, productsData, \_\_GMAIL; `field` = the inputs of the card; `stored` = the server's; `wire` = requests |
| `SignupForm` | the form a brand applies with, its analysis, its check of the address, the applications | `site`, `slug`, `text` = the fields, with autofilled; `learning`, `busy`, `slugStatus` as in `site.js`; `apps` = brand_applications |
| `BillingPage` | billing summary, invoices, card and checkout of the console | `version` = billingVersion; `cardInfo`, `cardBusy`, `invoices`; `card` = the server's |
| `OutreachPage` | the mail form, its AI draft, saving and sending, candidates | the form's fields; `composing` = composeBusy; `writing` = outreachBusy; `looks` = candidateVersion |
| `BrandLearning` | analysis and profile of a brand, the assistant's chat | profileData, profileDraft, profileAnswers, profileBusy, chatMessages |
| `BrandRoom` | the brand's conversations | brandCells, brandConversation, its draft, version and busy flags |
| `CreatorPage` | memberships and other lists of the creator | membershipState, membershipRequest, the lists |
| `CreatorRoom` | the creator's rooms and language | commOpen, the text typed, CONNECTION_LANG |
| `Collab` | a campaign's applications and terms | `status` = campaign_applications; `terms` = campaign_terms; `select` = open select_creator transactions |
| `CollabPages` | one collaboration on the console's card and on the creator's two lists, over `Collab` | `rows` = collabOpen.rows; `camps`, `offers` = myCampaigns, myOffers; `wire` = requests; `told` = what a page says is done |
| `AdminDesk` | two administrators decide applications and other rows | the rows, the list shown, the flag, the answers on their way |
| `PoolPage` | preview and import of candidates | csv, preview, busy; `pool` = creator_pool |
| `Dispatch` | dispatch batches with their gate and ban | `gate` = gate_requests; `batch`, `rows`, `invited` = the tables; `reader` = open reads |
| `SenderDomain` | a sender's states under overlapping calls | `state`, `code`, `warm` = brand_senders; `call` = what each open call read |
| `AdminAccess` | the first administrator, sign-in and second factor of the admin app in several tabs | `admins`, `otp` = users; `made` = secrets that set-ups made; `jwt`, `page`, `shown`, `app` = the token shared by the tabs, each tab, the QR it shows, the phone |
| `OneTimeLinks` | invitations, sign-in links, resets of the password | `account`, `links` = users, one_time_tokens; `rows` = password_reset_requests, each with whether it was answered by a mail (history); `call` = requests in progress |
| `InboxPage` | the console's threads, replies and synchronisation | inboxVersion, the open thread and the text in its field (`drawn.typed` = `#ibxBody`, which every render empties), syncBusy; `home`, `replies` = the server's |
| `ApprovalDesk` | the approvals page and the API behind it | `state`, `done` = gate_requests; `page`, `live` = gateStore; `lists`, `posts` = on their way; `local` = cards the page changed by itself |
| `GateEngine` | the engine of services/core | `role`, `executor`, `request`, `ledger` |
| `ConsentStore` | grants, withdrawals, hooks, ban and freeze | `records`, `ban`, `frozen`; `told` = what reached each hook (history) |
| `CandidateMatch` | AI evaluation of a product's candidates | `scores` = candidate_ai_scores; `usage` = candidate_ai_usage; `lock` = the advisory lock; `call` |
| `Submissions` | briefs and posts under the rules of what may be said | `banned`, `usp` = the profile; `brief`; `post` = submissions |
| `CreatorScreens` | campaigns, notifications, pass and language on the creators' React screens | `shown`, `live`, `typing` = the screen; `posts` on their way; `stored` = the row |
| `Discovery` | discovery, fetch and enrichment of the harvest | `pool`, `enriched`; `used` = the budget; `window`, `streak` = the convergence detector; `queues`; `call` = the run of a seed or an expansion |
| `MailSequence` | the mail sequence behind its gate | `people` = enrolments; `suppressed`; `gate`; `counted`, `total` = the counters; `paused`; `mailed`, `today` = what really went out |
| `Referral` | codes, claims, reviews, rewards | `owner`, `suspended`, `claims`, `paid`, `gate` |
| `CommunitySeeding` | posts in communities | `posted`, `bannedUntil`, `drafts` |
| `Translation` | one message and its translation | `state`, `attempts`, `texts` = the row; `work` = runners and retries |
| `InboxSync` | pages and cursor of one account's inbox, one thread | `known` = mail_messages; `cursor` = sync_page_token; `thread` = mail_threads |
| `SettlementProofs` | theorems of `Settlement` and `CardBilling`; those of `BillingCard`, `MonthClose`, `Outreach` and of the three services stand at the end of `BillingCard`, `MonthClose`, `Outreach` and `MCServices` | - |
| `Surfaces` | the constants and variables that the parts of `MCSurfaces` share | - |
| `SurfaceParts`, `TableParts` | the instances of the parts of `MCSurfaces`, the pages in the first, the tables and the engines in the second, with their assumptions, inductive invariants and lemmas; the theorems of `Dispatch` | - |
| `MCServices`, `MCSurfaces` | instances for TLC of several of the modules above; `MCSurfaces` ends with the theorems about the whole. The other runs name their module itself | - |

**Settlement.** `Checkout` opens a window, `PaymentReturn` is the first transaction of
`payment_return` (claim the row, record the tid), `Approve` the request to capture,
`Webhook`, `Reconcile`, `ReconcileTick` start requests that `Get` or `Find` a
transaction and then `BindJob` / `SettleJob` / `MarkAttempt`. `Settle` is the function
settle with its four outcomes. A worker goes `Scan` → `TakeCard` → `Claim` →
`SendCharge` → answer → `BindCharge` → `SettleCharge` → `FinishPaid`, or
`FinishReview` → `HoldInvoice`. `Settlement` says nothing about the card: `TakeCard`
and `SkipCard` are free choices that `CardBilling` ties to `BillingCard`.

**CardBilling** conjoins the actions of both modules (`ScanRow(w, i) == Scan(w, i) /\
Card!Ask(w, "charge")`, ...). Its property `KeepsComponents` says that every behaviour
of the composition is one of `Settlement` and one of `BillingCard`, so what is checked
or proved of a component holds in the composition.

**InvoiceLifecycle** is what a brand may rely on: money moves once, an invoice is
settled only for money that moved, and after a known return it is held for a person.
`Settlement` implements it under the mapping `Phase`, `Money` (`ImplementsLifecycle`,
checked and proved).

**MonthClose.** `RecordUsage`/`CommitUsage` are the start and commit of a sign-up's
transaction: `verified_at` is the transaction's start. `Begin` takes the advisory
lock, `Collect` is the SELECT, `Issue` one turn of the loop over months, `Commit` the
commit. `failed` remembers a close that died on the unique key.

**Ledger.** `ReadLast` takes the snapshot, `LockLast` is the wait of FOR UPDATE,
`Insert` the insert, `Refuse` the unique violation after a wait. It is deliberately not
atomic: an append that waited inserts a number that is taken and is rolled back.

**SignupUsage.** Each of the two operations is a sequence of statements; the trigger
sees committed rows and its own (`Chargeable`). `raced` is a history variable that
records the memberships for which a join and a verification did not see each other.

**Outreach.** A sender is a call of deliver_pending (`Deliver`, then `SkipTaken`, `Block`
or `Inspect` and `Take` per recipient) or of send_reply (`TakeReply`). The second
transaction of a mail is `BeginSend`, `LockAccount` or `Postpone`, `Post`, then `Record`
on an answer, or `FailSend`, `Pause`, `Review` without one. The transaction's clock
(`txDay`, CURRENT_TIMESTAMP) and the process's clock (`day`) differ for one that waits
over midnight. `takenOn`, `blurred` and `excused` are history for the properties. A
brand has one connected account at a time; its replacement by another is left out.

**Pages.** Where a page has several parts that share nothing but the brand
(`BrandPanels`, `CreatorPage`), a behaviour follows one part, chosen at the start.
`BrandPanels!Compares` is the table of what each loader compares before it keeps an
answer; it is read off the callbacks, so a loader that compares less than its
neighbours does so in the model too. The console's administrator view is in it: one
page, many brands. `Body` is what a redraw takes of the panels.

**Forms.** `ConsoleForms` follows one card: a click sends what the fields hold, every answer
of the page draws the card anew (`Render`), and success asks for the card again. In
`SignupForm` the submit is two requests, `Submit` and `OnCheck`, which reads the fields again
between them; `ServePost` is `submit_application` under the lock of the address, `Decide` an
administrator.

**CollabPages** is `Collab` with one creator and two people who look at it: a page offers what
the state it shows allows (`BrandOffers`, `CreatorOffers`), and the server decides on the
state it has.

**Links.** A call of invite_brand or magic_request reads the account (`Begin`) and makes
it and the link later (`MakeLink`), where another call may have been first. A reset takes
both advisory locks (`LockReset`), counts and inserts; `session` follows one session of
each address, and by which links its password was set.

**Harvest.** The runner is one process whose steps do not overlap, so its hazards are
failures and restarts. `MailSequence!SendBatch` sends what was approved, `SendBreaksOff`
only a part of it (`broken`, `lost`); `Restart` forgets what is in memory. `Discovery`
follows a run of a seed or an expansion post by post (`call`), beside the other workers.

**Candidates.** `TakeLock` reads the cache and the day's usage under the lock of the brand;
the AI is asked while it is held; `Answer` commits scores and usage together, `CutOff` none
of them. The usage of a call is of the day its transaction began (`created_at`): `usage[d]`
is the sum over the rows made on day d or later, which is what the query adds up.

**Compositions for TLC.** `MCServices` runs `Ledger`, `Translation` and `InboxSync`,
`MCSurfaces` the pages, the tables behind them and the engines beside them. Their parts share no state in the
code either, but for what each module already has of the others (a page has the rows
it shows). So a behaviour follows one part, named by `part`, and each named property
joins what is asked of several parts; `part = "mail" => ...` is the part it is about. The
bounds of the parts are in the constant `Bound`, a record of numbers and small sets, of which
the proofs assume only what the assumption beside each INSTANCE says.

## 4. Runs

| Run | Question | Bounds | Why enough |
|---|---|---|---|
| `settlement` (207,460 states) | the invariants, refinement and liveness of settlement | 1 invoice, 2 tids, 2 workers, 2 API requests beside the tick | rows of different invoices never meet; two captures need two tids; two workers race for one claim; two requests and the tick hold three stale answers at once |
| `settlement_stuck` (violation) | is every 'processing' invoice resolved? | 1 worker, 1 request | shortest counterexample |
| `card` (56,448) | consent, key bookkeeping, and that the owner is served | 2 owner requests, 2 workers, 2 keys | one key revoked and one registered after it; each operation can race with each |
| `card_orphan` (violation) | is one key only ever live? | 2 requests, 2 keys | shortest counterexample |
| `card_billing` (415,552) | claims and captures under consent; the composition keeps its components | 1 invoice, 1 worker, 1 owner, 2 keys, 1 tid | revocation and re-registration around one charge; the races of several workers are in the two component runs |
| `month_close` (27,138) | amounts, months, numbers, finality, eventual billing | 3 usages (1 held), 3 months, 2 closers, prices 0..2 | a month with an invoice and a supplement beside a usage that commits late; two closes race on one number; 0 is the price the table refuses |
| `signup_missed` (violation) | is every verified member charged? | 1 person, 2 transactions, 1 creator id | shortest counterexample |
| `signup_twice` (violation) | is a person charged once per brand? | 2 creator ids | two ids for one person need two first joins |
| `outreach` (691,403) | nobody is mailed twice, after an opt-out, from a cancelled batch or over the limit | 2 batches to 1 address, 1 reply, 2 senders, 2 days, limits 1 then 2, window 1 day | two batches race for the address, a batch and a reply for the last place of a day; the second day is past the window and past the first limit |
| `outreach_repeat` (violation) | is an address left alone for the whole window? | 1 sender, no replies, limit 2 | shortest counterexample |
| `services` (11,851) | the chain, finished translations, newest mail; everything settles | ledger: 3 transactions, 4 rows; translation: 2 languages, 2 runners, 3 attempts, 1 retry; inbox: 3 mails, replies or webhook answers, pages of 1, 2 faults | one transaction holds the lock, one waits, one starts afresh; a poster, a runner and a retry meet on one row; mail arrives between two pages, a cursor expires and a page fails in one behaviour |
| `surfaces` (1,499,337) | the pages, tables and engines in `MCSurfaces` | 2 brands, accounts, rooms, tabs or processes and 2 requests in flight for each part; the counters of each part as given in `Few` | an answer of the brand left and one of the brand come back to, an overtaken request and its successor; more brands or requests only repeat these pairs. The inbox's threads are of one brand while the other is chosen in between. The engines: 2 or 3 days, limits of 1 or 2, so that each limit is reached, passed by one, and reached again on the next day; 3 people for a chain of referrals; 2 vendors, so that one fails while the other goes on |

What the properties of the last two say, by part:

| Property | Says |
|---|---|
| `ServicesTyped`, `Verified` | types; the committed ledger rows are one hash chain |
| `TranslationIsKept` | 'done' has a text in every language, and only the poster's late answer turns it back |
| `ThreadTellsNewest` | a thread tells its newest mail, but for what came while a reply was being sent |
| `EverythingSettles` | appending transactions end, messages are translated or given up, every mail of the inbox is stored |
| `SessionIsOne` | a page acts for the account it shows; a revoked session ends, a new one is accepted, within the cache's time in every process; no second factor without its phone, one first administrator, each but for calls that crossed; links fit their accounts, resets are limited and end the sessions before them |
| `PagesShowTheirBrand` | panels, billing, the mail form, learned answers and creators' lists are of the brand or creator chosen; an application carries the analysis of the page it names |
| `PagesShowTheNewest` | of overlapping answers the last question's stays; a plan, picked candidates and an analysis belong to the text and list shown; what a creator's screen shows is stored, but for the causes it does not look at; so is what a card of the console shows; what a page of a collaboration tells as done is done; what the sign-up form says of an address, or fills in, is of what stands in its fields |
| `PagesAskOnce` | a button is blocked while its request is on its way and not longer |
| `TextsGoWhereTyped` | a reply and a message are stored in the thread or room they were typed in; the model's text replaces none that is there, a made-up value no stored one, an older text no newer one unless a card was behind; a brand's reply stays until it is stored or its room is left, the outreach form until its saving is answered; an approved brand's link is shown. Not that a typed text outlives a redraw: see "What a redraw takes" |
| `PeopleDecide` | invitations after approval, one verdict, pause until resumed, imports as promised, decisions kept; capacity, agreement before work, the application follows the terms; what is approved is carried out or told to have failed; who heeds a brief passes; a withdrawn consent is felt everywhere; a creator agrees to the commission the page showed, and what was done stays done; an address has one application, and a brand applies once unless an answer was lost |
| `HarvestKeepsItsLimits` | each mail once and within the day's limit, none to who left; rewards once and by first contact; a post a week; what is found is accounted for; a search that converged found little |
| `WhatCostsIsCounted` | charges and ledger agree with memberships; a charge is missed only when a join and a verification overlap; AI evaluations within the cap, once, and shown for the row they judged |

Symmetry is used in `card_billing` (keys), in the outreach runs and in `surfaces`, which
check invariants and properties of single steps only; runs that check liveness use none.
Deadlock is checked in every run but `services` and `surfaces`, whose parts may rest: a
message that is translated, a page whose bounded requests are all answered.

Bounds written into guards: `MaxDay` (`NextDay`), `MaxJobs` (requests in progress; `Room`), `MaxMonth`
(`NextMonth`), `MaxEntries` (`ReadLast`), and in the
new modules those their CONSTANTS name as bounds (sign-ins, loads, versions, posts,
clock, faults, retries). The reconcile tick is outside `MaxJobs`, so
a full API cannot stop it in the model.

## 5. Fairness

- `Settlement!Fairness`: the reconcile tick returns every 30 minutes, each of its
  requests ends, and its lookups and writes do not fail for ever (strong fairness, as
  each may fail any time). Workers go on or die. Nothing is assumed of webhooks, of
  customers or of administrators. `ProcessingWithTidIsResolved` therefore rests on the
  tick alone.
- `BillingCard!Fairness`: PostgreSQL grants an advisory lock to those who wait, and an
  operation that holds it goes on, if only by the PG client's timeout of 20 seconds
  (`nicepay_billing.py:123-138`). No fairness for crashes or PG answers.
- `MonthClose!Fairness`: the billing tick closes every six hours; closes do not fail at
  the same statement every time. Nothing makes a person resolve a held price, so
  `EveryUsageIsBilled` speaks of usage that is not held.
- `Ledger!LFairness`: PostgreSQL lets waiters for a row in, and a transaction goes on.
- `Translation!TFairness`: the runner's tick takes a pending row when nobody holds it,
  and one who holds it stores, fails or dies in the end; a request that posts a message
  ends too (the AI client has a timeout). Deaths are not bounded: what bounds the work is
  `translation_attempts`, counted by every attempt that is stored.
- `InboxSync!QFairness`: only while the console stands at its mail page, which asks for a
  synchronisation every minute (`engine-live.js:706-714`); a synchronisation that began
  goes on. Faults are bounded by `MaxFaults`: each may hit any step, but they end.

No fairness is assumed of people, browsers or late answers: nothing about `surfaces` is a
liveness property.

## 6. Proofs

### `SettlementProofs`

Checked for every number of invoices, transactions, workers and concurrent requests,
under `NoneAssumption` (NULL is no id) and `MaxJobsAssumption` only:

| Theorem | Says |
|---|---|
| `Typing` | the type invariant |
| `CapturedOnce` | money is captured at most once per invoice |
| `PaidMeansCaptured` | 'paid' only for money captured under the recorded tid |
| `CapturedMoneyIsTraceable` | captured money is found from the row or its attempt |
| `CancelledIsHeld` | a recorded cancellation keeps the invoice in review |
| `LedgerHasEachEventOnce` | each event is logged once, and agrees with the row |
| `PaidAttemptIsConfirmed` | an attempt is 'paid' only after a confirmation |
| `PaidIsStable` | 'paid' ends by a cancellation the PG has, and by nothing else |
| `Refinement` | Settlement implements InvoiceLifecycle |

None of the invariants is inductive alone. `OneCapture`, say, holds because a capture
needs an approval or a charge on its way, an approval belongs to the tid its row
records and to a row no worker ever claimed, and a charge on its way belongs to a row
with an attempt and no tid. So the inductive invariant `IInv` says what each place of
the state may hold: `RowInv` the rows, `JobInv` the (stale) answers held by requests,
`ApprovalInv` and `ChargeInv` what is on its way to the PG, `WorkerInv` and `OneClaim`
the workers, `LedgerInv` the entries. `SafetyStep` proves that every action preserves
it (`RequestStep`, `WorkerStep`, `PgStep`: one step per action, one per part the action
can disturb; `Keep...` lemmas cover the parts it cannot). The theorems then follow from
`Safety`. `PaidIsStable` and `Refinement` are step properties: `RowSteps` says how a
step may change one row, `LifecycleStep` maps every step to one of InvoiceLifecycle or
a stutter.

### `BillingCard`

For every number of owner's requests, workers, orders and keys, under `BillingCard`'s
assumptions about NULL and the disjointness of requests and workers.

| Theorem | Says |
|---|---|
| `Typing` | the type invariant |
| `WorkersChargeTheActiveCard` | whoever charges, charges the card that is active |
| `LateChargesFindTheCard` | a charge on its way for a live key is one for the key in the row, so a completed revocation leaves it nothing to use |
| `KeysAreDeletedFirst` | the row drops a key only after the PG has deleted it (a step property) |

The argument: the row is written by the holder of the lock only (`LockInv`), so what an
operation knows of the row when it enters is true until it leaves (`StepInv`). Its request
is the one it sent last (`RequestInv`): the answer it waits for is about its key, although
requests of dead processes are still in flight. A key that was never issued is used nowhere
(`KeyInv`), so the key regist brings is new, and with it no old charge comes back to life.

### `Outreach`

For every number of batches, addresses, replies, senders and days, every limit plan and
window, under `Outreach`'s assumptions (`NoneAssumption`, `ReplyAssumption`,
`WindowAssumption`, `DayAssumption`: NULL is no day).

| Theorem | Says |
|---|---|
| `Typing` | the type invariant |
| `MailGoesOutOnce` | Gmail gets a mail once at most, and its row never reads as unsent when it may have gone out |
| `DuplicatesWaitTheirWindow` | an address is mailed twice only by batches a window apart, counted as the code counts it |
| `OptOutsHold` | after an opt-out only what was under way goes out |
| `CancelledStaysUnsent` | a cancelled batch reaches nobody |
| `LimitIsKept` | a day's mails stay within the plan's limit, until a midnight passes while a sender waits for the account |

The argument: a mail is marked 'sending' in a transaction of its own before the request
(`CurInv`, `OneInv`: one sender per mail), and nothing takes it back to 'pending', so what
is known of a mail (`SentInv`) only grows. The duplicate check is made under the brand's
lock, held until the mark (`LockInv`), so the judgement of a recipient still holds when it
is marked (`WindowInv`). `BatchInv` and `OptInv` say which batches senders work for and
which mails were under way at an opt-out.

The daily limit has an invariant of its own, `DayInv`. It relates what the code keeps, a
counter that starts anew each day and a count of days, to the dates of the mails: the
counter of the account's last day is the number of mails of that day, its days the number of
days with a mail (`CounterInv`). A sender that holds the account's row found room for one
more (`RoomInv`), and nobody else writes the counter meanwhile (`HoldInv`). `Cap` is
whatever plan the constant says: what the argument needs is that a day's place in it is
fixed once the day has its first mail. All of it holds up to the first midnight that a
sender passed while waiting (`BlurInv`), after which the code may count a mail for the day
before.

### `CardBilling` (in `SettlementProofs`)

For every number of invoices, transactions, workers, owner's requests and keys, under the
assumptions of `CardBilling` (requests are not workers, NULL is none of them) and
`Settlement`.

| Theorem | Says |
|---|---|
| `ComponentsAreKept` | the composition is a behaviour of Settlement and of BillingCard, so the theorems of both hold of it |
| `ClaimsHaveConsent` | from claim to answer the card is active |
| `ChargesLeaveARecord` | a charge on its way is recorded by an attempt |
| `RevocationEndsCharging` | no charge captures money after a completed revocation (a step property) |

The lemmas of `BillingCard` come through the instance `Card`. `JInv` joins the two inductive invariants by what binds them: a worker is at
the same point in both (`StepsMatch`), and each charge request of the card is a charge
of the settlement, with one request per invoice and the worker that waits for it
(`RequestsMatch`). `SettlementSteps` and `CardSteps` show that a step of the composition is
a step of each, `JStep` that it keeps `JInv`.

### `MonthClose`

For every number of sign-ups, closers, ids, prices and months, under `MonthClose`'s
assumptions.

| Theorem | Says |
|---|---|
| `Typing` | the columns and what a close has in hand are typed |
| `HeldUsageStaysOut` | usage under audit is on no invoice |
| `ClosedMonthsAreOver` | an invoice bills one month, which is over |
| `NumbersHaveNoGap` | a month's invoices are numbered 0, 1, 2..., and the unique key refuses no close |
| `IssuedIsFinal` | an issued invoice, its usage and their prices stay (a step property) |
| `AmountsAddUp` | an invoice's quantity and amount are the count and the sum of its usage |

The argument: the rows a close has read stay billable while it holds the lock, for their
other writers are a close and `Resolve` (`LockInv`, `RowsInv`); what it has staged agrees
with the committed invoices as if it were committed (`StagedInv`, `Numbered` of what it
sees). `NextIsCount` shows that the number drawn from the maximum is the count of the
month's invoices, so it is free; the induction over the set's minimum, `EarliestMonth`,
rests on the library's theorem that Nat is well-founded.

`AmountsAddUp` compares a sum over rows read, which the code adds up, with a sum over the
usage that is linked in the end. The sum of the community modules is a fold over a chosen
order, so the section "Sums" first shows that it is the value of any function on the subsets
of a finite set that adds one element at a time (`SumIsAdds`; the least counterexample by
size replaces an induction), and that two sums agree when a bijection carries one to the
other (`SumByUsage`). `AmountInv` then says that what a close read is still what the
table says (`RowsFit`) and that what it staged adds up (`StagedFit`).

### `Ledger`, `Translation` and `InboxSync` (in `MCServices`)

For every number of transactions and entries of the ledger, of runners, languages and
attempts of a translation, of times, faults and rows per page of the inbox, under
`MaxEntriesAssumption`, `AttemptsAssumption` and `PagesAssumption` (they are numbers, and a
page has at least one row).

| Theorem | Says |
|---|---|
| `Typing` | the ledger's type invariant |
| `RowsAreOneChain` | what a transaction sees of the ledger is one unbroken chain |
| `AppendsTakeTurns` | at most one transaction has uncommitted rows |
| `ServicesAreTyped` | the type invariants of the three services |
| `TranslationsAreKept` | what is done is whole in every language, and only the poster's late answer turns it back |
| `ThreadsTellTheNewest` | a thread tells the newest mail stored, unless something crossed a reply |

The ledger: the committed rows alone do not tell why an append fits. The invariant says of
every transaction that the rows it sees are a chain (`ChainInv`), that its own come behind
the committed ones (`OwnInv`), that only one transaction has any (`OneWriter`), and that the
row it read last is still there (`SeenInv`); the unique key refuses the others.

The translation: whoever holds the row knows its state, and one runner holds it
(`HolderInv`); nobody holds a row that is done, so only the poster, which holds nothing,
can write it. A merge keeps a whole translation whole (`MergeKeeps`).

The inbox: everything stored is dated at most now (`DatedInv`), and a reply that nothing
crossed is younger than every mail (`ReplyInv`). A page is stored from its oldest row to its
newest, so the thread ends with the newest of it (`NewestIsTold`), and an
older mail that arrives later does not move it.

### `Dispatch` (in `TableParts`)

For every number of batches, creators and readers, if NULL is no verdict (`Verdicts`). They speak
of `K`, the instance of `Dispatch` among the tables.

| Theorem | Says |
|---|---|
| `ApprovedFirst` | whoever is invited is in a batch a person approved |
| `VerdictToldOnce` | a batch nobody read twice at a time tells one verdict, once |
| `BanKept` | a batch repeats no invitation of one that had invited when it was made |

What a reader saw may be old when it writes: `ReaderInv` keeps that an approval it saw
still stands, and that a lone reader finds its batch waiting. A batch that has invited
anybody has no draft left (`InvitedInv`), so it invites nobody later whom a batch made in
between may have taken (`AfterInv`).

### `SurfaceParts`, `TableParts` and `MCSurfaces`

For every number of brands, accounts, creators, rooms, threads, addresses, candidates, places,
tokens, gates, communities, processes and requests, and every `Bound`, under the assumptions
that stand beside each instance: the bounds are numbers, what is counted is finite, the
warm-up's limits do not sink from one day to the next (`int(20 * 1.2 ** i)` under the cap), and
NULL is no name, request, post or verdict. Each part is proved about on its own, beside its
instance in `SurfaceParts` or `TableParts`; `MCSurfaces` joins them.

| Theorem | Says |
|---|---|
| `ButtonsAskOnce` | `PagesAskOnce`: a flag that blocks a button stands for a request under way, and two requests that exclude each other are not under way together |
| `ShownIsOfTheBrand` | `PagesShowTheirBrand`: what a page shows, or works on, is of the brand or creator above it |
| `ShownIsTheNewest` | `PagesShowTheNewest`: of several answers to one question a page keeps the newest, and what it tells is what the server has, but for the named cases |
| `StoredWhereTyped` | `TextsGoWhereTyped`: texts are stored where they were typed, and nothing older or made up takes their place but for the named causes; it does not say that a typed text outlives a redraw |
| `DecidedByPeople` | `PeopleDecide`: approvals before invitations, decisions that stay, agreed terms, places, bans and consents |
| `CostsAreCounted` | `WhatCostsIsCounted`: charges, ledger and evaluations |
| `OneSession` | `SessionIsOne`: the browser's session, the cached epoch, the administrators, the links |
| `HarvestIsLimited` | `HarvestKeepsItsLimits`: mails, rewards, posts and searches |
| `SignUpsUseTheLedger` | a step of a sign-up's transactions is a step of `Ledger` or none of the ledger's: the transactions of `SignupUsage` implement the ledger whose chain `RowsAreOneChain` proves |
| `EveryPartIsTyped` | `TypeOK` of all 31 parts |

`PartsInv` joins the invariants of the parts. A behaviour stays in its part (`PartStays`), so each
part keeps its own (`BillingKeeps`, ..., one step per action of the module, and under it one per
conjunct of the invariant).

**Pages.** A flag is one variable and the requests are many: that they agree is not inductive,
for an answer is compared with the brand, the version of the page or the room at its arrival,
and all of these change while it is on its way. Each page has therefore an invariant of what is
on its way (`AskedInv` of `BillingPage`, `BrandLearning`, `BrandRoom`, `BrandPanels` and
`AdminDesk`, `ListsInv` of `InboxPage`, `LoadsInv` of `CreatorPage`, `FormInv` of `OutreachPage`
and `SignupForm`), which says of every request how its brand, version, room or verdict
compares with the page's. Nothing asked is of a later version than the page's, what is asked
at this version is of this page, and the version grows with every change that gives answers up.

**Collaborations.** The count of places is read in one statement and used in the next. The
invariant says that it still holds when it is used (`CountHolds`), which rests on the lock of
the campaign's row: one selection is under way (`OneSelection`), and the steps of other requests
only take places away from `Taken`.

**Sign-ups.** What the ledger tells of a membership is compared with the committed tables, but a
transaction writes the two at different times and others commit in between. `EntriesInv` says
of each membership who tells it: a committed entry, or the one transaction that has inserted
it and not committed (`WriterTold`); `ChargesInv` and `TriggeredInv` say what the trigger saw,
and that a charge it did not make is made by the other transaction, unless both ran at once.
The ledger's rows stay within its bounds (`LedgerTyped`), by way of
`SignUpsUseTheLedger`: each step of the sign-up is one of the ledger's or none.

**Evaluations.** Under the brand's lock one call asks (`AskingInv`); what it asks for was neither
in the cache nor asked before (`AsksInv`), and with what it asks the day stays within the cap.

**Sessions.** `TokensInv` says which answers on their way may bring a token and that no two bring
the same; `HeldInv` dates what a process remembers of an epoch: it was the account's at that
time, so it is at most the cache's time old. `SecretsInv` and `BootstrapInv` keep what each tab
of the administrators shows and waits for. A link: whoever read an account found one that fits
(`CallsInv`), and an account stays of its kind. The limits: requests overlap and are dated by
the beginning of their transaction, so they are recorded out of order; one request holds the
locks and counts what it shares a window with, with no upper end (`LocksInv`), so what it
counted contains every window its own row will fall into.

**Late answers.** `BillingPage!LateInv`: as long as no answer failed to come, a card that is
shown is the server's, or it is known by then (`Done`), or a read of it is still on its way, and
what that read brings is the server's. The inbox tells of a reply no more than its row says
(`ToldInv`): a request for a reply finds it as the request says, not stored, taken or sent, and
no two requests store or take one reply (`AskedInv`); an open thread tells its replies unless
they are being asked for (`OpenInv`). A late answer opens another thread under the field in
which a reply is typed; the text in the field, and that of a reply on its way, is of the
thread it is for, because the redraw that changes the thread empties the field (`TypedInv`).

**Plans, screens, forms, offers.** What a page will be told is on the wire, so the invariants
speak of that. A plan on its way is of the text it was asked for (`PoolPage!WireInv`). What a
screen shows without a cause to differ is stored, or is the one value on its way there
(`StoredInv`), and a made-up value leaves it only for a field the server did not have
(`MockInv`). Where nothing raced there is one save, of a text not older than what is stored
(`NewerInv`), and every save that was answered may ask for the card once more (`CountInv`). An
offer that is seen is the one that was made, for it is made once; who agrees has seen one; and
what was answered with success has been done (`CollabPages!WireInv`, `SeenInv`).

**Decisions.** A call goes on only from what admitted it, and until two overlap it read the
state as it is (`SenderDomain!CallsInv`). A list of gates says what was so when it was read, a
decision is final, and with one list at a time none is older than the page it comes to
(`ApprovalDesk!ListsInv`). A ban outlasts that of every consent that ended
(`ConsentStore!BanInv`); what was carried out is approved (`GateEngine!WaitingInv`); a brief
forbids what the rules it was written by forbid (`Submissions!BriefInv`). The invariant of
`Dispatch` is described above.

**Engines.** An address that is not lost has got the mails before its step, a batch that waits
has the step of each of its addresses and room in the day, and who left is not on the way
(`SequenceInv`, `BatchInv`, `CountInv`, `LeftInv`). The room in the day rests on a warm-up that
does not sink. Who is paid for, or proposed, has completed, and a device knows who claimed from
it (`PaidInv`, `ClaimsInv`). What let a post be drafted still lets it be posted, but for what
overtook it (`DraftsInv`). The search: what waits to be fetched was emitted once by each worker
(`EmittedOnce`), a call counts no more new accounts than the window still shows of it
(`CallInv`), and the batches of a streak found few (`FewInv`).

Every invariant and every action property of a passing run is proved. Only model-checked: the
four properties of liveness of the passing runs (`ProcessingWithTidIsResolved`, `OwnerIsServed`,
`EveryUsageIsBilled`, `EverythingSettles`), which are out of this prover's reach, and the
counterexamples of section 7.

## 7. Findings

1. `settlement_stuck`: a worker that dies between its claim and the PG's answer leaves
   'processing' without a tid; the reconcile tick selects rows with a tid only
   (`runner_daemon.py:265`), though its docstring says such invoices are looked up.
2. `card_orphan`: the docs promise one billing key under concurrent registration; a
   registration whose answer is lost leaves a live key nobody knows.
3. `signup_missed`: a join and a verification that overlap do not see each other and
   the verified member is never charged. `MissedOnlyInRace` (in `WhatCostsIsCounted`) shows that this is the only
   way to miss a charge.
4. `signup_twice`: two first joins of one person create two creator rows, and the brand
   is charged for both.
5. `outreach_repeat`: the 90 days in which an address is not mailed again are counted
   from the creation of the other batch, not from its sending, so a batch that waited
   longer does not protect its recipients.

## 8. Not modelled

- Settlement: wording of pages, signatures (an unsigned answer is an unverified one),
  network retries inside the HTTP client. `billing_card_status` and `usage_audit_list`
  only read; `invoices` lists what `close_months` made.
- MonthClose models one brand: the advisory lock and all queries are per brand.
- SignupUsage: taglines and logos of brands, the removal of members.
- Outreach: the AI draft and its rate limit, the OAuth handshake, the demo mode, the
  runner's spacing of its calls (a sender may start at any time), inbound mail.
- Gates: who asks for which gate. `send_reply`, for one, writes the gate it asks for and
  never reads its verdict, so there is no promise to check.
- Pages: layout, wording, toasts; `engine.js` (a demonstration without a server); the
  screens of the React apps that show `mock.ts` only or post nothing. `ConsoleForms` takes
  the fields of a card as one text: that the save of a product posts every field that is
  not empty, so that none can be cleared, is not in it.
- SignupForm: the fields the analysis does not fill, the format of an address, the daily
  limit of analyses per client, the cap on the length of answers.
- AdminAccess: the form that asks for a reset by mail, which changes nothing on the page.
- SessionEpoch: `auth.py:156` calls a reset visible at once in its own process; between the
  bump and its commit the old epoch may be read and remembered again, which the model has
  and `RevokedWithinTtl` allows for.
- Dispatch: a batch whose gate was put on hold, was read by then and is approved later
  stays held for good; an import does not look at the batch's state. Both are in the model;
  no document promises otherwise.
- Harvest: the adapters of the vendors, the scores, the merging of duplicates (computations
  on one record), the scheduler's times, the legacy sender BrandGmailEsp.
- Products and campaigns: one insert each, guarded by a unique key. The channel scores of
  `core/evaluation.py` and the store of `core/brand_profile.py` keep one record each and
  nothing that could race.
- Translation and AI calls: what a text says; prompts and scores.

The map covers the lines that keep state across requests. Much of the frontends is layout
and text in template strings; `engine.js` and `engine-live.js` exist in four copies each, of
which the map names the one a surface loads: of the lines of JavaScript the four copies are
three quarters, so the map's share of all lines is small however much of one copy it names.
`engine.js`, and the second recording of it in `engine-live.js`, never run on a deployed
page, as all three pages set `window.__SURFACE`. These lines stay uncovered on purpose.

### Observations

While modelling we met behaviour that no document speaks of, so that it is no finding. It is
in the models, as a named exception of a property or as a free step:

- Settlement: a unit price of 0 is accepted by the API and aborted by the table's CHECK
  (`routes_payments.py:639`), so a held row can never be resolved as free.
- Accounts: `otp_enable` compares a code with the secret it read and switches the factor on
  by the user's id only; the bootstrap checks, then inserts; a failing `me()` of one tab
  removes the token another tab has just stored; `accept_invite`, used to set a new
  password, does not end older sessions.
- Console: the notice of a failed synchronisation appears under the brand chosen since;
  answers to `inboxOpen` are compared with nothing.
- Approvals: the page shows a refused approval as "approved, executed" until its next list
  (`Approvals.tsx:94`), and a refused hold over another member's approval. In `GateEngine`
  an approval whose executor fails stays APPROVED, is never executed, and cannot be decided
  again.
- Cards of the console: a second save that crosses the first may leave the older text. Nothing
  blocks the button of a reply to a thread, so two clicks store the reply twice.
- Sign-up form: the text of an earlier page stays where the analysis of the next finds none;
  the address checked and the one sent may differ, which the server's own check makes good;
  after a lost answer a brand can apply once more under another address.
- Creators' screens: a failed change looks saved; leaving a field the server does not have
  stores the made-up value shown in it; a late list goes over typed text; the stored
  language is never loaded.
- Consent: what was granted twice survives one withdrawal; `outbound_frozen` is read by
  nobody in this repository.
- Harvest mail: a failure in a batch leaves mails that went out uncounted; a later bounce
  overwrites a complaint's reason; a resume is undone at once while the rate is over the
  limit; a restart forgets enrolments and suppression; a gate that was held and approved
  later sends nothing once it was polled.
- Referrals: the owner of a suspended code gets a new one, and completed claims of a
  suspended code are still paid. Communities: two drafts made before either is posted can
  both be posted in a week.
- Discovery: accounts that are gone are not stored as excluded, and a roll-over drops the
  candidates it is said to carry over (`discover.py:96`); a URLError is no VendorError, so
  its message is lost; empty batches count as convergence.
- Content: the check sends a post back for a claim it only warns of, and knows nothing of a
  functional claim a brief allowed; the template repeats the brand's words unchecked.
- AI evaluations of a call that began before midnight count for the day before.

### What a redraw takes

The console builds its page anew with every render and puts back the fields of the outreach
form and the question only (`engine-live.js:1401`, `:1442`); a comment there says that a render
erases what is typed (`:588`). So each of these loses a text that was being typed, and no
property says otherwise:

- `InboxPage`: the reply to a thread (`ibxBody`, `:852`), with every render: the answer of
  another card, a row folded out, and the synchronisation of every minute (`:706`-`:714`).
  `Render` empties `drawn.typed`, `Redraw` may happen at any time.
- `CreatorRoom!Render`: the creator's message. `BrandRoom` keeps the brand's reply over a
  redraw (`DraftIsKept`); opening a room, reading the rooms again and a change of brand take it.
- `ConsoleForms!Render`: the cards of the brand's identity and a product's profile.
- `CreatorScreens!Load`: a field of the creator's screens, when a list comes late.
- `OutreachPage!OnDrafted`: what was typed into the outreach form while a draft was saved.

## 9. Plan

1. Done: Settlement with InvoiceLifecycle, BillingCard, CardBilling, MonthClose, Ledger,
   SignupUsage, Outreach, the pages and the tables behind them, the engines of
   `services/core` and `services/harvest`; proofs of Settlement, BillingCard, CardBilling,
   MonthClose, the services, Outreach, Dispatch, and of all 31 parts of `MCSurfaces`.
2. Proofs next: none of the invariants and action properties of the runs is left. Worth adding
   are refinements: the tables behind the pages as abstract specifications that the pages
   implement, as the sign-up does with the ledger.
3. An abstract specification of Outreach (a mail is offered, may go out once, and is then
   told or held for a person), and the change of a brand's account.
