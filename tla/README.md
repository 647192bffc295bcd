# Formal model of the WhatsApp office API

This directory holds TLA+ specifications of the API in `src/` (NestJS, Prisma and
MySQL, one Node process under pm2), the TLC configurations that check them on
small instances, and theorems about them that TLAPS proves for every size. Paths
below are relative to the repository's own root, so `inbox/inbox.service.ts` is
`src/inbox/inbox.service.ts` there.

Two facts about the program shape every model. It runs as one process, so code
between two `await`s is not interrupted; but every request, cron job and
background loop awaits many queries, and another handler may run at each of
them. And the process may restart at any time (pm2 restarts it, a deploy
replaces it): what is in memory is lost, what is in MySQL stays. A model
therefore has **one step per awaited query that another handler can get in
before**; a `$transaction` or a single conditional `updateMany` is one step.

## 1. Inventory

### Parts and their state

| Part | Code | State | Operations that change it |
|---|---|---|---|
| Handover of a chat | `inbox`, `bot`, `novedades`, `phone-numbers` | `Conversation` (status, botPaused, assignedUserId, handedOverAt), `Message`, `Notification` ("matters") | take over, reply, release, the sweep of every minute, echoes of the WhatsApp app, requests of the bot, edits of matters |
| Bot sessions | `bot/bot.service.ts` | `Conversation` (sessionStartedAt, lastMessageAt, warnedAt, flowState, client link) | open or renew a session, store a message, reset, claim inactivity warnings, identify the client |
| Retention, import of old chats | `bot/message-retention`, `bot/coexistence-sync` | messages, conversations | prune by age, import history |
| Rejected payment notices | `rejections`, `notices` | imports and rows with a status | upload, mark, remove, send in the background, recover at start |
| Expired policy notices | `expired-policies` | one notice per policy and send | send, mark, hide, recover at start |
| Sales campaigns | `sales-campaigns`, `template-sync` | campaigns, messages, opt-outs, templates | create, approve (Meta), send, opt out, recover at start |
| Message plans | `usage`, `billing` | events, monthly counters, the number's plan, pause and blocks | record a delivery, pause at the limit, continue, assign a plan |
| Assistant of the panel | `assistant` | conversations, proposed changes | ask, propose, confirm, cancel, undo, retention |
| Triunfo (the insurer) | `triunfo`, `cartera-sync`, `infoauto` | credentials and token caches, errors, outages, policies and installments | call, retry, open and close an outage, sync twice a day |
| Integration status | `integration-status` | components, incidents | record an outcome, open, alert, explain, close |
| WhatsApp onboarding | `whatsapp-onboarding` | accounts, numbers, connection state | onboard, reconnect, monitor every half hour |
| Monthly figures | `monthly-close`, `balance` | one row per closed month | close (cron, catch-up at start, owner), snapshot |
| Business hours | `business-hours` | weekly schedule, closures | edit, sync of holidays |
| Claims, requests, quotes | `siniestros`, `solicitudes`, `cotizador`, `coverage-settings` | claims with their photos, leads with their matters, offered coverages | file, attach, choose, edit |
| Accounts and plans | `users`, `owner`, `phone-numbers`, `plan-features` | users, codes, grants, numbers, the catalog of plans | create, edit, move, assign |
| Clients, tasks, content | `clients`, `tasks`, `improvements`, `activity-log`, `dashboard`, `public`, `mail` | one row each | create, edit, read |

### How they meet

* The **WhatsApp bot** is another program. It asks this API for a chat's context,
  stores messages, asks for the office, reports deliveries and errors, relays
  Meta's echoes and sends the templates the API hands it
  (`inbox/bot-notifier.service.ts`). It retries, so calls come twice.
* The **chat's row is shared**: inbox, bot, sweep and notices write the same columns
  from reads of their own; the matters of a chat are written by `novedades` from
  all of them.
* **Usage pauses the bot**: `usage` writes `planPausedAt`, `bot` reads it in
  `getContext` and in the inactivity warnings.
* **Notices write into chats**: `notice-delivery` stores what it sent as a message
  of the office.
* **The assistant calls the services** of the panel's own forms, so its changes race
  with people's edits.
* **Crons** share rows with requests: takeover sweep (minute), templates (hour),
  campaigns and connections (half hour), overdue installments, portfolio, holidays,
  retentions (day), close and snapshot (month).

### What is hard, and what must hold

| Part | Hard | Correct when |
|---|---|---|
| Handover | several handlers decide on reads that are stale when they write; echoes come twice; a takeover nobody ends | one owner at a time; the pause columns agree; only a takeover or a new reply silences the bot; nothing unanswered leaves the pending list; the chat returns to the bot |
| Rejected payments | WhatsApp cannot be rolled back; double clicks; restarts and failed queries between sending and saying so | one sender per row; no repeat without a doubt the row shows; what is sent was taken; a marked row is never sent; sending ends |
| Plans | repeated and late reports, several at the limit at once, the office answering meanwhile, the month's end | each message counts once, in its month; one pause per answer; a lifted pause leaves room; a number at its limit is paused |
| Assistant | double taps, cancellation against confirmation, restart and failure around the change, edits in between, several tabs | at most one run per proposal; the card tells what happened and what it restores; a question is asked once |
| Sessions | goodbyes claimed while the customer writes; overlapping calls | a silence is told goodbye once; nobody gets the data of an earlier visit |
| Expiry, campaigns | read, then create, with no unique key; opt-out while queued; two writers of a text under review | written once in the window of what could be seen; none after an opt-out; what is approved is the text |
| Insurer | concurrent refusals, shared tokens, restarts | one request for a token; one notice and one mail per outage; access comes back |
| Portfolio, status, close | overlap of cron, start-up and button; half-done runs | no hole in the first range; the memory agrees with the rows; a closed month is not written again, and says of its end only what was read in time |
| Claims, requests | photos and choices that come after, from older reads | nothing is attached to a foreign claim; what is new is before the office |

`PROJECT.json` lists every part with its status and every hazard a property
covers with its line. These are known too, and no property covers them:

* `inbox.service.ts:345`: the process stops between a release and
  `resolveAnsweredMatters`; the matters in progress stay so until another release.
  `:346`: a release resolves what a second agent, who took the chat over since, was
  answering. `:494`: a reply WhatsApp took fails to be stored, and is sent again.
* `bot.service.ts:1206` and `novedades.service.ts:83`: a chat still waits after its
  matter was resolved by hand; two equal requests at once open two matters.
* `rejections.service.ts:318`, `:158` and `notice-delivery.service.ts:120`: a removal
  between the count of what is being sent and the deletion; overlapping Excels
  stored before either is sent; a chat said to lack the notice it has.
* `usage.service.ts:570`, `:620`: a report of last month's delivery after the month's
  end; a notice of the pause created after its answer.
* `assistant-actions.service.ts:109`, `:140`, `:172` and `work.tools.ts:365`: a
  cancellation that overwrites a confirmation, a restart between claim and change, the
  way back of a change still running, a value edited since it was read.

Section 4 shows where they lead.

## 2. What is modelled

Every module says in its header which files it translates; `map` in `PROJECT.json`
gives the lines of each definition. A request, job or loop is a record with its step
and the locals it read; the row it writes is a variable of its own. History variables
are said to be so where they are declared. Definitions marked *Slip* are variants
with a plausible error: each property was seen to fail with one in place of the
real definition (`mutants`).

**Chats**

* `Handover` (one conversation). `conv` is its row, `talk` the time of the last
  message of each side, `stored` the ids the unique column protects, `matters` its
  notifications. `Takeover`, `Release`, `CheckSend`/`Persist`/`SendMark` (a reply from the
  panel), `EchoRead`/`EchoStore`/`EchoMark` (a reply from the app), `AskSkip`..`AskCreate`
  (`requestHandoff` and `recordHandoff`), `CancelRead`/`CancelCommit`, `SweepRead`..
  `SweepResolve`, `UpdateMatter` and `ClearAll` of the panel; `...Fails` cuts a handler
  where a query may throw. `ChatOwner` is what all of it promises: who speaks, who
  owns, and that ownership passes only through nobody. `MCMatters` starts requests
  that repeat or complete one another.
* `ChatSession` (one chat): storing a message of the person and of the office, the
  session it renews or starts, identification, the change of number, the reset,
  the poll for the inactive, echoes and imports. `MCSession` gives it a holder and a
  relative on one phone.
* `NumberConnections`: an Embedded Signup in its statements, Meta's drops, webhooks and
  the monitor's checks, and the chats that move to the line's new row.
* `QuoteRequests`: a quote request and its matter, against the office's two screens.
* `Claims`: claims filed on the web or by the bot, their report to the office, and
  the photos that find and join them.

**Notices**

* `RejectionNotices`: `CreateRead`/`CreateStore`, `Mark`, `RemoveCount`/`RemoveCommit`, each
  request to send as a process (`SendRead`, the conditional claims, `Launch`, and
  `deliverAll` with the step of each query and of its catches), `QueryFails`, `Restart`.
  WhatsApp answers, refuses, or takes the notice and the answer is lost. `told`,
  `taken` and `doubts` are history.
* `ExpiryNotices` and `CampaignMessages`: read, create, deliver one by one, recover;
  marks and opt-outs meanwhile. `CampaignTexts`: versions of a text against Meta's
  reviews. `CampaignFinder`: whom each campaign finds, a reading, compared with what
  it must find over every small portfolio.

**Plans and accounts**

* `PlanPause` (one number; a plan is named by the messages it includes): a report is
  `Resolve`, `Record` (event and counter in a transaction, or the conflict of two that
  open the month's counter together, `Collided`), `Bill`, `ResetPlan`, `AtLimit`,
  `Pause`, `Announce`; calls to the model open the month too; the office asks and
  answers. Months turn at any time. The catalog is like the repository's: the trial
  is smaller than every paid plan.
* `PlanCatalog`: plans, the functions they include and the lines on them.
* `OfficeAccess`: accounts, roles, codes, grants, numbers (billed, switched on or off),
  and what a list shows.
* `MonthClose`, `MonthBalance`: months closed by the cron, the boot and the owner. A
  close bills the plan of `billFor` (a trial in the first month only, else the smallest
  paid one); what a balance counts changes after its month too: late reports, requests
  dated anew by another (`joinOpenHandoff`), rows removed, policies counted by their
  status of today.
* `OfficeHours`: weekly ranges, closures, holidays, and what the bot says of them. A
  day has four slots, two of them after nine at night, when it is tomorrow in UTC.
* `CoverageSettings`: the coverages quotes discover and an admin edits.

**Assistant**

* `AssistantActions`: a stored field that proposals set: propose, expire, confirm
  (claim, run, save), cancel, way back. `AssistantChanges`: what each kind of card
  shows, writes and restores. `AssistantChat`: questions, rounds and answers.

**Insurer**

* `TriunfoTokens`: the caches, the shared request, the pause after a refusal, the
  owner's save. `TriunfoErrors`: failures, outages, notices and mails.
  `PortfolioSync`: a run over a policy and an installment. `VehicleCatalog`: the
  login and the caches behind a quote. `Incidents`: reports, alerts and explanations.

`MCOutreach`, `MCOffice`, `MCPanel`, `MCInsurer` and `MCLive` put parts that share no
state side by side: a variable `part` says which one a behaviour is of, the others
are at rest. `MCHandover`, `MCRejectionNotices`, `MCPlanPause` and `MCAssistantActions`
only give names to the constants.

## 3. Runs

| Run | Instance | Question |
|---|---|---|
| `handover_takeover` | two agents, one echo delivered twice, the sweep | owners, pause columns, retried webhooks; the handlers implement `ChatOwner` |
| `handover_matters` | one agent and one echo, a request with a topic, a bare one and one of a blocked claim, edits to resolved, the sweep | what leaves the pending list |
| `handover_returns` | one agent, one echo, a request and a cancellation, one failure, fairness | the chat returns to the bot |
| `handover_sweep_race` | one agent and the sweep | refuted: the sweep undoes nothing |
| `rejection_sends` | one Excel of two rows, one already paid, two requests, two failed queries, a lost answer, a restart, fairness | senders, repeats, statuses, end of the sending |
| `plan_counts` | a trial and two paid plans, a reply and a campaign message, two reports, a person, two months, a failure | counts, pauses per answer, room after an answer |
| `actions_once` | two proposals, three requests, an edit, a refusal, a failed query, a restart | at most one run; a card at rest is true |
| `outreach` | two writers of two texts; every portfolio of two policies and two quotes; two requests over a person's two items; two sends over two expired policies | approved text, cooldown, opt-outs, whom a campaign finds |
| `office` | two messages at once or one beside the office; two organizations, two accounts and a phone; two submitters; three months, a trial and two paid plans | sessions, lines, requests, months |
| `panel` | two tabs, two cards of each kind, two offices with two requests, two days of hours with ranges up to midnight, two plans, two coverages | answers, cards, access, hours, catalog, coverages |
| `insurer` | two callers, a sync and an owner; two reports; two signatures and two explanations; two runs; two quotes; two photos | tokens, outages, incidents, portfolio, catalog, claims |
| `live` | the smallest instance of each in which it can get stuck, fairness | access comes back, templates reach new accounts, drops are noticed, a full number is paused by its next message |

**Bounds.** Every hazard is a race of two handlers, or of one and an interruption;
the instances have the two of each kind that race, plus the third party that
makes it matter (the sweep, the person, the month, the owner). Two failed queries
are what it takes to leave a catch by its own failure. Two rows, plans, matters,
policies or codes let one be right while the other is wrong. Clocks have one
instant to write in and as many as the longest timeout. Every bound is a constant
(`Max...`, `Last...`, `ActiveUntil`) in the guard of the action it bounds (in `panel` part of
those of the hours is used up at the start for a number connected later and for one with
hours of its own), and
`CHECK_DEADLOCK FALSE` stands where people, requests and time are used up. The
theorems of section 5 hold for every value of those constants, so what they state
does not rest on the bounds.

**Symmetry.** Requests, reports, messages and the like differ by nothing but their
name, and are permuted in the runs without liveness properties. Where a run puts
several parts side by side, a permutation swaps the pair of every part at once
(`MCTwins`): only the one at work moves, so this is as good as swapping its own.

**Fairness.** A handler that started goes on: its query ends or throws (`Fairness`
of `Handover`, `Claiming`/`Delivering` of `RejectionNotices`, `Handle` of `PlanPause`,
`...Fair` of `MCLive`). Nest runs the crons, and time passes even if people keep acting:
strong fairness of `Tick`, of the half-hourly passes and of a check that other
steps may disable for a moment. Graph does not keep silent for ever
(`ProbeFindsDrop`). That a message is reported at all is not assumed: `NextReportPauses`
starts from a report that looked its number up. Nothing is assumed of people, of failures or of restarts, and
a request that died is not revived.

## 4. What the code does not keep

The takeover sweep (`handover_sweep_race`) is the finding of `PROJECT.json`:
`autoReleaseToBot` is conditional on `botPaused` alone, so a takeover or reply after
the sweep's reads is undone, which its comment excludes. These other formulas
are in the modules, most beside a text of the repository that says them; TLC
finds a counterexample of each on instances like those of the runs (the two of
`NumberConnections` that name a history variable came out of the proof of section 5,
and need two phones).

| Module | Formula | What happens |
|---|---|---|
| `Handover` | `SinceWhenKnown` | an echo that read the pause before a release leaves `handedOverAt` null |
| | `SkipOnlyIfWaiting` | the matter was resolved by hand and the chat is still `pending` |
| | `SettledByAnswer`, without `crossed` | an echo marks a matter opened after its message was stored |
| | `RepeatsShare` | two equal requests at once open two matters |
| `RejectionNotices` | `NeverLooksUnsent` | two failed updates leave a taken notice as `FAILED` |
| | `NothingLeavesRemoved` | a claim between the count and the deletion |
| | `PollingEnds` | a failed claim strands the rows claimed before it |
| | `NoteIsTrue` | the last update fails and the chat does have the notice |
| | `ReadyIsNews` | both Excels were stored before either was sent |
| `PlanPause` | `PauseIsEarned` | a report that read the old plan pauses the new one |
| | `PausesForItsMonth` | a late report awaits the trial's reset across the month's end |
| | `NoticeMeansPause` | the notice is created after the answer |
| | `EndedMeansCounted` | two messages open the month's counter together, and the conflict is taken for a repetition: one of them counts in no month (`usage.service.ts:532`, `:566`) |
| | `NextReportPauses`, of the report itself | a report that fails after counting is not made up for by its repeat, which returns early; nor does a plan that the month already filled pause (`billing.service.ts:262-273`): the number answers until another message is reported |
| `AssistantActions` | `CancelledDidNothing` | a cancellation overwrites a confirmation that came in between |
| | `FailedDidNothing` | recording the result failed after the change was made |
| | `ConfirmedWasApplied` | the process stopped between the claim and the change |
| | `UndoneWasApplied` | a change is proposed back while it still runs |
| | `UndoPutsBack` | somebody edited the field between proposal and confirmation |
| `AssistantChanges` | `NoteIsTrue` | a note promises the organization's account and the number keeps one of its own |
| | `NothingHalfDone` | a card of two services fails at the second |
| | `OtherDaysStay` | a card for one day writes the whole week it read |
| `AssistantChat` | `ProposedIsTold` | the turn failed after its card was made |
| | `OneAnswerEach`, `AnswersItsQuestion` | two tabs ask at once |
| `ChatSession` | `LinkOfThisVisit` | an office's message days later keeps the old session (`bot.service.ts:79`) |
| | `GoodbyeKeepsClient` | the goodbye ends the session, and the link counts for that one only |
| `NumberConnections` | `ReconnectedStays` | a check asked before a reconnection marks the line after it |
| | `AlarmsAreTrue`, without `removed` | Meta's PARTNER_REMOVED is believed as it comes, so one about a line the panel does not serve marks the account, whose own lines are fine |
| | `ChatsFollowLine`, without `split` | an account with two lines: the row that is reconnected is taken for being the only unknown one, and the chats stay behind (`whatsapp-onboarding.service.ts:655-660`: "a Coexistence account holds a single number") |
| `QuoteRequests` | `DocumentsKept` | another request writes the payload it read before |
| | `StatesAgree` | two first submissions; a submission that reopens a matter alone |
| `CampaignTexts` | `ApprovedIsText` | a review read from an older row comes back beside the new text |
| | `ErrorIsRetried` | asking every half hour makes a failed template too recent to retry (`sales-campaigns.service.ts:195`) |
| `CampaignMessages` | `OneMessageEach` | two ticked policies of one client |
| | `TakenIsSent` | WhatsApp's answer is lost |
| `ExpiryNotices` | `RenewedIsNotTold` | a send believes the list the panel opened with |
| `CampaignFinder` | `OnlyListed` | ticked alone, an older policy is the latest of those ticked |
| `MonthClose` | `UnmarkedIsMonthsEnd` | a plan changed on the 1st before the close is frozen as the month's |
| | `ClosedIsWhole` | a first message of the month reported after its close |
| `MonthBalance` | `CountIsWhole` | what a month's balance counts goes on changing after it is written |
| | `FirstIsTaken` | the snapshot of the 1st is skipped while the owner's goes on |
| `OfficeAccess` | `PromotedIsCleared`, `FlipsAreReal`, `FieldsStay` | grants, switch and assistant's data written from what was read |
| | `SomebodyRuns` | the last SuperAdmin can be removed |
| `OfficeHours` | `TodaysClosureIsSaid` | after nine at night it is tomorrow in UTC, and a closure that ends today is dropped (`business-hours.service.ts:97`) |
| | `PromiseIsOfAnOpenDay` | on such a night a range that begins later is promised, "hoy a las 21:30" (`schedule.ts:205-209`) |
| | `HolidaysAreClosed` | a holiday removed as moved is not loaded again when it is back |
| | `ReopenedIsOpen` | two syncs at once load a holiday twice, and one of them stays |
| `PlanCatalog` | `AlwaysAPaidPlan`, `AlwaysOneTrial`, `OtherRoleStays` | two requests of the owner at once |
| `CoverageSettings` | `FirstEditsStay` | two first edits of a code meet |
| `TriunfoErrors` | `NoNoticeLeftBehind` | a success comes in before the notice is linked |
| `Incidents` | `AlwaysFits` | the model explains the incident as it is by then |
| | `SuccessEndsAll` | a report that stopped leaves an incident nobody names |
| `PortfolioSync` | `FailedIsRetried` | what failed in the first range is older than the next ones |
| `VehicleCatalog` | `ListedIsFound` | a publication between two pages moves the vehicle to the one read |
| `Claims` | `BurstIsKept` | photos that join at once write back what they read |

Seen in the models and stated nowhere: two additions that join one matter at once, of
which the later keeps the body it read (`novedades.service.ts:180`, `:199`); a bare request
of a blocked claim that joins a matter and leaves no mark on it (`:198`).

Noticed while reading, not modelled: a removed account of another organization
comes back with its former codes; the check of a reconnection's own code
(`whatsapp-onboarding.service.ts:133-138`); the search of a free slug, which never ends
for a taken one of the greatest length (`owner.service.ts:503-513`); the login of a
removed user whose token has not run out; a second master code added in the
owner's panel.

## 5. Proofs

All are checked by TLAPS to the last leaf, for every value of the constants that
the named assumptions admit: sets of any size, any timeouts, any bounds on faults
and counters. The assumptions
say that numbers are numbers, that marks such as `NULL`, `Nobody` or `Unknown` are not
members of the sets they stand beside, that sets something is taken from are not
empty, and that tables given as constants fit their types; three say more (`PlanPause`: a
catalog with a smallest and a largest paid plan; `CampaignFinder`: its windows are in
order; `OfficeHours`: the year turns within the days the model runs, or after them). Each
is evaluated by TLC in a run.

* `HandoverProofs`. `TypeCorrect`, one lemma per handler. For the columns of the
  row, every step of every handler is one of the few kinds `ConvStep` lists
  (`ConvSteps`); `PauseIsCoherent`, `OwnerStaysExclusive`, `ChatStaysOwned` and
  `HandoverImplementsOwner` (the refinement of `ChatOwner`) follow from it.
  `PauseAlwaysHasCause` needs no invariant: it is each handler's own guard.
  `SettledOnlyByAnswer` is by `AnswerInv`: the instant a reply settles up to is the one
  it is stored under, a matter is not asked later than now, and one asked between the
  two queries of an echo carries `crossed`. Echoes, requests and edits are all part of it.
* `RejectionProofs`. `IInv` is inductive: whoever holds a row finds it
  `SENDING` and holds it alone (`HeldIsSending`, `OneSender`); what is still to be sent
  was not taken for this claim, and what is being recorded was (`Unsent`); every delivery
  but the first is paid by a doubt, and a row that is open again by one already
  counted (`Accounted`). `NoRepeatWithoutDoubt` alone is not inductive: it needs to know
  that a row claimed again is one whose last delivery was counted. `SentIsInChat` adds
  that a row about to be stored as sent without a note is in the chat already (`Recorded`).
* `PlanProofs`. `PausedOnce` rests on `PausesAnswered` and `NotPausedAhead`: every pause of
  a month but the one in force was lifted. `LiftsLeaveRoom` adds that a desk accepts a paid plan, or
  blocks for a month there is (`DesksAsk`), and that those blocks cover what is over
  (`BlocksCover`). `MessagesCountOnce` (`CountedOnce`) says the counter of a month is the
  sum of its events. That sum is a fold over a set, and no induction over folds can be
  cited; instead the sums before and after a report are compared at the smallest part
  of the events where they would differ (well-founded induction on finite sets).
* `AssistantProofs`. `RunsAtMostOnce`: a request that runs a proposal is alone with it
  (`OneRunner`), found it claimed by itself (`RequestsHold`), and an unclaimed proposal never
  ran (`UnclaimedNeverRan`). `CardsTellTheTruth` adds what each step knows of the change.
* `OutreachProofs`. Four inductive invariants, one per module, each with `[]` over
  `OutreachSpec`. Messages: a row free of suspicion waits in one queue and was
  created by a send that saw every row of its person up to it, so what it repeats
  was not to be seen; an answered opt-out is stored under the reading of the
  person's chat, and no send begun later has that person among its targets. Expired
  policies: the same over the rows of one policy. Texts: what a writer will store of
  an account is the review of the campaign's version, unless it was overtaken. For the
  finder, which only reads, what it chooses of each vehicle is a latest one, by
  induction over the dates of a finite portfolio (well-founded, since a date is a number).
* `InsurerProofs`. `InsurerInv` is six invariants; a step of one part leaves the
  variables of the others (`PartsStep`). Tokens (`CallersFit`): whoever asks is the
  caller in flight. Catalog: the login is that of the one quote that logs in, and a
  quote's `listed` and `origin` are what the pages and answers told. Portfolio: of the
  months before the stamp, what is not written is in the run's list or was dropped.
  Incidents: memory and rows differ only between the two statements of a report;
  what an explanation will store was asked of the failure it read. Errors: each
  mail belongs to the report that won its conditional update, so counts add up to one
  plus those in course; reminders are spaced by the division of the time since the
  outage. Claims: the claims that miss a report are as many as the failures at most
  (`Untold`, a cardinality argument); two photos on their way to a claim know of
  each other, so a photo dropped by a merge was on its way with another, or gave way
  to newer ones (`PhotosRead`, `PhotosKept`, and `MergedIs` on what a merge keeps).
* `OfficeProofs`. `OfficeInv` is five invariants; a step of one part leaves the others'
  variables (`OfficeSteps`). Sessions (`SessionInv`): between the first message after a
  silence and its storing (`Opening`) nobody is answered or linked, and each message
  read in between starts the session again or finds it kept alive by the office, so
  whoever is answered later has what was made since; a message that was read leaves
  a code its number serves, unless the chat drifted; what the poll read of a chat
  nobody stirred is still so, and a chat that was told goodbye is marked as warned.
  Lines (`ConnectionsInv`): an id is of one phone and of one row; the row a signup found
  is the only one with the phone's id, and the chats move with it; what a check read
  of an account is current, or the account is in its `stale`; a webhook nothing
  overtook is of an account with a number away. Requests (`QuoteInv`): a submission
  that found a live matter, or none, keeps its promise until it records. Closes: a close
  past its check has no rows of the month before it, or is forced, and what it will write
  was read on the 1st under a plan of then, or of the end of the month (`TimelyRow`).
  Balance: the month's end is still to be read on the 1st, or in the list of the snapshot
  under way, or done; a count that is not marked as rebuilt is one of the days of grace.
* `PanelProofs`. `PanelInv` is eight invariants over the six modules of `MCPanel`, which
  share no variable (`StepOfParts`); `PanelAlwaysHolds` is the property the run checks,
  and the other theorems name its parts. Cards (`CardsInv`, `CardsAlwaysFit`): while
  nobody edits beside them, cards come one after another, each undoing the one before
  (`InTurn`), and what a card shows still stands on the values it was proposed over
  (`Stands`); a card of two services that is halfway has written what is not left to
  write (`HalfDone`). So a confirmation does what the card shows, to the fields it
  names, and the way back restores what was there. Chat (`ChatInv`, `AnswersAlwaysFit`):
  the process remembers of an hour exactly the questions it admitted in it
  (`LimitFits`); a card is of one answer, and a turn that has not been admitted has
  none; while turns do not overlap, one that adds a question found that it does not
  repeat the last (`OneTurn`). Access (`AccessInv`): for each open request, what it may
  still write, which is codes of the office it writes for; and what a list has read of
  its user's scope is still so while no other request ran. Holidays (`HolidayInv`): what
  a sync will create was not loaded, unless another ran beside it. Hours (`HoursWell`,
  `HoursAlwaysFit`): stored days are ranges sorted by their beginning, so the next opening
  the bot tells is the earliest one (the smallest index is the smallest hour). From nine
  at night the closures it reads are those of tomorrow on, so both statements leave out
  the numbers all of whose closures of the day end in it (`Forgotten`, section 4).
  Catalog (`CatalogInv`): while requests do not cross, what one found of the plans still
  holds when it writes. Coverages (`CoverInv`): an editor's first save of a code is
  alone with it, unless two met.

What only TLC checks, and why:

* `TakeoverEnds`, `SendingEnds`, `AccessRecovers`, `AccountsServed`, `DropIsNoticed` and
  `NextReportPauses` are liveness under fairness, which the installed provers do not do.
* `SweepUndoesNothing` is refuted (section 4).

Every safety invariant and every action property of the passing runs is a theorem, `[]` over
the specification the run checks or over that of its part.

The invariants behind the theorems were checked by TLC on the instances of the runs
before they were proved; where one failed, it was the invariant that was too weak,
or the model that was wrong (`NumberConnections`, section 4).

## 6. Left out

Within the modelled parts: which client a row of an Excel belongs to and which number
writes to it; texts of messages; assignment of chats to staff; deletion of chats;
reads and counters of the panel; prices, the OpenAI budget, the column `billedUsd`
(written by reports, computed again by every reader); permission checks, which
refuse before any change; changes of the assistant that create rows (the same
claim protects them, and they are not undone); the order of coverages and the catalog
of motorcycles; files and documents. Not modelled at all: clients and policies as
rows, tasks, improvements and the team's board, the dashboard, the activity log,
public pages, mail and logos: single-row edits behind permission checks, or
reading and writing outside. The bot, Meta, Triunfo, InfoAuto and OpenAI appear by
what they may answer.

## 7. Plan

The parts of section 1 that are modelled have their properties checked and, but for liveness,
proved. What would come next, in this order:

1. Clients and policies as rows: the Excel's load against the portfolio's sync, which write
   the same policies, with `PortfolioSync` as the one side.
2. The removal of a person (`DELETE` of an account) beside the token they still hold, and
   the assignment of a chat to them (`Handover`, `OfficeAccess`).
3. The two codes of a reconnection and the second master code, listed at the end of section 4.
