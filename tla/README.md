# Formal model of Spottex

Spottex is a web application (Next.js, Prisma, PostgreSQL) that connects
households' solar plants, reads and analyses their data, sells services around
them and switches the optimization of their inverters on and off through a
vendor's API. This directory holds TLA+ modules of the parts of it that keep
state, the TLC runs that check them and TLAPS proofs of every safety invariant the runs
check.

Unless a full path is given, files are under `src/src/lib/`. `PROJECT.json` maps
every definition to the lines it models, and lists the hazards the properties are
for.

- [Inventory](#inventory) and [how the parts interact](#how-the-parts-interact)
- [How the modules are built](#how-the-modules-are-built)
- the modules, by part: [inverter commands](#inverter-commands),
  [payments](#payments), [services](#services), [consultations](#consultations),
  [analyses](#analyses), [prices](#prices), [plants and screens](#plants-and-screens)
- [Runs and bounds](#runs-and-bounds), [fairness](#fairness)
- [Proofs](#proofs)
- [Findings](#findings), [known behaviours](#known-behaviours)
- [Not modelled](#not-modelled), [what could come next](#what-could-come-next)

## Inventory

| Component | State it keeps | What is hard | Module | |
|---|---|---|---|---|
| Inverter commands and durable safety OFF (`energy/service.ts`, `energy/deactivation-jobs.ts`) | `InverterCommand`, deactivation `ScheduledJob`s, `EnergySite.optimizationOn`, a lock per inverter, the inverter itself | unknown outcomes, retries, crashes between the phases, entitlement lost meanwhile | `InverterControl`, `ControlPromise` | modelled |
| Entitlement (`commerce/entitlement.ts`, cancel, expiry, refund, disable) | `Subscription`, `User.status` | the lapse comes before the loss is noticed | `InverterControl` | partly |
| Checkout and payments (`commerce/payment.ts`) | `Cart`, `Payment`, `ServiceOffer`, `Subscription` | duplicated and late notifications, two payments of one thing | `Payments` | partly |
| Recurring payments (`commerce/recurring.ts`) | mandates, renewals, attempts | a charge whose outcome is unknown | `Payments` | partly |
| Job runner (`app/api/internal/jobs/run/route.ts`) | a lease row | a lease taken over from a live holder, stages that throw | `JobRunner` | modelled |
| Email outbox (`email.ts`) | `EmailOutbox` rows | delivery before the mark, stale rows, the attempt limit | `EmailOutbox` | modelled |
| Rate limiting (`security/rate-limit.ts`) | a counter per key and window | the end of a window, requests that waited | `RateLimit` | modelled |
| Accounts and sessions (`auth.ts`, the routes of `auth/` and `admin/users`) | `User`, tokens, cookies | what was read before an await and is used after it | `Accounts` | modelled |
| Key agent (`src/scripts/solax-key-agent/`) | the files of its locators, a flag | extractions that overlap, a crash between two files | `KeyAgent` | modelled |
| Consultation booking (`consultation/`) | slots, bookings, holds, reminders | holds that lapse, stale reads of the administrator | `Consultation`, `ConsultationData` | modelled |
| Calendar synchronisation (`consultation/calendar-sync.ts`) | calendar jobs, the grant, Google's events | answers lost at Google, disconnecting meanwhile | `CalendarSync` | modelled |
| Energy analysis queue (`analysis/service.ts`) | runs, scenarios, results, jobs with an owner | leases lost, inputs that change, two phases of a request | `AnalysisQueue` | partly |
| History import (`energy/history-import.ts`) | imports, chunks, jobs | two rows that only go back together, empty answers | `HistoryImport` | modelled |
| Technical profile and price curves (`energy/technical-profile.ts`, `pricing/materialize.ts`, `pricing/hdo-calendar.ts`) | the profile, its confirmations, the curves, HDO calendars | curves made from values that have changed since | `SitePrices` | partly |
| Invoices (`energy/invoice-*.ts`, `scripts/invoice-agent/`) | the request, documents, extractions | one status for many documents, a parser paid per call | `Invoices` | modelled |
| Tariff catalog (`pricing/catalog-admin.ts`, `costs/catalog-sync.ts`) | versions, source documents | overlaps in time, a sync that stops in the middle | `Catalog` | partly |
| Market prices (`pricing/market-sync.ts`) | `MarketPriceSeries` | two publishers that archive each other's rows | `MarketPrices` | modelled |
| Energy account and onboarding (`energy/legacy-client.ts`, `energy/service.ts`, `api/app/energy/connect`) | the rotating token pair, the owner of a plant, the page's dialog | who stores which pair when, two steps that fail apart | `LegacyAccount`, `Onboarding` | modelled |
| Telemetry and data quality (`energy/service.ts`, `interval-write.ts`, `data-quality.ts`) | the order of reading, intervals, a cache of promises per process | starvation, summaries older than a write | `Telemetry` | partly |
| Simulation of savings (`simulation/service.ts`) | jobs, their result and mail | two runners on one job | `Simulation` | modelled |
| Screens (`components/…Workspace.tsx`, `EnergyDashboard.tsx`) | forms, timers, requests in flight | answers that come late or out of order | `Screens` | partly |
| Dispatch optimisation and economics | none | numeric | | not modelled |
| Control audit (`admin/control-audit.ts`) | none of its own | | | not modelled |
| Content, consent, analytics | single rows | | | not modelled |

### How the parts interact

Routes, the job runner and two stand-alone workers (analyses, invoices) call the
libraries; the libraries share state only through PostgreSQL rows. What protects
a row is a conditional update (`updateMany` with the expected status), an advisory
lock, a unique key or nothing at all, and which of them it is decides the shape of
the actions here. The runner is called by a timer and may overlap with routes that
process the job they have just enqueued.

- A paid, expired, canceled or refunded subscription changes who may control an
  inverter, and writes the job that switches it off (`Payments`, `JobRunner` and
  `InverterControl` meet at the `Subscription` row).
- A confirmed booking writes a calendar job and a reminder, which is a row of the
  outbox: `Consultation` extends `CalendarSync`, which extends `ConsultationData`,
  which extends `EmailOutbox`, and they are checked together.
- A connected plant imports its history; stored chunks supersede the analyses and
  a finished import asks for one: `HistoryImport` keeps `analysis` for that, and
  `AnalysisQueue` sees the new data as a change of the inputs.
- An analysis first materializes price curves from the technical profile, the
  catalog and the market: `SitePrices` has the askers of `AnalysisQueue`, and
  `Invoices` extends `SitePrices` because confirmed documents write the profile.
- Readings, imports, the dashboard and commands all use one rotating token pair:
  `LegacyAccount` has each kind of client.

## How the modules are built

A transaction of the code is one action, and what happens between an await and
the next one is another. What a process has read and still will use is kept in a
record of that process (`call`, `worker`, `asker`, `review`, ...) with a program
counter `pc`; a step that uses it looks at the row again only where the code does.
Errors, deaths and lost answers are actions of their own with a common bound
(`faults`, `events`, `deaths`, ...). Time is left out unless it is the subject
(`RateLimit`): what passes, passes at any moment.

Modules that share no variable are checked in one run by an `MC` module that
extends them, with a constant set `Scenes` and a variable `scene` that is chosen in
the initial state and never changes: a behaviour plays one scene, the variables of
the other modules rest. A scene also narrows a module to the part of it a question
needs, where all of it at once is out of reach. `MCPayments` only adds the symmetry.

`…TypeOK` is the type invariant of a module. It has no run of its own: it is the
first conjunct of one of the module's properties (as `[]…TypeOK` in a temporal one).

## Inverter commands

`InverterControl`: one user, one site, `N` inverters handled in the order of their
ids.

| Variable | Stands for |
|---|---|
| `subs`, `userActive` | the INVERTER_CONTROL subscriptions (`LAPSED`: still `ACTIVE` in the database, `endsAt` passed) and `User.status` |
| `jobs` | the `INVERTER_DEACTIVATION` `ScheduledJob` of each loss event, with owner and attempts |
| `cmds` | per inverter its `InverterCommand` rows in the order of `requestedAt` |
| `physical` | what the vendor really does |
| `optimizationOn`, `requiredInfo` | the flags of `EnergySite` |
| `call` | per process the `issueInverterCommand` call it is in, with a program counter |
| `sweep`, `site`, `work` | the caller's own loop: `deactivateInverterControl`, `issueSiteControlCommand`, `processInverterDeactivationJobs` |
| `faults` | adverse events so far, at most `MaxFaults` |

A call goes through `Precheck` (reads without a lock), `Phase1` (the intent is
committed under the lock), `Phase2Begin` (guards under the lock, which is then
kept), `Vendor`, `Acknowledge`. `OutcomeLost`, `Phase2Error`,
`ConnectionUnusable` and `Phase1Error` are its failures, `RecordUnknownOutcome`
and `RecordExecutionFailure` the two branches of its catch block. `Crash` takes
any process at any point, rolls its transaction back and frees its lock.
`Sweep*` is the loop of `deactivateInverterControl` with its two tries, `Job*`
the processor of jobs, `Site*` and `Rollback` the command for a whole site,
`Reconcile*` the reconciler, and the actions under *Entitlement* the events that
grant and take it. Each transaction of the code is one action; a vendor call and
the commit after it are separate actions.

Abstractions, each of which should be known to a reader of the results:

- A vendor call that the client gave up on takes effect before the lock is
  released, or never. The code relies on this and cannot check it.
- Nothing but commands changes an inverter (no drift, no manual switching).
- Time is left out: a lapse, the ten minutes of a stale claim (for a live worker
  a fault) and a lock timeout (a fault) happen at any moment, the five-minute
  bucket of safety keys is always the same one (the worst case for reuse), and
  the ten-second cool-down refuses a turnon whenever the inverter has an earlier
  command or not (nondeterministically).
- The order of `requestedAt` is the order of creation, which the lock gives.
- The three reads of `readSafetyConvergence` are one step with the heartbeat
  that follows.
- Commands of type `sync`, audit logs, tokens, several sites and the removal of
  an inverter are left out.

`ControlPromise` is what the whole promises, with three variables: whether the
user is subscribed, which inverters run, and which still owe a switch-off. An
inverter starts only for a subscriber, a loss owes a switch-off of every inverter
that runs, and the debt is paid by switching off or by a subscription.
`InverterControl` implements it with `running` as the inverters that are not `Off`
and `owed` as those with a live job that has not confirmed them.

Properties:

- `IInv`: the inductive invariant of the proofs. Besides the types it says that
  what an acknowledgement states is physically true (`CallInv`, `HeldInv`,
  `Mutex`), and that an inverter that is not off has a subscriber or a live job
  (`Cover`).
- `SafeOff`: with no subscription and no live job, no inverter runs and none is
  about to be started. `NoStaleTurnon`: nor does any unresolved turnon wait for
  the reconciler, which could carry it out when the user is entitled again.
- `LossStopsInverters`: a lost entitlement ends with the inverters off.
- `PromiseSpec`: the refinement.
- `PartialOnCompensated`: a comment of the code that does not hold (finding 1).
- `SettledIsFinal` and `AcknowledgedIsPhysical` follow from `IInv` and are proved
  (`Finality`, `Truth`), so no run repeats them.

The safety OFF is defended in depth: removing a single one of the guard of phase
2, the cancellation of superseded commands or the entitlement check of phase 1
breaks another property or none, but not `SafeOff`; what it stands on is the lock,
the atomic enqueueing and the count of failed targets.

## Payments

One customer; carts, payments and the rows that hang on a payment. Files are
under `commerce/`.

| Variable | Stands for |
|---|---|
| `cart` | `Cart`: its status, the one item in it and whether that is the free period |
| `pay` | `Payment`: status, whether the gateway's id is stored (`linked`), what it is for (`kind`), its cart, the renewal it is an attempt at (`renews`) and its mandate |
| `offer` | `ServiceOffer`: open, accepted, or past its validity |
| `sub` | the `Subscription` a payment bought |
| `mandate` | the `RecurringMandate` a first payment founded (`LAPSED`: still `ACTIVE` in the database, `validUntil` passed) |
| `renewal` | the `RecurringRenewal` of the subscription a payment bought, with its attempts |
| `gw` | GoPay's own payment (external): what really happened to the money |
| `call` | per process where it is in its call, which payment it works on and what it read |
| `faults` | failed updates so far, at most `MaxFaults` |

The actions follow the code transaction by transaction, and each call of GoPay
is a step of its own:

| Actions | Code |
|---|---|
| `GetOrCreateCart`, `OrderOffer`, `AddProduct`, `RemoveProduct` | the cart routes, `prepareServiceOfferOrder` |
| `CreateCheckout`, `FinishManual`, `OrderRefused`, `ReopenCart`, `OrderCreated`, `StoreId` | `createCheckout` with its catch blocks |
| `Notify`, `Recover`, `Ask`, `Link`, `Settle*` | `reconcileGopayPayment`, called by the notification route and by the recovery stage of the runner; `SettlePaid` is `finalizePaidPayment`, `SettleCanceled` `cancelTerminalGopayPayment`, `SettleRefunded` `recordGopayRefund` |
| `FindRenewal`, `Schedule`, `SendNotice`, `PrepareAttempt`, `GiveUp`, `Charge*`, `LinkCharge*`, `ReadFailed`, `FailAttempt` | `recurring.ts`: scheduling, notices, `prepareAttempt`, `createProviderRecurrence`, `failAttempt` |
| `RevokeMandate`, `MandateLapses`, `CancelSubscription`, `OfferLapses`, `GatewayMoves`, `Abort` | the customer, time, the gateway, and a call that ends early |

A lost answer of GoPay is `Return` in `AskGateway`: the gateway has its payment
and the call is over. `Abort` ends any call at any point and keeps what it
committed, which is a crash, an exception nobody handles and a time-out at once.

Abstractions:

- Time is left out: due dates, notice periods, retry delays, the validity of an
  offer and of a mandate pass at any moment. The demand for a fresh analysis
  before a renewal only delays it and is part of that.
- `TIMEOUTED` is settled like `CANCELED` and `PARTIALLY_REFUNDED` like `PAID`, so
  they are not states of their own. The gateway never goes back from a state.
- Orders that need no gateway because access is free are the kind `FREE`.
- An uncertain answer whose own bookkeeping fails behaves as `LinkChargeFails`
  or `ChargeRefused` do and is not a third branch.
- Amounts, invoices, mails, audit rows, the development mock of the gateway,
  purchases of analysis runs and several customers are left out. The job that
  switches inverters off with a refund, and the end of a subscription's period,
  belong to `InverterControl`.

Properties:

- `ServiceIsFunded`: an active service was paid for, with money at the gateway
  unless no money was asked; a payment is canceled only when the gateway's is,
  and failed only when the gateway has none.
- `SoldOnce`: one service per offer and one trial per customer, also when two
  carts with it are paid at the same time.
- `ChargedOnceIfStored`, `RenewalIsTrue`: two attempts at a renewal never both
  hold money, and the status of a renewal agrees with its attempts, as long as
  no update fails. `faults = 0` in them marks what a failed update breaks: after
  `LinkChargeFails` the code believes that a charge failed which GoPay accepted.
- `ChargedOnce`: the same without that condition; it does not hold (finding 2).
- `CheckoutIsFrozen` (what is being paid can be neither edited nor paid twice),
  `OneOpenCart` and `PaymentIsFinal` (late and repeated answers change nothing that
  is settled) are proved (`Frozen`, `OneOpen`, `Finality`).

## Services

`MCServices` plays what every part leans on: the outbox, the runner, one rate
limit, the agent that reads keys from the portal, and the accounts twice (`passwords`:
registration, verification, logins and the recovery of passwords; `access`: the
administrators, where nobody types a wrong password).

**`EmailOutbox`** (`email.ts`, `retention.ts`). `outbox` has a row per idempotency
key, `mailer` what each run of `processEmailOutbox` holds, `deliveries` how often the
present row has reached its recipient. `QueueEmail` is an upsert with an empty
update; `RecoverMail` takes back stale rows; `MailSelect`, `MailClaim`,
`DeliverEmail`, `MarkSent` and `MarkFailed` are the loop, in which only the claim is
guarded; `PurgeMail` is the retention. A provider may take a message and its answer
be lost, a run may die, and (a fault) a delivery may outlast the ten minutes. The
catch block decides by the attempts the run has read, so a message may be tried more
than `MaxDeliveries` times when runs are overtaken; no property says otherwise.
`DeliveriesExplained`: what is marked as sent was delivered, and each further copy
is explained by one such fault. `MailSettles`: what waits is sent, given up or
canceled in the end.

**`JobRunner`** (`app/api/internal/jobs/run/route.ts`). `lease` is the row,
`runner` each call with its stage, `subs`, `switchOff` and `told` what the expiry
stage has done, `failures` and `alerted` what the alert at the end is about. Of the
stages the model keeps what outlives a cycle; the others are one `Work` stage each
side of the expiry. `OneCycle`: two cycles run at once only where one of them was
stuck for fifty minutes, and it frees nobody else's lease. A renewal that is paid buys
a subscription of its own, so the one that has ended is spared only while the charge is
under way (`Settle` ends that). `CanceledIsKept`: a subscription that its customer, an
administrator or a refund cancels (`Cancel`) between the search of a cycle and its
transaction or its mails is neither expired nor written to, overtaken cycles included.
`LapsedIsSwitchedOff`: whatever throws, dies or hangs, a lapsed subscription ends with
the job that switches its inverters off.

**`RateLimit`** (`security/rate-limit.ts`). The one module with a clock. A request
notes the time (`Ask`), waits for the advisory lock at most `MaxDelay` (after which
Prisma gives the transaction up) and counts itself by the noted time (`Consume`);
`PurgeBuckets` deletes buckets that are over. `admitted` counts, for each instant, the
requests made then or later that were let through. `BurstBounded`: within a window's
length less twice `MaxDelay`, wherever it lies, at most twice the limit is let through.
A request that waited counts itself in the window before, and after a purge it opens a
window that began before it was heard: this is what the span is shortened for, and the
bound is exact up to two instants (with a span of `Window - 2 * MaxDelay + 3` TLC finds
three windows' worth of requests).

**`Accounts`** (`auth.ts`, `auth/guards.ts`, `app/api/auth/`, `app/api/admin/users/`).
`users`, `links` (verification and recovery tokens), `sessions` (cookies, or logins
that are comparing a password), `recovery` and `changes` (requests past their first
read). `SomeAdminRemains`: however administrators take away each other's access, one
remains. `SessionKnowsPassword`: an accepted session was opened with the password
the account has now.

**`KeyAgent`** (`src/scripts/solax-key-agent/`). A server that admits one extraction at a
time: log in, run the current locator, and when it fails log in again, explore, have a
locator written and try it, a few times; the one that found the key is promoted.
`current` and `next` are files with what was written last and who has them open, so a
crash or a second writer leaves what it would leave. `portal` is the layout of the
portal, which moves; a locator finds the key of one layout. `overlapped` says that two
extractions have been under way at one time, which `server.mjs` does not prevent (finding
16). `LocatorIsKept`: as long as that has not happened, the current locator is one that has
found the key in a session, and whole, and every one it replaced is in the history.

## Consultations

`ConsultationData` declares the state, `CalendarSync` the calendar jobs and the
connection to Google, `Consultation` the routes of guests and of the host, the
reminders and the whole. One host, slots that do not overlap.

| Variable | Stands for |
|---|---|
| `slots`, `bookings` | `ConsultationSlot` and `ConsultationBooking` rows |
| `phase` | how far away a slot is: more than two hours, less, or over |
| `calJobs`, `workers` | `ScheduledJob` rows of the calendar, and what each `processConsultationCalendarJobs` holds |
| `events`, `valid` | Google (external): the events, the grants it still honours |
| `host`, `oauth`, `ending` | `ConsultationHostCalendar`, issued OAuth states, disconnect requests |
| `removing` | what the administrator's removal of a slot has read before its transaction |
| `outbox`, `mailer` | the reminders, rows of `EmailOutbox` with the key booking and slot |

A route decides in a transaction that checks again what was read before it, so a
route is one step; the removal of a slot is two (`RemoveRead`, `RemoveSlot`). A
calendar job runs in a transaction that holds the row of its booking; claim, body
and mark are three steps, and the mark only looks whether the job is RUNNING.

Properties: `NoDoubleBooking`; `SlotsAccounted` (bookings and slots agree, with the
one exception the code allows: a slot canceled by an administrator who had read it
before it was taken); `EventsAccounted` (an event at Google belongs to the present
revision of a standing booking, or a job is left to delete it, also when the answer
to its creation was lost); `DisconnectLosesNoDelete` (Google is forgotten only when
no deletion is left); `PendingReminderIsTrue` (a reminder nobody has tried yet
announces a booking that stands, at its slot).

`MCConsultation` plays `guests` (two guests, two slots, the administrator),
`reminders` (one guest who moves, one sender), `calendar` (one guest, one worker, a
fault, one disconnection) and `connection` (two disconnect requests, two grants).

Abstractions: mails other than reminders are queued once and left out; which slots
the host offers (the generator and the calendars that mask it) is any set of slots;
a create that Google executes only after the transaction of its job has timed out
is left out.

## Analyses

**`AnalysisQueue`** (`analysis/service.ts`, `analysis/invalidation.ts`,
`analysis/pro-checkout.ts`, `src/src/scripts/analysis-worker.ts`).

| Variable | Stands for |
|---|---|
| `inputs` | the version of the measurements, the profile and the prices of the site |
| `run`, `scenario`, `result` | the run of each fingerprint (kind and inputs), its scenarios, those with a persisted result |
| `job` | the `ScheduledJob`s of preparations and of runs: status, attempts, owner, staleness |
| `asker` | what each caller of `enqueueAnalysis` has read |
| `worker` | what each worker holds: its step, job, scenarios left, whether a signal has come |
| `paid`, `offers`, `mailed` | what a run has led to |

A request (`QueuePreparation`, or a direct call) reads the inputs, looks for an
existing run and writes one; a worker recovers stale jobs, claims, starts, computes
scenario by scenario with a heartbeat between, enriches, completes, offers, mails
and succeeds. `SupersedeSiteAnalyses`, `CancelQueuedAnalysis` and `PayDraft` come
from outside; `ScenarioFails`, `BudgetExceeded`, `Signal` (with `HandBack` and
`Exit`), `WorkerDies` and `LockAges` are what goes wrong.

`NotComputedTwice`: a scenario with a persisted result is not computed again after
any interruption. `AnalysisSettles`: every queued or running run ends.

**`HistoryImport`** (`energy/history-import.ts`). `import`, `chunk` and `chunkJob` are
the rows, `importer` what the runner holds, `closed` says that the cloud has nothing
more, `analysis` whether the site's BASE analysis is queued or superseded. `MarkChunk`
follows `ClaimChunkJob`, `Fetch` may bring nothing, `StoreChunk` is one transaction,
`WriteVerdict` is `refreshRun`; `RefreshIfSparse`, `RequeueSparse` and
`RetryHistoryImport` import again. `ImportSettles`: every import ends.
`HistoryIsAnalysed`: data that supersede the analysis lead to a new one, in whatever
order the chunks of the inverters end.

`MCAnalysis` plays `requests` (from the web, as preparations), `direct` (calls of
`enqueueAnalysis` by an import, a profile or a renewal), `history` (one request, faults
but no death), and `again` (a second request after one that brought nothing, with deaths
and one fault fewer). The inverters are interchangeable, so the first fault befalls a
chunk of the same one.

Abstractions: what a scenario computes; an INELIGIBLE scenario counts as completed;
the view of the workspace; one analysis worker and one history runner, as deployed;
intervals and the time of the last view.

## Prices

What the prices of an analysis stand on: the profile, invoices, the catalog and the
market. `MCPrices` plays `prices` (two askers, a writer), `calendars` (one asker, the
imports of exact HDO calendars, the defaults), `profile` (confirmations), `invoices`,
`reviews` and `costs` (the catalog under review and synchronized), and `market`.

**`SitePrices`** (`energy/technical-profile.ts`, `pricing/materialize.ts`,
`pricing/hdo-calendar.ts`). `profile` is one number for all values (0 while they are
incomplete), `curve` has the status of the curve of each fingerprint: what it prices
and the calendar it was made with. An asker fills in defaults, reads the profile,
then finds, revives or creates the curve of the current tariff, of the standard and
of the catalog, and selects; a save supersedes curves and voids confirmations; the
cloud fills what is missing; a turnon sends the values to the backend.
`CurrentIsPriced`: once the current values have been looked up their curve is in
service, unless values or calendar change meanwhile or the lookup fails.

**`Invoices`** (`energy/invoice-*.ts`, `src/src/scripts/invoice-agent/`) extends it,
because a confirmation or a review writes the profile. One request, up to `MaxDocuments`
documents; uploads read the request before they take its lock; the coordinator claims,
hands the document to the isolated parser (`parsing` is the flag of its server, which
takes one at a time), persists or marks; the script of an operator (`ExportNext`,
`ImportDraftByHand`, `MarkFailedByHand`) does the same without the server and leaves no
marker of a failure; retention deletes, and a deleted content may be uploaded again.
`EveryDocumentIsRead`: every document gets its turn. `ParsesExplained`: the paid parser is
called again only after a death of the coordinator or work by hand. In the scene
`invoices` one document (`OneDoc`) stands for those that the script and the retention touch.

**`Catalog`** (`pricing/catalog-admin.ts`, `costs/catalog-sync.ts`,
`src/src/scripts/catalog-agent/import-candidates.ts`). A version is an item and the
day it starts. `FindOverlaps` reads what `PublishVersion` then closes; `SyncStep` copies
the snapshot of Costs item by item and may stop anywhere, and what it has written
counts as recent activity; an item that passes the check of its fields but cannot be
stored ends every synchronization (`StoringThrows`, finding 20). `VersionsDoNotOverlap`
holds for several administrators: only what Costs or an overtaken publication wrote
(`raced`, finding 13) may overlap. `SnapshotReachesCatalog` excepts only withdrawals and
items that cannot be stored.

**`MarketPrices`** (`pricing/market-sync.ts`, `market-series-plan.ts`,
`backend-market-source.ts`). A series is a row with its source and days; each of the
two publishers extends the published series, or archives it and creates its own, or
puts an archived one with the same content back. `MarketCatchesUp`: analyses get to
see every price the backend knows.

Abstractions: prices themselves, curves of the own supplier on other rates, the
dependence of catalog curves on anything but the calendar; funding programs and the
rules of validation; what is read from a document.

## Plants and screens

`MCPlants` plays a plant from its connection to the pages that show it.

**`LegacyAccount`** (`energy/legacy-client.ts` and its callers). `stored` is the pair
of the connection, `accepted` and `fresh` what the backend accepts. Each kind of
client reads the pair, sends its requests, refreshes once after a 401 and stores the
pair in its own way. `PairIsKept`: the refresh token the backend accepts is stored, or
in the hands of a client at work or of the connection being made. The ghost `lost` has
what the code gives up (`GivenUp`, finding 14): the pair a client other than the import has
rotated when it fails, a pair such a client writes over without having seen it, and what
an import has rotated from a pair that was written over. Nothing else may be lost, and
each of the three is needed. The scenes (`Accounts` in `MCPlants`): `clients` (the
dashboard and commands, every request answered), `orders` (imports and commands), `others`
(market, profile, sync) and `reads` (the dashboard and imports) with one request
unanswered, `failures` (the dashboard and the first import of a plant) with two, and
`reconnect` (an import, another client and a connection). At most four pairs are issued in
`reconnect`, three in `clients` and `reads`, two in the others.

**`Telemetry`**. Rounds (`energy/service.ts`): a job reads the `Limit` plants read
longest ago, and a plant keeps its place when its reading fails. `EveryPlantIsRead`
holds while fewer plants are down than a round takes. Data (`energy/service.ts`,
`data-quality.ts`): transactions write intervals; each process caches the promise of a
summary and forgets it after its own writes.
`QualityIsFresh`: a request that begins after a write of its own process never gets a
summary from before. Scenes `rounds`, `quality`.

**`Simulation`** (`simulation/service.ts`). Jobs with an owner, two runners, one of
which may be overtaken. `SimulationSettles`: each job ends, once and for all, and a
message is only sent for one that has a result.

**`Onboarding`** (`EnergyDashboard.tsx`, `app/api/app/energy/connect/route.ts`,
`connectLegacyEnergyAccount`). The dialog of each user, the request in the route, the
backend's handle and registration, the owner of the plant. `OnboardingEnds`: whoever
goes on ends as the owner of the plant or is refused for good, through reloads, expired
handles and lost answers, and a plant keeps its owner. One user is told of a success
without being the owner, the ghost `beaten`: whoever found the plant free and wrote after
another one had taken it (finding 15). The two users are interchangeable, so the first
failure befalls the same one.

**`Screens`**. The form that saves itself (`TechnicalProfileWorkspace.tsx`):
`SavedIsLatest`, the check mark is about what is in the form; a save may be answered,
refused, or lost. The pages that poll (`AnalysisWorkspace.tsx`, `EnergyDashboard.tsx`,
`SimulationWorkspace.tsx`, `InvoiceProcessingPanel.tsx`): `PagesAreTrue` says that the
workspace of the analyses shows the plant of the address, and `PageCatchesUp` that the
dashboard, and any page while it shows something pending, ends up with what the server
has, however late answers come. A late answer may take a new job from the page, which
then asks no more (finding 18).

Abstractions: contents of requests, values and how they are mapped, coverage of
devices, the rows of intervals with their evidence and corrections, dialogs and charts; a process killed between a
refresh and the store of the pair (nothing can keep it then).

## Runs and bounds

| Run | Module | Instance | Shows |
|---|---|---|---|
| `control` | `MCInverterControl` | 1 inverter, user, worker, 1 fault; scenes `requests` (an ON and an OFF request, reconciler) and `losses` (expiry or cancellation, refund, disabling, one ON request) | `IInv`, `NoStaleTurnon`, `PromiseSpec` |
| `sites` | `MCSites` | 2 inverters, ON request, 1 fault; scenes `inverters` (one worker) and `workers` (two workers, the fault takes the job from a live one) | `SafeOff`, `LossStopsInverters` |
| `payments` | `MCPayments` | 2 carts, 2 payments, 1 offer, free access possible, a shopper, the runner, a notifier, 1 fault | `ServiceIsFunded`, `SoldOnce` |
| `renewals` | `MCPayments` | a served customer, 2 further payments, 2 attempts, runner, notifier, no fault | `ChargedOnceIfStored`, `RenewalIsTrue` |
| `consultation` | `MCConsultation` | 2 bookings, 2 slots, 3 revisions, 1 worker, 1 sender, 1 fault, 2 disconnects, 2 grants | `NoDoubleBooking`, `SlotsAccounted`, `EventsAccounted`, `PendingReminderIsTrue`, `DisconnectLosesNoDelete` |
| `services` | `MCServices` | 2 senders, 2 faults; 2 runner calls, 2 faults; 6 requests, limit 2, window 4, delay 1; 2 administrators, 2 links, 1 cookie, 2 changes; 2 extractions, 1 attempt of a discovery, 1 move of the portal, 1 crash | `DeliveriesExplained`, `MailSettles`; `OneCycle`, `CanceledIsKept`, `LapsedIsSwitchedOff`; `BurstBounded`; `SomeAdminRemains`, `SessionKnowsPassword`; `LocatorIsKept` |
| `analysis` | `MCAnalysis` | 2 versions of the inputs, 2 scenarios, 1 worker, 3 events; 2 inverters, 2 chunks, 2 requests, 2 tries, 2 faults | `NotComputedTwice`, `AnalysisSettles`; `ImportSettles`, `HistoryIsAnalysed` |
| `prices` | `MCPrices` | 2 askers, 1 writer, 2 values, 1 calendar, 4 changes; 3 documents of which 2 fit, 1 death, 1 work by hand; 2 items, 2 administrators, 3 days, 8 reviews, 2 snapshots; 4 series, 3 days, 1 outage | `CurrentIsPriced`; `ParsesExplained`, `EveryDocumentIsRead`; `VersionsDoNotOverlap`, `SnapshotReachesCatalog`; `MarketCatchesUp` |
| `plants` | `MCPlants` | 2 clients, 2 to 4 tokens, up to 2 unanswered requests, 1 connection; 3 plants, rounds of 2, 1 down; 2 servers, 2 writes, 2 summaries; 2 jobs, 2 runners; 2 users; 2 edits, 3 saves; 2 plants, 2 requests in flight | `PairIsKept`; `EveryPlantIsRead`, `QualityIsFresh`; `SimulationSettles`; `OnboardingEnds`; `SavedIsLatest`, `PagesAreTrue` |
| `partial_on`, `double_charge`, `lost_chunk` | `InverterControl`, `Payments`, `HistoryImport` | the smallest instances that show them | findings 1, 2, 3 |

Why the bounds are enough. In `InverterControl` and `Payments` the faults are the
only bound that cuts behaviours (the others are rows and processes): one fault takes
every failure branch, and retries, recoveries and sweeps then go on without a limit;
the theorems hold for every value. Two inverters make a first and a last target of a
sweep and a partial success; two workers make a lost claim; two payments race for one
offer, one cart or a trial and an offer; three make a first payment and two attempts,
or a renewal of a renewal. Elsewhere the number of rows is that of the smallest race
(two guests for a slot, two versions of the inputs, two documents that fit and one
that does not, two publishers, two plants a page may show), a limit is small enough
to be reached (attempts, documents, plants of a round, requests of a window), and
each kind of fault happens at every step once, and twice where the handling of a
fault may itself fail (mail, runner, import). What no run combines is the scenes of
one module, and, in one scene, more faults than its bound.

`SignalAt` leaves out the step between the claim of an analysis and its start, where
a signal does break `AnalysisSettles` (finding 8); `DiesAt` of the run `analysis`
leaves out the steps of `lost_chunk`. Symmetry is used in `payments`, `renewals` and
`consultation` over rows that are interchangeable and named by no property; none of
these runs checks liveness. Deadlock is not checked: everywhere the system rests when
nothing is asked of it and its bounded rows are used up.

## Fairness

Liveness is only claimed from what the code's own scheduling gives, action by action
in the scene that plays it:

- Steps of a process that has begun and was not killed go on (`WF` of
  `IssueInverterCommand`, `Sweep`, `SiteCommand`, `WorkerStep`, `AskerStep`, `SyncStep`,
  `PublishStep`, `Route` ...). A fault, a crash, a user, a vendor, a notification have
  no fairness.
- The timer calls the runner again and again, and a worker restarts after a death:
  `WF` of `AcquireRunnerLease`, of `JobSelect`, `RunnerStepH`, `CoordinatorStep`,
  `StartSync`, `SyncBackendMarketPrices`, `SyncConnectedEnergySites`, `Take`. Their
  queries take the oldest row first, so a row that waits is not passed over for ever:
  `SF` per key of the selection of a mail, `Take` per job of an estimate.
- Time passes: a lock that nobody holds gets old (`LockAges` of an unheld job,
  `ChunkLockAges`, `ClaimGetsOld`, `LeaseOutlives`, `JobRecover`, `RecoverDead`), an
  interval elapses (`IntervalElapses`, `IntervalPasses`), an ended period is noticed
  (`Expire`).
- A waiting transaction gets a free lock (PostgreSQL queues the waiters; one that
  waits too long is a fault).
- In `Onboarding` the user goes on: `WF` of `SubmitCredentials` and `StartOver`, `SF` of
  `SubmitSelection`, which an answer may disable and enable again. In `Screens` the
  timers of a page fire whatever is under way (`SF` of `Poll`), requests are handled
  (`SF`: one may fail, not all of them for ever) and delivered.

## Proofs

Every safety invariant of the passing runs is a theorem for all values of the constants,
and so are three of the action properties and one refinement:

| Module | Theorems (and the property each states) |
|---|---|
| `InverterControlProofs` | `Invariance` (`IInv`), `TypeCorrect`, `SafetyOff` (`SafeOff`), `NothingStale` (`NoStaleTurnon`), `Finality`, `Truth`, `Refinement` (`PromiseSpec`); `PromiseKept` in `ControlPromise` |
| `PaymentsProofs` | `Invariance`, `TypeCorrect`, `Funded` (`ServiceIsFunded`), `Frozen`, `OneOpen`, `OneSale` (`SoldOnce`), `OneCharge` (`ChargedOnceIfStored`), `TrueRenewal` (`RenewalIsTrue`), `Finality` |
| `ConsultationProofs` | `SlotsAreShared` (`NoDoubleBooking`), `SlotsAgree` (`SlotsAccounted`), `EventsAreAccounted` (`EventsAccounted`), `RemindersAreTrue` (`PendingReminderIsTrue`), `NoDeleteIsLost` (`DisconnectLosesNoDelete`) |
| `ServicesProofs` | `CyclesExclude` (`OneCycle`), `CancellationStays` (`CanceledIsKept`), `CopiesExplained` (`DeliveriesExplained`), `LocatorsAreKept` (`LocatorIsKept`), `AdminsRemain` (`SomeAdminRemains`), `SessionsKnow` (`SessionKnowsPassword`), `BurstsAreBounded` (`BurstBounded`) |
| `PlantsProofs` | `SavedIsStored` (`SavedIsLatest`), `SummariesAreFresh` (`QualityIsFresh`), `PairIsNeverLost` (`PairIsKept`) |
| `PricesProofs` | `VersionsExclude` (`VersionsDoNotOverlap`), `ParsesAreExplained` (`ParsesExplained`) |

No theorem has a hypothesis. Where the code does not keep a property without exception
(findings 13 and 14), the exception is in the property, as narrow as a ghost that the
actions of the code write can make it (`raced`, `lost`), and the theorem proves that there is no
other.

What stays with TLC: every `~>` and the properties built on it (TLAPS proves no liveness
under fairness), `NotComputedTwice` and the safety parts that are conjuncts of a liveness
property (`MeetingIsOwn` excepted, which `SlotsAgree` contains), and the three violations.
Nothing is assumed but what the modules state about their constants: that sets the code
counts are finite (`Runners`, `Mailers`, `Messages`, `Docs`, `Slots`, `Bookings`), that what stands for
nobody is nobody, that there is a first administrator, a server, an item, and that a
transaction is given up before half of a window is over.

### Inverter control

`InverterControlTypes` proves type correctness step by step,
`InverterControlProofs` the inductive invariant

    IInv == TypeOK /\ Cover /\ Mutex /\ CallInv /\ HeldInv /\ FreshInv /\ SubsInv /\ WorkInv

and from it the theorems `TypeCorrect`, `SafetyOff`, `Finality`, `Truth` and
`Refinement`, for every number of inverters, requests, users, workers,
reconcilers, events and faults. The assumptions are those `InverterControl`
states about its constants (the roles are disjoint, `N` is positive).

`SafeOff` is not inductive: it says nothing while a job is live. `Cover` is its
strengthening: at any moment every inverter is off, or its owner is subscribed,
or a live job still has to confirm it (`Owed`). An inverter ceases to be off only
in `Phase2Begin`, which saw the entitlement under the lock (`OffStep`). A
switch-off ceases to be owed only when one of the job's commands is acknowledged,
and then the inverter is off (`AckedIsOff`, by `CallInv`, `HeldInv` and `Mutex`:
the holder of the lock saw the state, nobody else reached the inverter or settled
the row), or when the worker finds the user entitled, or when the job ends, which
`WorkInv` allows only after every inverter was acknowledged (`OwedStep`). A loss
owes every inverter a switch-off because its event is new (`FreshInv`,
`SubsInv`, `LossOwes`). `ControlPromise` states the same argument as a
specification of three variables; `PromiseKept` proves its invariant and
`Refinement` that the control implements it.

`NoStaleTurnon` speaks of commands, which `Cover` does not, and needs an invariant of its
own, `StaleCover`: while the user has no subscription, every unresolved turnon has a live
job that has not confirmed its inverter and whose commands are all newer than the turnon
(`Cancels`). A turnon is only written for an entitled user (`NewRow`), so the job of a later
loss is newer; its acknowledged switch-off cancels everything before it (`AckCancels`),
and until then the job stays live. `IInv` is needed for both.

Only model-checked: `LossStopsInverters` (liveness), and the violation.

### Payments

`PaymentsProofs` proves the inductive invariant

    IInv == TypeOK /\ RowInv /\ CartInv /\ CallInv /\ OwnerInv
            /\ RenewalInv /\ BackedInv /\ OneOpenCart /\ SoldOnce

and from it `TypeCorrect`, `Funded`, `Frozen`, `OneOpen`, `OneSale`, `OneCharge`,
`TrueRenewal` and `Finality`: every passing property of the module, for every
number of payments, carts, offers, processes, attempts and faults. The
assumptions are those `Payments` states about its constants (`None` is no row,
`Product` and `Empty` are no offers, bounds are numbers).

The properties speak of rows, but the rows are only safe because of what the
running calls have read and still may write, and that is what `IInv` adds.
`CallInv` says for each program counter what its call may rely on: the gateway's
answer it carries is still true (the gateway never takes back a cancellation, a
paid payment can only be refunded), a payment about to be charged is pending and
unknown to the gateway, one that is being settled is linked. Others may write the
same row meanwhile, so it holds because nobody else acts as the maker of a payment
(`OwnerInv`) and because a bystander relies on little (`BystanderRelies`). `RowInv`
relates each payment to the gateway, its cart, its subscription and its offer,
`CartInv` gives a cart to one payment that is pending or about to give it back,
and `RenewalInv` and `BackedInv` relate a renewal to its attempts. That a late
answer cannot grant what was canceled or failed is `OnlyPendingGranted`: such a
payment is at the gateway not paid, or has no id a notification could find.

The frame lemmas (`RowFrame`, `CartFrame`, `CallTouch`, `RenewalMove` ...) say what
a step of one call leaves alone; each action has a lemma of its own, and
`NextStep` collects them. The conjuncts that say `faults = 0` say so because of
one action, `FailAttempt`: only a call that came from `LinkChargeFails` can fail
an attempt the gateway has taken.

Only model-checked: the violation. Nothing is proved or checked about the liveness of
payments: GoPay does not promise a notification, and the recovery stage is the only
thing that has to come.

### Consultations

    ConsultationInv == Sound(slots, bookings) /\ removing \in {Idle} \cup Removal
                       /\ Mirror /\ Quiet /\ Reminded

`Sound` is about the two tables as values, because a release of lapsed holds and a booking
happen in one step: its lemmas (`Released`, `Taking`, `Leaving` ...) are proved for any tables
that agree and then applied to the tables in between. It joins `NoDoubleBooking` (`Apart`) and `SlotsAccounted`,
neither of which is inductive alone: a slot is only given away when it is `OPEN`, and then
nobody stands on it. `Mirror` is what calendar jobs and workers have behind them: a deletion is
queued only for a revision that is past (so that no later step makes its event current
again), and a worker may mark only a deletion it has made. `Quiet` carries
`DisconnectLosesNoDelete`: an operation on the connection found it unused under the lock,
and while its marker stands no booking is confirmed. `Reminded` says that whatever a sender
holds has been counted as an attempt, so that a reminder with none was never touched.

### Services

- `RunnerInv`: a cycle that has not been overtaken holds the lease, which has one owner.
- `MailInv`: copies delivered, senders that may still deliver, and a row that waits for the
  next sender together make at most one and one for each fault (`Accounted`). Each step moves
  one unit between the three, or is a fault.
- `RateInv`: the bucket counts what was let through since its window began (`CountedByBucket`),
  and without a bucket the last window holds no more than one bucket's worth
  (`CountedBefore`); both are shifted by the longest wait (`WaitsAreShort`).
- `AccountsInv`: a version of an account stands for one password, so a session with the
  present version knows the present password (`Known`). That an administrator remains is
  inductive with it: the decision and the write are one transaction under a lock.
- `AgentInv`: while extractions have not overlapped, the files are open only to the one under
  way, which is where its program counter says (`Alone`, `Progress`).

### Plants

- `FormInv`: what the last save has sent is the form, unless an edit waits for its timer.
- `SummaryInv`: a promise somebody awaits, or the cache keeps, serves at least the commits it
  is there for, now or when its query comes (`Serves`).
- `AccountInv`: a pair that was rotated away is never accepted again (`Rotates`); a client that
  began with the accepted token finds it stored still, unless it was given up (`Begun`); one
  that holds the accepted token after a rotation finds stored what it began with, unless that
  was given up (`Owing`), because no two clients have rotated the same pair (`Apart`); a pair
  being connected is known to nobody else (`Announced`). `PairIsKept` is not inductive without
  them: the client that holds the pair finishes, and what then remains is in what is stored.

### Prices

- `CatalogInv`: what a reviewer has read stays true until it publishes or is overtaken
  (`StillTrue`), but for the versions that Costs or an overtaken publication wrote (`Loose`),
  and what it closes are earlier versions of the same item (`ClosesEarlier`).
- `InvoiceInv`: a document has a call of the parser left whenever one may still come
  (`Fits`): when it is about to be parsed or may be claimed (`Tight`), and when an open review will
  reset it (`Open`).

## Findings

Statements of the repository that the code does not keep, and bugs met while
modelling. Each is in `PROJECT.json` with the lines and the quoted text. The first
three have a run whose counterexample shows them.

1. `partial_on`: the rollback of a partial ON skips the inverter whose turnon has an
   unknown outcome (`energy/service.ts:1784`).
2. `double_charge`: if storing the id of an accepted charge fails, the attempt counts
   as failed and the renewal is charged again (`commerce/recurring.ts:298`).
3. `lost_chunk`: a runner that dies between the claim of a chunk's job and the mark of
   the chunk leaves an import that runs for ever (`energy/history-import.ts:328`).

Of the others the model has the states, or a changed constant shows them:

4. A turnon that may have reached the vendor is marked `FAILED` by a retry that fails
   before its own dispatch; the inverter runs without a command to reconcile
   (`energy/service.ts:1613`). With 1 and 5 it does not break `SafeOff`.
5. Two claims of a deactivation job can carry one attempt number
   (`energy/deactivation-jobs.ts:191`).
6. An attempt claimed before a revocation is charged after it
   (`commerce/recurring.ts:259`).
7. A guest who moves from A to B and back to A gets no reminder
   (`consultation/service.ts:131`); and failures of a cycle that then throws are never
   reported (`jobs/run/route.ts:189`).
8. A signal between the claim of an analysis and its start leaves the run RUNNING for
   ever (`analysis-worker.ts:27`): add `"start"` to `SignalAt`.
9. A curve made from old values is put into service after the save that superseded
   the curves, and used for the new inputs (`pricing/materialize.ts:424`).
10. A purged document that is uploaded again is never read
    (`energy/invoice-document.ts:80`).
11. A draft that comes after the confirmation reopens the request
    (`energy/invoice-ai.ts:120`).
12. The defaults of a first analysis overwrite a value saved in between
    (`energy/technical-profile.ts:374`).
13. Two administrators publish overlapping versions (`pricing/catalog-admin.ts:426`): the
    run `prices` has them in `raced`; without that exception `VersionsDoNotOverlap` fails.
14. Only the history import keeps a rotated pair when the request after the refresh
    fails, and only it compares before it stores (`energy/service.ts:214`): the pairs are in
    `lost`; without that exception `PairIsKept` fails.
15. Of two users who connect one plant at a time the second is told that it worked
    (`energy/service.ts:740`): `beaten`; without that exception `OnboardingEnds` fails.
16. Two extractions of a key may overlap, and then share the temporary file of the locator
    (`solax-key-agent/server.mjs:94`).
17. A discovery logs in a second time, where the documentation speaks of the same session
    (`solax-key-agent/engine.mjs:83`).
18. A late answer takes a job that was just submitted from the page of the simulations, or of
    the invoices, which stops asking (`SimulationWorkspace.tsx:82`).
19. A parser that is busy makes the coordinator mark a document as failed for good
    (`invoice-agent/parser-server.mjs:168`).
20. An item of Costs that passes the check of its fields and cannot be stored ends every
    synchronization, and what comes after it never arrives (`costs/catalog-sync.ts:391`):
    without its last exception `SnapshotReachesCatalog` fails.

## Known behaviours

What the models also do, because the code does, and what a reader may take for a
mistake of the model. No document promises otherwise.

- Analyses. Two callers that prepare the same inputs may both reset a run, the second
  after its job was claimed (`analysis/service.ts:1370`); the scenes have one direct
  caller. A worker that was overtaken still writes the state of the run in its catch
  block (2917). A run is COMPLETED before its offer and its mail. A paid run that
  failed or was superseded cannot be computed again.
- History. An error after the store of a chunk marks it FAILED although its data have
  superseded the analysis; two requests at once may both create an import.
- Profile. The confirmation is a second transaction without a check
  (`technical-profile.ts:755`); the refresh from the cloud may lose an update; a turnon
  confirms values that have changed since it sent them; a second exact calendar leaves
  the curves of the first in service (`pricing/materialize.ts:771` skips them).
- Consultations. A calendar job may be tried more than `MaxAttempts` times when several
  workers claim it in turn, as each writes the count it has read.
- Invoices. A review by hand replaces the marker of a failure, so the document is
  parsed again; the operator's script leaves no marker at all; an upload sets RECEIVED
  from a status it read before the lock.
- Catalog. The synchronization publishes versions that overlap, VALIDATE and REJECT
  do not look at the status, and a partial synchronization counts as activity.
- Market. The customer's series archives the backend's until the next publication.
- Plants. A pair that is dead never makes the connection ACTION_REQUIRED (only a
  missing one does, `energy/service.ts:223-227`); connecting a second account leaves
  the plants of the first without one; `Limit` plants that are down keep all others
  from being read; another process shows an old summary for up to thirty seconds.
- Pages. The dashboard may show a plant the user has left, and go on polling it; the
  workspace stops polling when an older answer says that nothing is pending; an edit
  is lost when the page is left within 800 ms; an older save that is handled late is
  what the server keeps. `SavedIsLatest` is about answers, not about that order.

## Not modelled

- **Dispatch optimisation and economics**: floating-point optimisation over a year of
  quarter-hours with an external solver; TLC has no reals.
- **Control audit**: read-only reports over another system's database.
- **Content, consent and analytics**: single-row edits by one administrator; nothing
  interacts.
- The vendor's, Google's and GoPay's systems, the mail provider and the invoice parser
  are external: the modules have what the code can observe of them.
- In the parts that are modelled *partly*: roles, prices and periods of subscriptions;
  the mock gateway, the purchase of analyses and amounts; what a scenario, a summary or
  a curve computes; funding programs and validation in the catalog; dialogs, charts and
  the other panels of the pages.
- In parts that are modelled: the text of a mail sent again after its body was deleted, alerts that
  are sent once an hour, an account that is active but not verified, several invoice
  requests of a site, a simulation job with an invalid payload or one that kills its
  process each time, the coverage of devices.

## What could come next

- The refinement of abstract specifications by the services: an outbox that delivers once and
  once more per fault, a lease, a promise of a summary.
- The safety parts of the liveness properties as invariants with theorems: that a plant keeps
  its owner (`Onboarding`), that an estimate ends once (`Simulation`), `NotComputedTwice`.
- The liveness of `Payments`: what the recovery stage finds is settled in the end.
