# BNMP Monitor in TLA+

A model of the worker and the web application in this repository: a multi-tenant
monitor of the BNMP portal (warrants issued in Brazil) that polls the portal's
listings, keeps a copy of every warrant with its history, stores the PDFs, and tells
Telegram chats what is new. The modules here are translated from the TypeScript code
under `apps/` and `packages/`; TLC checks them on small instances, and TLAPS proves
the most important of their properties for instances of every size.

Paths below are relative to the repository's root.

## 1. The system

```
 cron (pg-boss schedule)
   |  scan.tick, retroactive.tick          web application (Next.js)
   v                                        |  cities, Telegram configurations,
 scan-city, retroactive-scan jobs           |  invitations, roles
   |   BnmpClient: rate limiter,            v
   |   session pool, retries          Postgres: warrants, warrant_history, alerts,
   v                                  telegram_configs, pdf_assets, monitored_cities,
 syncWarrant ------------------------>  tenants, users, invitations
   |            \                            ^
   |             pdf-download job -----------| (+ Supabase Storage)
   v                                         |
 telegram-send-alert jobs (pg-boss) ---------+--> Telegram Bot API
```

One worker process runs every job handler on Node's event loop; several processes may
run. Nothing is locked: the handlers communicate through rows of Postgres (each statement
is atomic, no handler opens a transaction) and through pg-boss jobs. Every `await`
is a point where other handlers run, where a statement may be rejected, and where the
process may die.

### Inventory

| Component | State | Operations | What is hard | What makes it correct |
|---|---|---|---|---|
| Warrant synchronisation: `apps/worker/src/services/warrant-sync.ts` and the warrant, history, alert and configuration repositories | tables `warrants`, `warrant_history`, `alerts` | `syncWarrant`, `enqueueFollowups` | read, upsert, append, enqueue and publish are separate awaits; regular and retroactive scans of one warrant overlap; a call may die anywhere | what a row holds is logged; the history is a chain of the changes; every active configuration gets its alert; rows follow the portal |
| Alert delivery: `apps/worker/src/handlers/telegram-send-alert.ts` | `alerts`, the job, what Telegram accepted | find the alert, configuration, warrant, history; send; mark | duplicate jobs, retries, a lost reply, a failure between the send and the mark, a configuration toggled meanwhile | SENT means delivered; settled stays settled; duplicates are bounded; a PENDING alert has a carrier |
| Telegram API client and rate limits: `packages/telegram/src` (`rate-limit.ts`, `retry.ts`, `api/client.ts`, `service.ts`) | two levels of limiters, attempts | `sendMessage`, `sendDocument`, retry, `stop` | slots held while waiting and while sleeping, mixed error classes, `stop` beside waiting calls | the order within a chat, bounded posts, every call and `stop` end |
| Job queue: `packages/queue`, `apps/worker/src/queue` (pg-boss is a library) | jobs with state and retry count | publish, publish singleton, take, complete, fail, retry, expire | retries are exhausted, jobs are duplicated, handlers overlap | every job ends; a job has one handler |
| BNMP session pool: `packages/bnmp/src/session`, `packages/bnmp/src/client/index.ts` | `pool`, `cursor` | `acquire`, `refresh`, (`invalidate`, not called), one retry after 401/403 | the length and the slot are read before an await and used after it | pool bounded, no slot twice or missing, only pooled sessions in use, requests end |
| Scan handlers and BNMP HTTP client: `apps/worker/src/handlers/scan-city.ts`, `retroactive-scan.ts`, `warrant-recheck.ts`; `packages/bnmp/src/client` | counters of one scan, attempts | page through a listing, sync each row, stop early, retry | page budget, early stop, failing rows and requests, a listing that shifts between pages | bounded work; a clean run meets its window; rows in reach follow the portal |
| Scheduling: `scan-tick.ts`, `retroactive-tick.ts`, `scheduler`, `monitored-city.repository.ts` | `monitored_cities`, singleton jobs | fan out, toggle a city | overlapping ticks, a city switched off after it was queued, jobs left by a dead process | one scan per city at a time; active cities are scanned again and again |
| Worker lifecycle: `apps/worker/src/index.ts`, `lifecycle/shutdown.ts` | task list, `shutdownRequested` | boot, register, shut down on a signal or a fatal event | order of the tasks, second events during the drain, a drain that is cut | handlers do not outlive their services; a signalled process ends |
| PDF store: `apps/worker/src/handlers/pdf-download.ts`, `services/storage.ts`, `pdf-asset.repository.ts` | `pdf_assets`, storage objects, `warrants.pdfAssetId` | download, find by hash, upload, upsert, attach | two jobs of one warrant or one file, crashes between the steps, stale attachments | an attached asset has its object; orphans are bounded; every job attaches or fails |
| Onboarding and members: `apps/web/src/lib/auth/sync.ts`, `invitations/actions.ts`, `users/actions.ts` | `tenants`, `users`, `invitations` | first sign-in, invite, revoke, change a role | concurrent callbacks, a revocation during sign-in, mutual demotion | a user joins the tenant that invited it; a tenant keeps an administrator and its plan |
| Web navigation and sessions: `middleware.ts`, `lib/auth/session.ts`, `lib/auth/actions.ts`, `app/auth/callback` | Supabase's session, the local row | sign in, up, out; redirects | the session and the row are set by different requests | navigation settles on a page |
| Plan limits and settings: `apps/web/src/lib/plan.ts`, `cities/actions.ts`, `telegram/config-actions.ts`, `packages/shared/src/constants/plans.ts`, `packages/db/prisma/seed.ts` | `monitored_cities`, `telegram_configs` | create under a limit, update, toggle, seed | the count is checked before the row is created; the seed is run again | a tenant stays within its plan up to the named races; placeholders stay inactive |
| Telegram message format, parsers, crypto, logger, environment, health server, heartbeat, dashboards | none, or read-only | conversion, I/O | none that interleaves | tested by the repository's unit tests |

The hazards of this code, each at its line and with the properties that would catch it,
are listed in `PROJECT.json` under `hazards`.

## 2. Modules

| Module | Models | Extends or instantiates |
|---|---|---|
| `WarrantSync` | concurrent calls of `syncWarrant` | |
| `AlertDelivery` | the `telegram-send-alert` handler and its queue | |
| `AlertLifecycle` | abstract: what the alerts table promises | |
| `AlertPipeline` | the two components over their shared tables | extends `WarrantSync`, instantiates `AlertDelivery`, `AlertLifecycle` |
| `TelegramSend` | limiters, in-call retries and `stop` of `packages/telegram` | |
| `SessionPool` | `BnmpSessionManager` under concurrent `BnmpClient` requests | |
| `ScanCity` | the three scanning handlers and a request's attempts over a moving listing | |
| `PdfStore` | concurrent `pdf-download` handlers, bucket, assets, attachments | |
| `Worker` | processes, cron ticks, singleton jobs, shutdown | |
| `Accounts` | sign-in, invitations, roles, sessions, the limit on members | instantiates `Navigation` |
| `Navigation` | pure operators: middleware and page guards | |
| `Settings` | cities, Telegram configurations, their limits, the seed | |
| `MC...` | values of the constants for TLC | the module it is named after |
| `AlertPipeline_proofs` | theorems about `WarrantSync`, about the pipeline, and its three refinements | extends `AlertPipeline` |
| `Bnmp_proofs` | theorems about the session pool and the scanning handlers | extends `SessionPool`, `ScanCity` |
| `AlertDelivery_proofs`, `PdfStore_proofs`, `TelegramSend_proofs`, `Worker_proofs`, `Accounts_proofs`, `Settings_proofs` | theorems | the module it is named after |

The components meet as follows. `Worker` starts and ends a scan as one step; `ScanCity` is what the scan
does meanwhile, with `syncWarrant` as one step; `WarrantSync` is that step await by await, with the session pool of
its requests in `SessionPool`. `WarrantSync` publishes the jobs that `PdfStore` and
`AlertDelivery` run, and `TelegramSend` is the one call that `AlertDelivery` has four outcomes for. `Settings` makes
the toggles that `Worker` (`SetActive`) and `WarrantSync` (`ToggleConfig`) allow at any time. The composition that is checked as such, with shared
tables and refinement mappings, is `AlertPipeline`, where both sides write one table.

In every module a definition named `...Variant` is the definition after it with a
plausible bug; `PROJECT.json` (`mutants`) says which property each one violates. No
specification uses them.

### WarrantSync

`sync[s]` is one call of `syncWarrant` with its local variables: `raw` (the payload the
scan listed), `prev` (the row that `findByBnmpId` returned), `todo` (the configurations
the loop has not reached), `cfg` (the one being published for). `pc` names the await the call
stands before:

| `pc` | Action | Code |
|---|---|---|
| `idle` | `Fetch` | a scan has listed the warrant and calls `syncWarrant` |
| `find` | `FindUnchanged`, `FindChanged` | `findByBnmpId`, comparison of the hashes (lines 111-135) |
| `upsert` | `Upsert` | `warrantRepo.upsert` (115, 136) |
| `append` | `AppendHistory` | `warrantHistoryRepo.append` with `detectChangeKind` (119, 140) |
| `pdf` | `PublishPdf` | `publishSingletonJob` (184) |
| `configs` | `ListConfigs` | `listActiveByTenant` (188) |
| `enqueue` | `EnqueueAlert` | `alertRepo.enqueue` and the status check (190-194) |
| `publish` | `PublishAlert` | `publishJob` (201) |
| any | `SyncFails` | the await rejects or the process dies |

A payload is a model value. `snapshotHash` is the SHA-256 of the canonical payload, so
comparing hashes is comparing payloads; `Status` gives the canonical status of each. The
two branches of `syncWarrant` (no row, changed row) differ only in the label and the diff, so they
are one sequence of actions with `prev = None` in the first. A history entry keeps the payload
(`to`), the row its diff was computed from (`from`) and its label. `lastSeenAt`, which no
property is about, is left out. The environment changes the portal's
listing (`PortalChanges`), toggles configurations (`ToggleConfig`) and settles alerts
(`AlertSettles`). `lost`, `dropped` and `everOff` are history variables for the properties.

### AlertDelivery

`worker[x]` is one handler run, `jobs` the queue in publication order, `delivered[a]` the
messages that Telegram accepted for alert `a`, each with the row it showed (`snap`) and the
history entry that labelled it (`at`). The actions follow the handler from `TakeJob` to
`Complete` await by await. The outcome of `telegram.sendMessage` is one of four:
accepted (`SendSucceeds`), refused for good (`SendFailsForGood`: 400, 401, 403, 404), failed
for now (`SendFailsForNow`), accepted with the reply lost (`SendLosesReply`, after which
`withTelegramRetry` sends again or the call fails for now). `JobFails` is pg-boss's answer to a
handler that throws or dies: back to the queue until the retries are used up.
`WorkerFails` may strike at any await, so it covers a `markSent` that rejects, the
`workerLog.append` after `markFailed`, a token that cannot be decrypted, and a dead process.

Left out, because nothing in the repository deletes an alert, a configuration or a warrant: the
three branches for missing rows. Left out because they change none of this state: the
PDF that follows a delivered text, `attempts`, `lastError`.

### AlertLifecycle and AlertPipeline

`AlertLifecycle` is the promise of the comment above the handler: created PENDING, delivered and
settled only while PENDING, SENT only if Telegram accepted it, never changed once
settled. `AlertPipeline` joins the two components on the tables they share; a step of one is a
step of its module with the other's variables unchanged, and publishing puts a job into the queue.
The pipeline is shown to implement `WarrantSync!SyncSpec`, `AlertDelivery!DeliverySpec` and,
with one handler at a time, `AlertLifecycle!Spec`. So each component's environment actions in its
own module do cover what the other component does to it.

### SessionPool

`caller[c]` is a request of `BnmpClient` inside the rate limiter. `acquire` and `refresh` are cut at
`await this.initSession()` and nowhere else: `AcquireGrows` is `acquire` up to the
await, `GrowArrives` what follows it; `BeginRefresh` looks the slot up, `RefreshArrives` writes it.
Sessions are numbered in the order the portal issues them. Slots count from 1, and 0 is
`indexOf`'s -1. The retries inside `requestWithRetry` never touch the pool and are not modelled here.

### TelegramSend

`send[s]` is one call of `sendMessage` or `sendDocument` in its process; its `pc` is where it waits: for its chat's
limiter, for the global one, for the reply, or asleep before a retry with both slots held. `order` is the order in which calls
reached the limiters, and `Turn` lets a chat's oldest unfinished call go first: the chat's Bottleneck has `maxConcurrent: 1`.
`Reply` is one turn of `withTelegramRetry`'s loop for every class of reply that the Bot API may give: accepted, 429 with a
`retry_after` below or above the cap or without one, transient, permanent. `Stop` is `stop()`: the global
limiter and the chats' limiters are stopped at once, those of chats that appear later are new (`late`). Reservoirs and
minimum times only delay a start and are left out.

### ScanCity

`job` is the running handler with its counters (`page`, `budget`, `streak`, `attempt`), `listing` and
`payload` are what the portal lists, and the portal may insert a row anywhere and change a payload between any two
steps. `FetchPage` reads a page of the listing as it then is, and the rows of that page are synced one by one while
the listing moves on. `RequestFails`, `SessionExpires` and `PageRejected` are the classes of
`requestWithRetry` and of `executeFilter`. `HasRow` and `BudgetSpent` test the budget after the generator has produced a
row, as the code does. One job runs at a time: two jobs of one city meet only in the rows, which is `WarrantSync`'s subject.

### PdfStore

`worker[x]` is one run of the handler, cut at each await: `FindWarrant`, `Download`, `FindBySha`, `Upload`,
`UpsertAsset`, `Attach`. `RunFails` may strike at any of them; a body without the PDF magic bytes throws in `Download`. A
document stands for its SHA-256, on which the object's path and the row's key both depend.

### Worker

`proc[p]` is a process with its phase and the shutdown task it is at; `Registered` is the order in which
`registerShutdown` is called, and `Task(i)` the reverse in which the tasks run. (The comment at
`apps/worker/src/index.ts:52` lists the order of execution, pg-boss first; the calls below it are in the opposite order, which is right.) `waiting`, `orphans` and
`run` count the jobs of each kind and city that wait, are left active by a dead process, and run. `CronFires`, `TakeTick`,
`ListAllActive`, `PublishSingletonJob` are a tick; `TakeJob`, `FindCity`, `ScanEnds` a scan. `TaskFails` covers
a task that rejects and pg-boss's stop, which resolves after its 30 seconds whatever the handlers do (`cut`). `JobExpires` is
`expireInHours: 24`.

### Accounts and Navigation

A request is cut at its awaits. A callback goes through `FindUser`, `FindInvite`, then `Join` (the one transaction) or
`CreateTenant` and `CreateUser`; an invitation through two `Count`s in either order, `CheckMember`, `CreateInvite`. `requireRole`
reads role and tenant when a request begins, and the request runs on with them. `sessions` is what Supabase keeps of each
person: begun by a callback that went through, or otherwise. `loose` marks the tenants in which a request acted on
something that was no longer true, for properties that hold but for named races. `Navigation` gives, for a URL, a session and a
role, the redirect that the middleware or the page's guard answers with.

### Settings

The requests that write `monitored_cities` and `telegram_configs`, cut at their awaits, beside `prisma/seed.ts`,
which upserts its cities one by one and may stop half-way. The pages only decide what a member is offered; what they
post may be out of date, so every id and value may be posted. `forced` and `seeded` are history variables.

## 3. Runs

| Run | Instance | Shows |
|---|---|---|
| `sync` | 2 calls, 1 warrant, 2 payloads, 1 portal change, 1 configuration, 1 failure | `RowIsLogged`, `AlertsFollowHistory`, `RowsConverge` |
| `delivery` | 2 handlers, 3 jobs of one alert, 1 retry, 1 failure | `SentIsDelivered`, `DuplicatesBounded`, `SettledStaysSettled`, `JobsFinish` |
| `pipeline` | 1 call, 1 handler, 2 payloads (one revoked), 2 portal changes, 1 failure on each side, no retry | `PendingIsCarried`, `HistoryIsChain`, `PendingSettles`; implements both components and `AlertLifecycle` |
| `telegram` | 3 calls, two of them to one chat, 1 global slot, 2 retries, `stop()` at any point | `InTurn`, `PostsBounded`, `SendsEnd` |
| `sessions` | 2 requests, a pool of 2, 4 sessions | `PoolBounded`, `PoolIsSound`, `RequestsEnd` |
| `scan` | pages of 1 row, 3 pages a scan, window of pages 3 and 4, 4 rows and one to insert, 1 change, 2 attempts, 2 failures | `TypeOK`, `WorkBounded`, `CleanRunCovers`, `RowsRefresh` |
| `pdf` | 2 workers, 2 jobs of one warrant and one of another, 2 PDFs and a body that is none, 1 retry, 1 failure | `AttachedIsStored`, `OrphansBounded`, `FirstPdfStays`, `JobsEndAttached` |
| `worker` | 2 processes, 1 city, 1 kind of scan, 2 signals, deaths or failures | `TypeOK`, `OneJobPerCity`, `ServicesOutliveHandlers`, `SignalledExits`, `ActiveCitiesAreScanned` |
| `accounts` | 3 people, 2 requests at a time, 5 in all, 2 tenants, a plan of 2 seats, 2 invitations, 1 failure | `TypeOK`, `SeatsWithinPlan`, `AdminRemains`, `AcceptedMeansMember`, `NavigationSettles` |
| `settings` | an admin and a user, 2 requests at a time, 3 in all, a plan of 1 city and 1 configuration, 2 runs of the seed | `TypeOK`, `RowsBounded`, `PlaceholdersStayInactive` |
| `sync_crash` | 1 call, 1 failure | violates `UnchangedMeansDone` |
| `change_untold` | 1 call, 1 handler, no failure | violates `ChangesAreTold` |

Bounds. Warrants, configurations and alerts interact only within one (warrant, configuration)
pair, except for the loop over the configurations, whose order the model leaves open; the theorems
about `WarrantSync` cover any number of each. Two calls and two handlers
are the smallest instances in which calls overlap; a third adds no new pair of overlapping steps. A
change after the first (`MaxChanges`) is what distinguishes the first alert of a warrant from the later ones. One
failure (`MaxFaults`, `MaxErrors`) may strike at every await. With `RetryLimit` 0 or 1 a job is
both retried and exhausted; the code's value is 5. Four issued sessions let both
callers grow the pool and both refresh. In `pipeline` the bounds `MaxJobs` and `MaxHistory` of
`AlertDelivery` are out of reach, so that they do not constrain it. A listing entry that waits in
a fetched page while earlier rows are synced counts as a call between `Fetch` and `find`.

`telegram` has two calls to one chat, so that one waits for the other, and a call to another chat that competes for the
single global slot; the code's global limiter has more slots, which only removes waiting. `scan` keeps the proportions of
the default environment (a scan shorter than the window's start, an early stop after two pages of unchanged rows) with pages of one row; the
listing reaches one page past the scan, into the window. `worker` has one
city because cities share nothing but a process's slots, and one kind because kinds share nothing but the process; a team of 1 because pg-boss 10 ignores
`teamSize`. With two cities and the liveness properties left out, the safety properties were checked as well. `accounts`
has the third person for an admin, the member he demotes and one who comes in meanwhile. Five requests are
enough for two callbacks, two invitations and a revocation.

The two violations are disagreements between the code and its comments, listed with the
quoted lines in `PROJECT.json` (`findings`):

- `sync_crash`: `syncWarrant` is documented as idempotent. It writes the row first, so a call that fails
  after the upsert is not repaired by the next one, which finds the payload unchanged.
- `change_untold`: follow-up jobs are documented for "something new or changed". The alert row is
  unique per warrant and configuration, and once it is settled `enqueueFollowups` passes over it: the chat
  hears of a warrant once, and never of its revocation.

Elsewhere a comment promises more than the code keeps, and a property states what does hold, with the exception
named in it:

- "a duplicate job is a no-op" (`telegram-send-alert.ts:53`) holds once the first job has marked the alert;
  `DuplicatesBounded` counts what may happen before.
- "Grow pool up to poolSize lazily" (`session/index.ts:56`): the pool may grow past it; `PoolBounded` says how far.
- "Sending back to /login forces a re-callback round-trip which will sync" (`lib/auth/session.ts:51-52`): the middleware sends a person with a
  session from `/login` to `/dashboard`, whose guard sends one without a row to `/login`. No callback runs, and the redirects go
  round for ever. `NavigationSettles` says whom this cannot happen to: whoever's session began with a callback that went
  through. (The comment at line 41 of that file names `/dashboard`; the code redirects to `/login`.)
- "Cidades com idMunicipio 0 ficam inativas" (`dashboard/cities/page.tsx:24`): creation and seed keep them so, the toggle and an update do
  not. `PlaceholdersStayInactive` names the two ways.
- The plan's limits hold but for counts that another request overtakes, an invitation accepted after it was revoked, and the
  seed (`RowsBounded`, `SeatsWithinPlan`).

What else the models show, and no property states because no document promises otherwise: a row that changes on the page between
the two pages that a scan reads for certain and the start of the retroactive window is out of reach of both until it moves
(`RowsRefresh` leaves it out); `/reset-password` counts as an authentication screen for the middleware, so whoever arrives from a
recovery link, with a session, is redirected to `/dashboard`; a first sign-in that loses a race leaves an empty tenant; two of the four cities of the
seed share the key (GO, 0), so it makes three rows; a send that waits for its chat when `stop()` is called is
refused, although waiting jobs are not to be dropped, and has posted nothing.

### Fairness

- `WF(SyncStep(s))`, `WF(Delivers(x))`, `WF(Proceeds(c))`, `WF(RunStep(x))`, `WF(Step)`, `WF(Handle(p, x))`, `WF(TickStep(p, k))`: the event loop resumes a handler whose
  await is settled, and every statement and HTTP call ends, at the latest by its timeout.
  Taking a job is included where pg-boss polls every few seconds.
- `SF(Fetch)` per warrant: cron keeps scanning and a scan lists the warrant again and again. This
  is so only while the warrant is in the pages that the regular or the retroactive scan reads (`ScanCity!Reach`), and while its
  payload is one that `toUpsertInput` accepts. `SF(Start)` in `ScanCity` is the same schedule for each kind of scan.
- `WF(Progress(s))`, `WF(Stopped)`: Bottleneck starts what it has queued, axios answers or times out, a sleep ends.
- `WF(Lifecycle(p))`: the platform starts a process that ended, and the event loop runs the shutdown tasks. That a task
  ends is the task's own: `health-server` closes when its connections do, which assumes that no client keeps one alive.
- `SF(TakeJob(p, x))` in `Worker`: a process polls only while it is up, and pg-boss hands out the oldest
  job first, so none is passed over for ever. `WF(CronFires(k))`, `WF(JobExpires(x))`: pg-boss's own timers.
- No fairness on failures, deaths, signals, on the portal, on the members, or on what Telegram answers.

pg-boss expires a job that has been active for 24 hours; the model assumes that no handler that is alive
runs that long. pg-boss is taken at the word of `packages/queue` (`jobs/index.ts:17-18`): a send whose singleton key a waiting or
active job has does nothing. Whether version 10 does that for queues that were never created with a policy, and without
`singletonSeconds`, is outside the repository.

## 4. Proofs

TLAPS checks the proof modules for arbitrary sets of warrants, payloads, configurations, calls,
handlers, callers, processes, cities, people and requests and for arbitrary bounds and limits. The only assumptions are those the modules declare
(`NoneAssumption`, `BoundsAssumption`, `DeliveryAssumption`, `QueueAssumption`, `PoolAssumption`, `ScanAssumption`, `PdfAssumption`,
`TelegramAssumption`, `WorkerAssumption`, `AccountsAssumption`, `SettingsAssumption`): `None` is no value of any other kind,
the bounds are naturals, what runs or is counted is finite, a pool has a size of at least 1 (the constructor's `Math.max(1, ...)`), a plan at least one
member, the web app serves at least one request, a page has a row and a retroactive window a page (the handler refuses an empty one), and the portal
lists no warrant twice. Two theorems name a further hypothesis, `OneCall` or `OneHandler`, because their property is false without it.

### The pipeline and its parts

- `SyncTypeCorrect`, `RowsAreLogged`, `AlertsAreCovered` (`AlertPipeline_proofs`). `RowIsLogged` and `AlertsFollowHistory` are not
  inductive: a step of `AppendHistory` keeps them only if the call holds a payload, and an alert
  created by a call has a history only because the call's own append came before. `TypeInv` adds
  what a running call holds (`CallFields`); `SafeInv` adds that a call past its upsert has written a row and one past its append an
  entry (`CallsLeaveTraces`), and that a configuration never switched off is on (`EverOffIsTrue`). The lemma
  `CallKeepsSafe` does the work once: a step of one call that only extends the tables and hands over or discharges what
  the call owes keeps `SafeInv`; each action is then shown to be such a step.
- `HistoryChains` (`AlertPipeline_proofs`), for one call at a time: two overlapping calls log changes from one and the same row, and the chain
  forks. `ChainInv` says what the call under way knows: between `findByBnmpId` and `upsert` it has read the row, and
  between `upsert` and `append` its `prev` is where the chain ends. A call that dies in the second stretch breaks the chain for good, which is the
  exception the property names.
- `PipelineImplementsSync`: the pipeline's own variables and actions leave `WarrantSync`'s state alone or are its steps, so what is
  proved of `WarrantSync` holds in the pipeline.
- `PendingAlertsAreCarried`, for any number of calls and handlers. The property relates the alerts, the queue and the two sets of what was lost; `PipeInv` adds that
  a running handler has a job of the queue (`QueueTypeOK`), that no job is published before its alert (`JobsHaveAlerts`), and that a handler about to complete
  its job leaves a settled alert (`DoneIsSettled`): this is why completing a job never abandons a pending alert. Every handler step is one of a
  few moves of the queue (`QueueMoves`) and of the alerts (`AlertMoves`), and one lemma shows that these keep the property.
- `PipelineImplementsDelivery`: under the mapping of `AlertPipeline`, a step of a call is one of the changes that `AlertDelivery` allows its environment, or a stutter. The
  hypothesis `WithinBounds` is that the behaviour stays within the two bounds that are `AlertDelivery`'s alone. The prover
  cannot apply theorems of an instantiated module, so the conclusions of `AlertDelivery_proofs` are not repeated for the pipeline; they follow from this one.
- `PipelineKeepsLifecycle`, for one handler at a time: with two, one that finds the configuration switched off may mark SKIPPED what
  the other is sending, and `AlertLifecycle` has no message to a settled alert.
  `LifeInv` keeps what the handler saw at its status check true until it marks the alert.
- `DeliveryTypeCorrect`, `JobOwnership`, `SentMeansDelivered`, `DuplicatesAreBounded`, `SettledForGood`
  (`AlertDelivery_proofs`). `TypeInv` pairs `TypeOK` with `JobsAreOwned`, because a handler reads its alert through
  the job it holds: the job must exist and must not change its alert (`JobsKeep`). `DuplicatesBounded` is not inductive: it
  does not say which handlers may still send. `Accounted` does: while the alert is unsettled every message
  stands for a failure or for a handler about to mark it (`HasSent`); once it is settled, the messages and the handlers
  already past the status check (`MaySend`) together stay within the bound, since `FindAlert` lets no further
  handler through. The lemma `Unheard` covers every step that neither posts a message of an alert nor settles it;
  the steps that do have a lemma each.

### BNMP, documents, Telegram, processes and the web

- `PoolTypeCorrect`, `PoolShape`, `PoolGrowth` (`Bnmp_proofs`). `ShapeInv` strengthens the properties with: every
  session in the pool or in use has been issued, so that a new one is distinct from all; and a request
  holds a session that is pooled or older than a pooled one, also while it refreshes. The bound on the
  pool's length follows from an invariant that counts the callers between the length check and the push.
- `ScanTypeCorrect`, `ScanWorkIsBounded`, `CleanRunIsComplete` (`Bnmp_proofs`). Nothing in the code bounds a scan's pages as such: the bound follows from the
  budget of rows, because only the last page may be short. `BudgetLeft` states this as an equation between the budget, the page and the rows still to do,
  which no insertion by the portal disturbs, since a page was cut from the listing as it was. `AttemptsCount` counts the requests of a page over its two sessions. `CleanRunCovers` says nothing until a job has ended;
  `CoverInv` adds, for a job over a listing that has not shifted, that every row behind the job (`Passed`) was met, that the rows still to do are the next ones of the listing (`TodoIsNext`),
  and that what is left of the budget is what is left of the window (`BudgetIsAhead`), so that a scan whose budget is spent has read its window.
- `PdfTypeCorrect`, `AttachedStaysStored`, `OrphansAreBounded` (`PdfStore_proofs`). That an attached document is stored depends
  on what a run knows when it attaches: `StoreInv` adds that a run before its upsert has uploaded
  its document and a run before its attachment has a row. The bound on the orphans counts: a failure takes at most one document out of `Storing`, and
  every other step leaves the difference between objects and rows to runs that are still storing.
- `FirstPdfIsKept` (`PdfStore_proofs`): once a warrant has a document and every run that works on it has yet to look (`Settled`), each run that looks finds the document and ends.
- `SendTypeCorrect`, `CallsStayInTurn`, `PostsAreBounded` (`TelegramSend_proofs`). `InTurn` says nothing of a call that has
  left its chat's limiter and not posted yet. `SendInv` extends it to those (`Ahead`), and adds what each stage of a call implies for its
  attempts and result (`CallOK`) and that there is no late call before `stop()`, so that `Turn` looks at every earlier call of the chat. The
  lemma `OneCall` does the work once for the steps that change one running call.
- `WorkerTypeCorrect`, `CitiesHaveOneJob`, `ServicesOutlive` (`Worker_proofs`). `OneJobPerCity` sums the jobs that wait, those left by a dead process and
  the handlers at work; with the types it is inductive, and the work is in the counting: a step of one handler adds or takes at most one
  (`RunningStep`), and a process that ends turns its handlers into as many orphans (`ExitsCount`). `ServicesOutliveHandlers` follows from `DrainInv`: the first task is
  pg-boss's (`FirstTask`), from its beginning on a process takes no job, and unless it is cut it ends when nothing runs.
- `SettingsTypeCorrect`, `PlaceholdersInactive`, `LimitsHold` (`Settings_proofs`). `SettingsInv` adds what a request holds between its awaits: a row it
  updates exists, a configuration it toggles is there, since no row is ever deleted. The limits need more than the rows: `BoundInv` counts with them the
  requests that passed the check and have not written yet (`Inserting`, `Adding`); the check makes the sum small, and
  an insertion moves one from the requests to the rows.
- `AccountsTypeCorrect`, `AcceptedJoined`, `TenantsKeepAdmins`, `VisitorsArrive`, `SeatsBounded` (`Accounts_proofs`). Everything rests on two facts about the code: a row
  of users is never deleted, and it never changes its tenant (`MembersStay`). So what a request has read stays true of the rows (`Knows`,
  `KnowledgeStays`), and only tenants with members have invitations (`InvitesHaveInviters`), which is why accepting one never makes a tenant without an admin.
  `SeatsInv` says what a count is worth: while no other request has changed the tenant's seats, what has been counted is what is there. Each step
  either leaves the seats alone (`SeatsStay`) or moves those of one tenant and marks the counts under way (`SeatsMove`).

Every invariant and every safety property that a run checks is so stated by a theorem. What stays with TLC is liveness (`RowsConverge`, `JobsFinish`,
`PendingSettles`, `RequestsEnd`, `SendsEnd`, `JobsEndAttached`, `RowsRefresh`, `SignalledExits`, `ActiveCitiesAreScanned`), which needs
fairness and ENABLED, and the two runs that expect a violation. `SyncSpec` and `LifecycleSpec` as the run `pipeline` checks them
have no fairness: they are the safety parts, which the theorems prove.

## 5. Not modelled

Multi-tenancy is one tenant per instance outside `Accounts`: every query of the worker carries a `tenantId`, and no state
is shared between tenants but the sessions and the rate limiter. The policies of row-level security (`packages/db/prisma/rls.sql`) are applied
at deployment and bypassed by the service's connections. pg-boss, Bottleneck, Prisma,
Supabase and the two remote APIs are external, modelled from how the code uses them.

- The message format, the parsers and normalisers, encryption, logging, the environment's schema: conversions without state. The
  environment's values are the modules' constants.
- The dashboards, the health server and the heartbeat: they read and report.
- The password reset form: a call of Supabase's `updateUser`. Changes of a tenant's plan: no code makes one.
- Times: back-off, minimum times between requests, reservoirs, cron expressions. A wait is a step that is taken later.
- The PDF that follows a delivered text, the attempts counter and the worker's log table: best effort, and nothing reads them back.
- `BnmpSessionManager.invalidate`: it has no caller.

## 6. Plan

The components of the inventory are modelled as far as section 5 says, and the safety properties are proved. What is left is to prove more of how the
components depend on each other: that a steady state which the liveness properties end in is kept once reached (a row that equals the portal's
payload, a settled alert, an attached document), and that the pipeline's duplicates are bounded with the jobs that `WarrantSync` publishes
counted rather than bounded.
