# Formal model of the castaminofen feed platform

castaminofen is a podcast platform: a NestJS API (`apps/api`), a BullMQ worker
(`apps/worker`), a realtime server (`apps/realtime`), web front ends, and packages of
which `packages/rss` holds the feed engine. This directory models the part of it in
which order, interleaving and failure matter, and what the engine decides about the
content of feeds. All of it is single-threaded TypeScript, so a step of a model
is the code between two awaits, and an interleaving is what other requests do during
an await.

## Inventory

### Modelled

`packages/rss/src` is written `rss/`, `apps/api/src/modules` is written `api/`.

| Part (source) | State it keeps | Operations | What is hard | What makes it correct |
| --- | --- | --- | --- | --- |
| Synchronization API (`api/feeds/feeds-synchronization.service.ts`) | none of its own; the lock manager's table | sync one feed, sync all | requests interleave at each await; a feed is removed in between; the engine may throw | one request per feed at a time; a lock is always given back; requests end |
| Locks, leases, concurrency controller (`rss/synchronization/{locking,leases,concurrency}`) | a map from feed to an immutable lock object | acquire, renew, release, expire, recover, invalidate; leases; authorize | the caller's copy is old when it is used; a lock is released twice | authorized means holding; only the owner, a third party or a released lock ends a lock; no lock lives too long |
| Lifecycle rules (`rss/lifecycle`: registry, guards, policies, pipeline, ...) | constant tables | may a feed move from one state to another | two ways of asking must agree | what is asked first is still right at the write |
| Lifecycle service and aggregate (`rss/lifecycle/{service,aggregate}.ts`) | an aggregate per feed: state and version | transition, applyTransition, convenience methods | load, change and save are three steps | one lifecycle; no transition is lost but to a call beside it |
| Feed administration (`api/feeds/feeds-administration.service.ts`) | the podcast row; a configuration store | enable, disable, archive, unarchive, reset, configuration, remove | the row that was decided on may be old at the write | the lifecycle's rules hold of the row |
| Persistence coordinator (`rss/persistence`) | a stack of transaction contexts | execute: begin, repositories, commit or roll back | calls overlap on one stack; anything awaited may reject | a success is whole, commits nest, calls end |
| Background worker (`apps/worker`) | metrics; the queues are BullMQ's | enqueue, handleJob, dead-lettering | retries, crashes, a queue that refuses | a completed job has succeeded or is dead-lettered, exact metrics, every job ends |
| Notifications package (`packages/notifications`) | an array of queue items | dispatch, schedule, processQueue | passes overlap; listeners throw | each item is delivered, once |
| Scheduler (`rss/scheduler`, `rss/queue`) | triggers, policies | register, create, dispatch; a job's envelope | an id made of the time; triggers replaced while their jobs wait | as many jobs as dispatches, whatever their ids |
| Worker runtime (`rss/workers`) | a registry of runtimes, each with a lifecycle | create, start, stop, dispatch | a stop between the awaits of a dispatch or of another stop; hooks that throw | a runtime comes to rest and can be reached; answers tell what happened |
| Synchronization state, checkpoints, recovery (`rss/synchronization/{state,state-machine,checkpoints,recovery,classification,policies}`) | states (frozen records), a table of checkpoints and its history | create, restore, update, save; create, replace, invalidate, expire, roll back; plan a recovery | old copies are put back; words of an error decide | chains of allowed steps; expiry means age; retries end; a plan's checkpoint is there and not invalid unnoticed |
| Import (`rss/import`, `rss/parser`, `rss/providers`, `rss/network`) | the repositories' rows | choose a provider, download with retries, parse, store podcast and episodes | find and create are two steps; an import fails halfway | answers are true of the rows; duplicates need a race |
| Engines (`rss/synchronization/{core,strategies,incremental,comparison,diff}`) | none between calls | synchronize, in two engines | options that get lost; a checkpoint of another version | a preview writes nothing, a change is imported |
| Accounts (`api/{auth,users,profiles}`, `packages/auth`) | users, profiles; the package's map of users | register, sign in, refresh, update, remove | look, hash, write | only races go wrong; the latest session works |
| Catalog (`api/{channels,playlists,bookmarks,history,episodes,tags,categories,feeds}`) | their tables | create, update, remove; create a feed with its channel | find, then write by id | only races and taken slugs go wrong |
| Search (`api/search`) | recent queries, analytics | search, suggestions | two engines, records that may fail | what was answered is recorded |
| Notifications API (`api/notifications`) | a table, preferences, templates and a queue in memory | create, schedule, mark, digest, pass | every call may run the pass | what has no date is not forgotten, a digest is of one's own |
| Media (`packages/media`) | objects, jobs, rows, upload sessions | upload, resumable upload, process | four stores in an order, each may fail | no row without its media and job; a dropped session loses what came late only |
| Realtime (`apps/realtime`) | rooms, typing, sessions, rate limits | join, leave, type, disconnect, resume | what is kept in whose map | a connection that is gone leaves little |
| Discovery and deduplication (`rss/{discovery,deduplication}`) | none | discover, compare | two normalizations, weights | verdicts follow from what is known |
| Health and status (`rss/{health,status}`, `api/feeds/feeds-monitoring.service.ts`) | none; a status | evaluate, report; what a status allows | clamping, rounding; hooks that reject; three tables about one status | worse is not better; nothing permitted is denied but activation |
| Observability (`rss/observability`) | registered collectors | observe | parts that change during the observation | a snapshot is whole |

### Not modelled

* **Rendering**: the web and admin applications and the UI package, more than half of the
  lines this directory does not cover. They hold view state only.
* **Text and layout**: what XML a reader accepts character by character, names, descriptions
  and images; the models keep what decisions are made by.
* **Readers and fixtures**: `podcasts.service.ts`, the home, health and admin endpoints, the
  example feature, lists that the operational and monitoring endpoints assemble; the upload
  endpoint stores one fixed buffer through `MediaUploads`.
* **Factories of immutable objects**: lifecycle commands, contracts, errors, events, DTOs.
* **Code that nothing calls**: `rss/import/{deduplication,matching,validation}`; custom
  guards, validators, policies and strategies that a caller could register.
* **External**: PostgreSQL, Redis, BullMQ, Meilisearch, Socket.IO, S3. What the code relies
  on is modelled and marked external in the map.
* **Placeholders**: some fifteen packages whose index is 18 lines, the build, the CI and the
  documentation.

`PROJECT.json` lists every component with its sources and its hazards with their lines.

## The modules

| Module | Models | Builds on |
| --- | --- | --- |
| `FeedLocks` | the lock objects and what each operation makes of one, as operators | |
| `FeedMutex` | abstract: a mutex per feed, which clients of one account may come to share | |
| `FeedSync` | the synchronization API | `FeedLocks`, implements `FeedMutex` |
| `FeedLocking` | the locking library with its owners, a sweeper, a supervisor and thieves | `FeedLocks` |
| `LifecycleRules` | the registry, and `Gate`: what the pipeline says | |
| `AtomicLifecycle` | abstract: a feed moves by registered transitions, one version at a time; once it may fork, also from where it has been | `LifecycleRules` |
| `LifecycleAggregate` | `applyTransition` over a shared or a copying repository | `LifecycleRules`, implements `AtomicLifecycle` |
| `FeedAdministration` | the administrators' requests about one feed | `LifecycleRules` |
| `Persistence` | calls of the persistence coordinator on one stack | |
| `WorkerJobs` | the background worker's jobs | |
| `NotificationQueue` | the notification queue and its passes | |
| `Scheduler`, `WorkerRuntime` | triggers and their jobs; runtimes | |
| `JobPipeline` | the jobs on their way from the one to the other | both |
| `SyncState` | states and checkpoints | |
| `SyncRecovery` | classification, policies, plans | `SyncState` |
| `FeedDocument` | rules: parsing and normalization | |
| `FeedImport` | downloads with their retries, responses and providers; the import service | `FeedDocument` |
| `FeedSynchronizers` | rules of comparison and diff; both engines, down to the import | `FeedImport` |
| `ApiTables` | the tables with their constraints, and the requests in flight | `Absent` |
| `Accounts`, `Catalog` | the services over the tables; the auth package beside them | `ApiTables` |
| `SearchRequests`, `MediaUploads`, `RealtimeRooms`, `Notices` | the other services | `Absent` |
| `ApiServices` | a behaviour of one of the services | the six above |
| `FeedIdentity`, `FeedCondition`, `Observation` | what is known of feeds | `LifecycleRules` |
| `Absent` | the value for what is not there | |
| `MCFeedSync`, `MCFeedSynchronizers`, `MCApiServices` | instances for TLC: values of the constants, symmetry | the module they are named after |
| `MCFeeds` | instance: a behaviour of the locking library, of identity, of condition or of observation | `FeedLocking`, `FeedIdentity`, `FeedCondition`, `Observation` |
| `MCFeedStates` | instance: a behaviour of the aggregate, of the administration or of states and recovery | `LifecycleAggregate`, `FeedAdministration`, `SyncRecovery` |
| `MCBackground` | instance: a behaviour of transactions, of jobs or of notifications | `Persistence`, `WorkerJobs`, `NotificationQueue` |
| `*Proofs` | theorems and proofs | the modules named under "Proofs" |

Modules whose parts share no state are composed by a variable that says which of them a
behaviour is of (`ApiServices`, `MCFeeds`, `MCFeedStates`, `MCBackground`): what one does cannot
depend on the others. Parts that do interact run together: the API and the lock manager, the
lifecycle's rules and the administration, scheduler, queue and runtime, states, checkpoints and recovery, engines,
import and repositories, accounts and catalog over one set of tables.

## How state and actions correspond to the code

* **FeedSync.** `pc[r]` is the await a request is at: `next` before the row is read,
  `found` before `acquireLock`, `locked` before `authorizeExecution`, `synchronizing` in
  `engine.synchronize`. `Finish` is that call's return together with `releaseLock`, which
  starts in the same step. `todo` is the rest of the list `triggerAllFeedsSync` read; the
  order of the list is left open. The owner of a request is its user's id, or
  `api-trigger` for all requests without one; the code passes that id as `ownerId`, so that
  several requests have one owner (`ActorOf` is any function). `shared` remembers the feeds whose
  held lock was handed to its owner again while another request worked under it. The engine the API wires up is a stub that always resolves; `EngineMayThrow` is the contract
  of the class it stands for.
* **FeedLocking.** `lockMap` and `clock` are what `FeedSync` calls `locks` and `now`. `hand[o]`
  is the lock object an owner has, which it keeps when it has released it: it may release it again,
  renew it or come with it to `authorizeExecution` (`spent` remembers the owners that are in this
  case). A feed's lock may be overwritten through any copy, because
  every operation stores what it computes from its argument. Metadata and events are left out; a version stands for `lock.version`.
  `authorizeExecution` is given the lease itself and looks nothing up, so the lease table
  is not modelled.
* **LifecycleRules.** `CanTransition` is the state machine, `Gate` the whole of
  `FeedLifecycleService.transition`: validation by identifier, guards, policies,
  decision, plan and execution. The pipeline's records are left out. Only the built-in
  guards and policies are there; the API registers no other.
* **FeedAdministration.** A request is `findUnique`, a decision, and an update; in
  between others run. `FeedState` is `mapFeedState`. The row starts with any values of
  its three columns, since only creation and reset set `syncStatus` here. The controller's
  `ParseUUIDPipe`, which would refuse the `cuid()` identifiers the schema generates, is not
  modelled: the service is.
* **LifecycleAggregate.** `shares` tells the two kinds of repository apart, and a behaviour is of
  either: `stored` is the very object a request mutates, or a copy is loaded and saved over
  whatever is stored by then. `MutateDirectly` is a convenience method called by whoever holds the
  object. `past` remembers what the aggregate has been, `overlapped` that two requests were between
  their load and their save over copies. The results of calls are left out.
* **Persistence.** `pc[c]` is what `execute` awaits: a listener (`opened`, `started`,
  `event`), a `repository`, the `commit`, the `rollback`. A target is its place in the order
  of `orderTargets`, whose cycle check can therefore not fail. Nothing in the repository but
  tests wires up the coordinator; repositories and listeners are left open.
* **WorkerJobs.** `state[j]` combines BullMQ's state of a job with the place its handler is
  at. BullMQ is external: `Take`, `BackoffEnds`, `Rejects`, `Completes` and `Crash` model what
  the worker relies on, among it that `attemptsMade` counts the attempts that are over. The
  processors in the repository are stubs; the model lets them fail either way. The delay the
  retry decision computes is not used by the code.
* **NotificationQueue.** An item is an element of `queueItems`; `pending` holds the places of
  the array a pass made with `filter` at its start, of which it delivers the first. A delivery sets the status and then tells the
  listeners, in one step. `scheduledAt` and `input.retry` are read by nothing here and left out.
* **Scheduler, WorkerRuntime, JobPipeline.** A dispatch of a trigger is one step: nothing in
  it yields to another dispatch of the same time. The id of a job is the trigger's id and the
  time, as in the code. `Enqueued` is the adapter's `enqueue`, which checks that there is an id,
  answers, and drops nothing: two jobs of one id are two. Giving a job to a consumer, and again
  after a failure, is external and modelled as BullMQ does it. In the runtime, a label
  of `pc` is the hook being awaited or the handler; what the code checked before an await and
  uses after it are two steps. The pipeline adds who takes a job and when it is given out
  again.
* **SyncState, SyncRecovery.** A state is a frozen record, so what a worker holds is a value;
  `UpdateState` and `RestoreState` make new ones. Checkpoints are in a map that all
  workers share, with a history that is only added to. `Copies` is what callers may have got
  from either and give back to `expire`, `replace` or `invalidate` at any later time. A message
  of an error is the set of kinds of words in it; the classifier's patterns and their order are
  kept, and a kind that the caller names comes before them. A plan remembers what it was made from
  (`seen`, `brought`, `discarded`), so that its reference can be judged later.
* **FeedDocument, FeedImport, FeedSynchronizers.** `step[c]` is the await an
  import is at, `phase[c]` that of the engine around it. A document is a record of what the
  parser decides by, and `served` is what the host publishes now. A host answers every request
  with one of `Outcomes`. `AwaitFails` is a rejection of the provider, of a repository or of an
  event hook at any await; `Report` is the import's last event, after which it returns. Repositories are external: rows with the unique keys of the schema,
  which any call may fail to reach. What differs between two snapshots, and what is planned
  about it, is computed by operators of `FeedSynchronizers`.
* **ApiTables, Accounts, Catalog.** A request is a record of what it asked and what it found
  so far; every awaited query is an action, and what the code does after an await is done in
  the step of the next query. Constraints are the schema's: unique keys refuse, foreign keys
  refuse or cascade. Actions that differ by table only are one action with the table as a
  parameter. Slugs are any values: also the one that `feeds.create` makes up for the channel of the
  first feed may be held by a channel that somebody gave it.
* **SearchRequests, MediaUploads, RealtimeRooms, Notices, and the auth package in Accounts.** A step is a handler
  up to its next await. Hashing, signing and transcoding are awaits without content; object
  stores, search engines and the socket server are what the code asks of them. An upload of a
  session counts in `missed` what came after it had joined the parts; a queue item remembers
  whether its notification had a date.
* **FeedIdentity, FeedCondition, Observation.** Scores are computed as in the code, in
  thousandths, so that rounding and clamping are visible. Discovery and deduplication each
  have their own normalization of text and addresses. An evaluation or an observation is a
  sequence of stages with a hook or a collector awaited in between. A runtime that was made
  without a registry has no collectors; telemetry that throws leaves heard what came before.

## Runs

`tlc -config <run>.cfg <Module>`. Seven runs pass:

| Run | Module | Checks | Shows |
| --- | --- | --- | --- |
| FeedSyncAll | `MCFeedSync` | MutualExclusion, NoOrphanLock, ImplementsMutex, RequestsEnd, EventuallyUnlocked | two requests of one account and one of another exclude each other unless the two came to share a lock, end, and leave no lock but where the engine threw |
| FeedsAll | `MCFeeds` | ExclusiveExecution, BoundedLife, AuthorizedHoldsLock, OnlyOwnerEnds; IdentitiesHold, HealthFollowsMetrics, OnlyActivationIsDenied, ObservationsHold | on an undisturbed feed the library is sound, and locks live no longer than a ttl whatever old copies are stored; verdicts about feeds follow from what is known; of what the registry permits only activation is denied, in four statuses; snapshots are whole |
| FeedStatesAll | `MCFeedStates` | NoLostTransition, ImplementsAtomic; ActivationGated; HistoriesHold, ExpiredIsOld, PlansHold | calls on the aggregate are one lifecycle over either kind of repository, and a success is overwritten only by a call beside it; activation is decided rightly for the row that is written; states come about by allowed steps, what has expired is old, retries end, and a plan's checkpoint is there |
| BackgroundAll | `MCBackground` | CallsAreWhole, CallsEnd; JobsAccounted, JobsEnd; DeliveriesCounted, FoundIsDelivered | what commits nests and is whole; a completed job has succeeded or is dead-lettered, metrics are exact; no pass delivers an item twice; calls, jobs and deliveries come to an end |
| PipelineAll | `JobPipeline` | JobPerDispatch, RuntimesHold, AnswersHold, CallsEnd | as many jobs as dispatches; undisturbed runtimes come to rest and can be reached; an answer tells what became of the job |
| ImportAll | `MCFeedSynchronizers` | AnswersAreTrue, EpisodesAccounted, CallsSettle | previews write nothing, completed means stored, changes are imported, duplicates need an overlap, requests are bounded |
| ApiAll | `MCApiServices` | TablesHold, LatestSessionWorks, AnsweredIsRecorded, UploadsAreWhole, GoneLeavesLittle, ListsHold | behind the API only races and taken slugs go wrong, and what stops halfway leaves nothing that claims to be whole |

Five runs are of what a document or a declaration of the repository says and the code does not do;
TLC finds each violated:

| Run | Module | Violates | What happens |
| --- | --- | --- | --- |
| FeedSyncConflict | `MCFeedSync` | OneSynchronizationPerFeed | a user synchronizes a feed twice at a time instead of getting the 409 of `feeds.controller.ts:86`, and then others do beside it |
| ArchivingRefused | `FeedAdministration` | ArchivingWorks | archive and unarchive (`feeds-administration.controller.ts:76`, `:88`) are refused in every state |
| ExhaustedJobs | `MCBackground` | ExhaustedIsDeadLettered | a job that fails at its last attempt is not moved to the dead-letter queue of `apps/worker/README.md:34` |
| ScheduledItems | `MCApiServices` | DatedItemsWait | what `POST notifications/schedule` put off is delivered by the next call of anybody |
| DiscardedCheckpoint | `MCFeedStates` | DiscardedIsNotNamed | a recovery plan refers to the checkpoint it reports as discarded |

A property whose name speaks of a whole is a conjunction of named parts, each with its own
comment next to it:

| Property | Parts |
| --- | --- |
| CallsAreWhole | types; ExactAnswers, ParentEncloses, SuccessesNest, SuccessIsWhole |
| JobsAccounted | types; MetricsAgree, OneOutcome |
| DeliveriesCounted | types; AttemptsTell, OncePerPass, DeliveredOnce |
| RuntimesHold | Settled, NoStrayRuntime, RunsWhileExecuting |
| AnswersHold | types; AnswersTell, SucceedsOnce |
| HistoriesHold | types; Lineage, TableFromHistory |
| PlansHold | types; RetriesBounded, NamedIsObeyed, PlansResolve |
| AnswersAreTrue | types; PreviewWritesNothing, CompletedIsStored, ChangeIsImported |
| EpisodesAccounted | DuplicatesNeedARace, CountsAgree, RequestsBounded |
| TablesHold | types; OnlyRacesGoWrong, with TakenAddressNeedsARace, SecondProfileNeedsARace, RefusedFeedNeedsARace, MissingNeedsARace, SessionOfNobodyNeedsARace |
| UploadsAreWhole | types; AssetIsWhole, DroppedIsUploaded |
| ListsHold | types; WindowsHold, QueueIsEmptied, DigestsAreOwn |
| IdentitiesHold | types; SameAddressIsRelated, EvidenceIsOneSided, VerdictsAreExplained |
| HealthFollowsMetrics | types; WorseIsNotBetter, FailureIsTold, CriticalIsExplained |
| ObservationsHold | types; SnapshotIsWhole, DiagnosticsMissNothing |

Many modules keep a history variable that no action reads and that tells apart the
behaviours the code is made for from those in which something known to go wrong has happened:
`shared` (FeedSync: the feeds whose held lock was handed out again), `spent` and `disturbed`
(FeedLocking: owners that have released the lock in their hand; feeds whose held lock was changed by
a sweeper, a supervisor, a thief or such an owner), `overlapped` (LifecycleAggregate: two calls had
copies at a time; NotificationQueue: two passes ran at a time), `serene` (Persistence: no overlap, no
rejecting listener), `interrupted` (WorkerRuntime: the consumers whose
dispatch overlapped with a stop), `together` (FeedImport: which imports overlapped) and the like. A
property that holds only in the first kind says so in its premise, and one run explores both;
what happens in the other kind is listed under "Differences" below.

### Bounds, and why they are enough

* **FeedSync**: three requests, each of any kind, two of them of one account, and two feeds;
  sync-all holds one lock after the other while single requests compete for either. Three is
  the least with which a shared lock lets in another account; the theorems cover any number of
  requests. The clock goes from 0 to 1: the code here never compares times, so it only makes locks
  differ. `FeedSyncConflict` adds a request of a third account and has one feed.
* **FeedLocking**: two owners (interchangeable) and one feed, time 0..2 with ttls of 1, so a lock
  can be acquired, run out, be renewed late, be taken by the other owner and be released with an
  old handle; versions up to 2, one renewal. Feeds do not share anything in the code but the map.
* **FeedAdministration**: two requests of every kind, all changes of a configuration, every
  initial row.
* **LifecycleAggregate**: three requests (interchangeable) over seven commands that compete for a few
  states, two of them asked for from one state, over both kinds of repository; `MaxVersion` bounds
  only the direct mutations.
* **Persistence**: three calls of two repositories, one of them made within a repository of
  another and one from outside: the smallest nesting and overlap. `DepthAssumption` bounds
  nesting to one level.
* **WorkerJobs**: two jobs with three and two attempts that compete for one handler, and two
  crashes, so that a job is lost twice, which is what BullMQ's stalled check counts.
* **NotificationQueue**: four passes over at most three items, attempts up to three, the least with which an item
  meets its attempt limit: each pass delivers its first item at once.
* **JobPipeline**: one trigger, dispatched, registered and created again, over two moments;
  two consumers, which race in creating the runtime and in using it, and one that stops it;
  two attempts, so that a job is given out again once.
* **SyncRecovery**: one worker with the states of two feeds, only one of them synchronized
  before; two copies of checkpoints and a ttl of one, so that a copy is old when it is given
  back; one retry; versions up to two; a message that has the words of a
  timeout and of a permanent failure, named so by the caller or not. Workers share nothing but the checkpoints, which copies stand in for.
* **FeedSynchronizers**: three feeds, one per kind of provider; two callers, of which the
  second imports the feed the first is at; ten kinds of calls for the first; one retry; a host
  that publishes twice. The second episode has no guid and a date that cannot be read.
* **ApiServices**: three requests over the accounts and the catalog (interchangeable, so under
  symmetry), which is a pair that races and one whose effect is stale; two searches, two uploads
  beside one transfer of two parts, a slug that may be the made-up one or not, three sockets of one session in one room, two calls about
  notifications of two users; three calls to the auth package.
* **FeedIdentity, FeedCondition, Observation**: up to three feeds are compared, out of seven ways to ask for one and three
  written lists; two evaluations, of metrics on each side of every threshold that a
  recommendation or a class depends on; two observers of a runtime with three collectors or
  without a registry.

### Fairness

Weak fairness of each call's own steps (`FeedSync`, `Persistence`, `NotificationQueue`,
`JobPipeline`, `FeedSynchronizers`): Node runs every continuation whose promise is settled, and
Prisma, engines, hosts, repositories, hooks and listeners are assumed to settle theirs. A step
that is enabled stays enabled until it is taken since nothing blocks. For `WorkerJobs` jobs
compete for the handlers, so `Take` is strongly fair: BullMQ's list is first in, first out, and
a job at its front is taken. New requests, removals, publications, clock ticks, stops and
crashes are never fair. Where calls are a fixed set and all of them may have ended, the
configuration turns the check for deadlock off.

## Differences between the code and its documents, and other facts met while modelling

Each is what the models do because the code does it. Five are shown by runs of their own (named
below). Where a property holds only without one, its premise excludes it.

Locks and lifecycle:

* `feed-lock-manager.ts:25` hands a held lock to the same owner again, where
  `feeds.controller.ts:86` documents the answer 409, "Synchronization already running or locked":
  two requests of one user, or two without a user, synchronize one feed side by side, and when the
  first ends, which releases the lock of both, others do beside the second (`FeedSyncConflict`).
  `MutualExclusion` is about feeds whose lock was not shared in this way.
* `feed-concurrency-controller.ts:46` authorizes an owner whose lock has expired and was replaced,
  since it looks at the object in the caller's hand; the report on locking
  (`docs/rss/Feed-Locking-Concurrency-Control-Report.fa.md:5`) promises one holder.
  `ExclusiveExecution` is about undisturbed feeds.
* `guard-registry.ts:38` refuses every transition into and out of the archive, so that the archive
  and unarchive requests of `feeds-administration.controller.ts:76` and `:88` are always refused
  (`ArchivingRefused`); so is a reset, whose transition the registry does not have.
* `updateConfiguration` sets `isActive` without asking the lifecycle, also of a feed whose
  synchronization failed (`ActivationGated` speaks of the other operations), and
  `buildConfiguration` lets a stored configuration win over a row that was enabled since.
* The gate looks transitions up by an identifier with underscores where the registry has
  hyphens, so it refuses every transition of a failed state that the lifecycle's document lists;
  `IMPORT_FAILED` has no transition out, though its metadata offers retry and recovery.
* `canActivate` denies what the registry permits to a feed that is importing, synchronizing,
  archived or whose synchronization failed (`OnlyActivationIsDenied` has the exact list).
* `createFailureResult` names the target of a failed transition as the current state.
* `validateLease` accepts a released lease, and `releaseLock` with an old handle overwrites the
  lock of the next owner: nothing but the owner's care keeps it from releasing twice.
* A repository that makes an object at each load loses updates, since `save` takes no version:
  `NoLostTransition` speaks of calls that did not overlap over copies, and `ImplementsAtomic` says
  what is left when they did: what is stored is what a registered transition made of something the
  feed had been.

Jobs and deliveries:

* `worker-service.ts:142` throws the last transient failure on instead of dead-lettering it, which
  `apps/worker/README.md:34` promises (`ExhaustedJobs`).
* `packages/notifications/src/index.ts:292`: two overlapping passes deliver an item twice, where
  `index.spec.ts:25` expects one delivery. `processQueue` completes an item before its listeners
  are told, so a delivery that throws is not retried, and `scheduledAt` is never read.
* A failed `PersistenceCoordinator.execute` undoes no repository: the rollback pops a context.
* `createTrigger` replaces a trigger of the same id; `dispatchTrigger` submits whatever the
  evaluation said; two dispatches of one trigger in one millisecond are two jobs of one id.
* A runtime that is stopped during a dispatch is set back to running by it; two creations of one
  kind at a time leave one runtime that nobody can reach.

Synchronization and import:

* A checkpoint's id is feed and version, so states forked from one overwrite each other's.
* `recovery/index.ts:131` falls back to the recovery policy's reference where the strategy discarded
  the checkpoint as invalid, so a plan refers to what it reports as discarded
  (`DiscardedCheckpoint`); `recovery-policies.ts:13` describes it as the most recent valid one.
* The incremental engine does not look at the import's `success`: with a provider that cannot
  download, it reports a synchronization that completed and stored nothing.
* Incremental synchronization passes options of its own to the import, so that a dry run in the
  automatic mode writes, and executes the plan of a preview; `skipPersistence` among those options
  is read by nothing (`AsksForNoWrites` says which calls `PreviewWritesNothing` means).
* The enclosure of an RSS item is dropped on the way to the stored episode.
* An import that fails at an episode keeps what it stored, and two imports of one feed at a time
  store an episode without guid twice (`DuplicatesNeedARace`).
* The health evaluator scores what it is not told as perfect.
* The identity graph joins feeds whose addresses are spelled alike, the scores those whose
  normalized addresses are alike.
* An observability runtime that was made without a registry has no collectors, so its snapshots
  have no answers; telemetry that throws at `SnapshotCreated` has heard of a completion that the
  caller never gets.

API and realtime:

* Of the refresh tokens of a user only the last that was stored can be used.
* The auth package's registration overwrites a user that registered meanwhile.
* Services look and then write; a race ends with the database's own error instead of a
  409 or a 404, and a user can be given two profiles.
* `feeds.create` makes up a slug for the channel of the first feed and does not look whether a
  channel holds it; `CreateChannelDto.slug` is any string, so no race is needed for its refusal.
* The S3 and R2 adapters of `packages/media` store nothing, and a part that is appended while a
  transfer completes is dropped with its session.
* Resuming a realtime session does not restore its rooms, and a connection that types in a room it
  never joined stays in the room's typing list.
* A notification that was put off is delivered by the next pass, whenever it was due
  (`ScheduledItems`; `notifications.controller.ts:90`).

## Proofs

Checked by TLAPS for every value of the constants.

* **LockingProofs** (`FeedLocks`, `FeedSync`, `FeedLocking`) begins with lemmas on what each operation
  returns. Of the API: `SpecIInv`: the inductive invariant `IInv` adds to `TypeOK` that a lock
  is stored under its own feed, that a request past the lookup has a feed, and that a request
  past `acquireLock` has an acquired lock of its actor on that feed; without these the next
  state's handle is not known to be a lock. `TypeCorrect` follows, and `LocksAreNotOrphaned`: a
  held lock has a request that will release it, or one at which the engine threw.
  `ExclInv` says that on a feed that is not `shared` a request under its lock has the lock of the
  table in hand (`HandleIsCurrent`) and is the only one (`Alone`); each needs the other, and both
  are inductive together with `IInv`. `Exclusion` follows. `Refinement` maps the requests in
  `synchronizing` to those inside `FeedMutex`'s section and the feeds to their `shared`:
  `Authorize` enters, `Finish` and `SynchronizeThrows` leave, all else stutters. Nothing is assumed
  of the owners: a request that is handed its owner's lock enters beside a request of its account.
  Of the library: no theorem assumes anything about third parties. `LocksAreTimely` rests
  on `TimeInv`, which bounds what is in the table and in every owner's hand.
  `ExecutionIsExclusive`, `AuthorizationMeansHolding` and `OnlyOwnersEnd` rest on `HandInv`: what
  an owner has in hand and has not released is what the table holds, unless the feed is disturbed,
  and work is done under such a lock. Its hard case is a third party that stores a lock nobody held: no
  owner can have that feed's lock in hand then, because a lock in hand is an acquired one.
* **LifecycleProofs** (`LifecycleAggregate`, `FeedAdministration`). `AggregateTypeCorrect` adds
  `Working` to the types: a request that is to apply or save has an object, and its command is one
  it was allowed to give. `AggregateImplementsAtomic` maps a mutation of the shared object and a
  save of a copy to a `Transition`, and a second load of copies to `Loosen`. It rests on
  `ParentInv`: a copy that was changed is what a registered transition makes of something the feed
  has been; and on `AloneInv`: before there was an overlap, that is what is stored. `NothingIsLost`:
  unless copies overlapped, the version exceeds the number of requests whose transition is in what is
  stored (`CountInv`). `ActivationIsGated` rests on `OldRowsTell`: the row differs from the one a
  request read earlier in `isActive` only, so what the lifecycle says of the one it says of the
  other.
* **JobPipelineProofs** (`Scheduler`, `WorkerRuntime`, `JobPipeline`). `JobsAreCounted` is inductive
  once the queue is known to be finite and its jobs to be numbered. For `RuntimesAreSound` and `AnswersAreTold` the invariant says
  which runtime a call at each await has (`PlaceInv`); that whoever starts or stops a runtime is
  there to finish (`WitnessInv`); that without overlapping creations one runtime is made and
  registered (`ReachInv`); that a consumer no stop has met executes on a runtime that is up
  (`ServiceInv`); that a handler which resolved is on its way to the answer (`OutcomeInv`); and
  that of two consumers with one job, one has failed (`DeliveryInv`).
* **SyncRecoveryProofs** (`SyncState`, `SyncRecovery`). Copies of checkpoints may be put back at any
  time, so the invariant speaks of every copy there may be: no copy is of the future or expires
  before it is a ttl old (`AgeInv`), and what was ever in the history keeps its place in the
  table (`ListedInv`). `HistoriesAreTrue` adds that the chain of a state's transitions is as long
  as its version. `PlansCanBeFollowed` adds that the retries are the attempts but the first
  (`RetryInv`), and that what a plan was made from was valid or was reported as discarded (`SeenInv`).
* **ApiServicesProofs** (`ApiServices` and its services). `ApiInv` says that a request on its way
  holds what it found, or another has changed that since, and then the two overlap: the
  `NeedsARace` parts are this at the step that goes wrong. `Moves` is the most that a step of a
  request does to the tables; every action is shown to be such a step, and each part of the
  invariant is proved of `Moves` once. Uploads, connections and the account package share no
  state with the tables and have invariants of their own; that of uploads says at each await what
  is stored by then, and that a call which completes a session holds all its parts but those it
  has missed. A feed whose channel is refused met the slug of one that was there (`held`) or has
  somebody beside it who takes it (`SlugRace`).
  `SearchesAreRecorded` and `ListsAlwaysHold` rest on what `Array.filter` makes of a list
  (`PickedElements`, `PickedOfFirst`, `PickedOfLast`): a search has no row before it records one and
  one after, its query is in its user's list from then on, and only a full list of suggestions
  leaves it out (`Records`); the items a call queued are those at its positions, which what others
  append and a pass does not move (`Queues`); and a digest is about rows of its user that are there
  when it gathers them, which are never removed (`Tells`).
* **BackgroundProofs** (`WorkerJobs`, `NotificationQueue`, `Persistence`).
  `JobsAreAccounted`: the counters are sums over the jobs of what happened to each, plus the
  dead letter that is on its way between two counters; a job that has not ended has an attempt
  left (`AttemptInv`), and one that BullMQ fails has none. `DeliveriesAreCounted`: an item has no more attempts than
  passes that found it and no longer have it before them; while passes do not overlap one runs at
  a time, and what it has before it was not delivered. `CallsStayWhole`: the stack holds calls in
  the order in which they began, and what began below a call on the stack has not committed since
  that call began (`Nested`); `Orderly` says what the stack is while calls do not overlap.
  It assumes `OwnIdsHold`, different transactions having different ids, which `randomUUID` gives;
  a caller that passes an id of its own twice gets two contexts that the coordinator itself
  cannot tell apart.
* **FeedSynchronizersProofs** (`FeedImport`, `FeedSynchronizers`). Where an import is tells what it
  has done (`Doing`): before it writes its podcast it has counted nothing, and what it has
  counted it was allowed to store. `Stored` says of the first episodes of its feed, as many as it
  is done with, that each is in the table, by this import or by what a lookup finds, and that
  those it counts are those it stored. For the races, imports that run have met (`Met`), and once an
  import has looked for the URL of its next episode whoever stores that URL runs beside it
  (`Alone`); the unique guid plays no part in this. `EngineInv` says for each phase of a call which
  engine it is of, what it has seen, and that the import it began skips the persistence if the call
  asks for no writes. `AnswersAlwaysTrue` needs both: what an engine answers is looked up in where its
  import ended. An unchanged answer follows because the snapshot of a state has no metadata and
  that of a response has the body for them, so that no difference means no body.
  Steps of an import are lemmas of their own, and `OthersStay` and `Assembles` say once why
  they leave the invariant of the other imports alone.
  `EngineAssumption` and `ImportAssumption` type what callers ask for and servers have.

* **FeedContentProofs** (`FeedIdentity`, `FeedCondition`, `Observation`). Each of the three has a
  specification of its own, of which the behaviours of `MCFeeds` are interleavings.
  `PermittedIsAllowed` is by cases of the status, over the registry's and the service's tables.
  `HealthIsSound`: the stages are told in order and none is passed without metrics; that worse
  metrics give no better health is then monotonicity, of each penalty, of their sum, and of the
  limits the status and the warnings are drawn at. `ObservationsAreWhole`: telemetry has heard of
  exactly the collectors that were asked, in turn (`Answered`, `Awaiting`), and each answer lies
  between the reading when the call began and the one of now (`Timely`), which later changes keep
  so. `IdentitiesAreSound`: every candidate was listed or discovered (`Brought`), and every verdict
  is the one of its pair. What follows is about the operators: what discovery makes of a feed is
  spelled so that the two comparisons agree on it (`DiscoveredFeed`, `LoweredAsWritten`); one
  address alone is worth 42 hundredths of 110, which is above the 35 percent of a related feed
  (`AddressesCount`); and class, level and warnings are drawn from one score (`LevelFollowsClass`).
  `FeedAssumption` says what requests and candidates are: they name an address, the spelling of
  texts and addresses is one of five, and categories are finitely many.

What a module's `TypeOK` says is part of each inductive invariant. `TypeOK` of `FeedSync`,
`LibTypeOK`, `HandleIsCurrent`, `ExpiredInTime` and the types of the aggregate and of the administration are proved and therefore no longer in a run's
configuration.

The assumptions on constants are the named ASSUMEs of the modules; TLC evaluates them in every run.

Only model-checked is liveness (`RequestsEnd`, `EventuallyUnlocked`, `CallsEnd` of two modules,
`JobsEnd`, `FoundIsDelivered`, `CallsSettle`), which is out of the prover's reach, as is ENABLED.

No module declares a RECURSIVE operator. The induction theorems of the library take operators as
parameters, which no prover here can instantiate; for `Picked` the same is reached through a set, of
the numbers up to which what is claimed holds, and the least number that is not in it
(`SmallestIn`, `SetInduction`). What the other recursive functions and the folds compute for every
input is not proved, and is checked over the inputs of the instances.

## Plan

1. Done: `FeedLocks`, `FeedSync`, `FeedMutex` and proofs; `FeedLocking` and proofs;
   `LifecycleRules`, `FeedAdministration`, `LifecycleAggregate`, `AtomicLifecycle` and proofs;
   `Persistence`, `WorkerJobs`, `NotificationQueue`; the scheduler and the worker runtime with
   the queue between them; synchronization state, checkpoints and recovery; import, parser,
   providers and retries under both engines; the API's services over their tables; search, media,
   realtime and notifications; discovery, deduplication, health, status and observability.
2. Done: theorems for every safety property of every run. To come: what the folds of the other
   modules compute, by `SetInduction`.
3. Models left: the lease table and its getters, the metadata that `updateFeed` edits,
   `runInTransaction`, several realtime servers over Redis, the templates of the notifications
   package.
4. Abstract specifications worth stating next: an exactly-once store for uploads, and a set of
   episodes per feed that an import implements where imports do not overlap.
