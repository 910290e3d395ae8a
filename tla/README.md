# OmniSource-Pro in TLA+

OmniSource discovers open-source applications on forges and package indexes,
syncs their repositories and releases into a database, generates signed feeds,
serves a cached HTTP API and tells subscribers about changes by webhook.  This
directory holds TLA+ models of its stateful parts, the TLC configurations that
check them on small instances and TLAPS proofs that hold for all instances.
Paths below are relative to the repository; `omnisource/...` is the Python
package.

- [1. The system](#1-the-system): components, state, interactions
- [2. Modules](#2-modules): how each model corresponds to the code
- [3. Runs](#3-runs): what TLC checks, with which bounds
- [4. Proofs](#4-proofs): what TLAPS proves and how
- [5. Where the code and its comments disagree](#5-where-the-code-and-its-comments-disagree)
- [6. What is not modelled](#6-what-is-not-modelled)
- [7. Plan](#7-plan)

To repeat a run: `tlc -config webhook_safety.cfg MCWebhookDelivery.tla`; to repeat
a proof: `tlapm WebhookDeliveryProofs.tla`.

## 1. The system

One PostgreSQL (or SQLite) database is the only durable shared state.  Around it
run API replicas (FastAPI), job workers (Celery, or a local queue when there is no
broker) and a scheduler; all of them are asyncio programs whose tasks interleave
at every `await`, and any job may run in the scheduler and in a worker at once
(`automation/jobs/__init__.py:19-32` gives both the same handlers).  Redis, the
search engine, the forges and the webhook consumers are external.

| component | state it keeps | operations | what is hard | correct when |
|---|---|---|---|---|
| **Webhook delivery queue** `webhooks/delivery.py` | rows of `webhook_deliveries` (status, attempts, next_attempt_at) and `webhook_subscriptions` (is_active, failure_count) | `emit_event`, `deliver_pending`, retry or death of a row | several workers; posts that cannot be taken back; one commit for a batch | no row is worked on twice at once; sent means received; dead means exhausted; every row settles; an outage shorter than the backoffs loses nothing |
| **Direct notifier** `automation/notify.py` | the same endpoint rows | `dispatch_event` | posts from the middle of other transactions | an endpoint is disabled for consecutive failures only |
| **Endpoint management** `api/routes/webhook_management.py`, `api/routes/admin.py` | the same endpoint rows | create, update, delete, test | runs at any moment of the above | stale sessions do not resurrect what it changed |
| **Repository delta sync** `crawler/sync.py`, `crawler/policies.py`, `core/repositories/release.py` | `repositories` (pushed_at, last_synced_pushed_at, synced_at), `repository_metadata`, `releases` | pass over a source, skip decision, ingestion, announcement | concurrent passes without a unique constraint; commits halfway; upstream calls that fail | no gap below the watermark, no double row, bounded announcements, every release arrives |
| **Response cache** `cache/store.py`, `cache/invalidation.py`, `api/cache.py` | memory tier per process, Redis copies and tag sets, a "Redis is off" flag | lookup, fill, purge by tag | fill racing a purge; Redis failing between two calls; restarts | staleness is bounded and ends; memory is bounded; a purge finds what it must |
| **Discovery and checkpoint** `crawler/discovery.py`, `crawler/checkpoint.py`, `crawler/filters.py` | `sync_states` cursor, `repositories` | discover a page, save the cursor | passes that overlap; a listing that changes; seven ways of paging | the cursor never stands for what was not stored; what stays listed is found |
| **Job queue and worker** `automation/queue.py`, `automation/worker.py`, `core/repositories/sync.py` | broker or a queue of the process, `sync_jobs` rows | forge webhook, retry, enqueue, run | late acknowledgement, fallback on a failing broker, death of either side | a job that was answered for is never forgotten; a job that is run has its rows |
| **Schedulers** `automation/scheduler.py`, `crawler/scheduler.py` | next due time of each task | `run_once`, `run_forever`, `stop` | a slow task delays the others | no due task starves; none is run twice for an interval; stop is heeded |
| **Source health** `crawler/source_health.py`, `core/repositories/source.py` | history rows of sources | probe, record | rounds that commit in another order than they recorded | the latest row counts the failures since the last success |
| **API rate limiting** `api/rate_limit.py` | a counter per window in Redis, a log per process | `check` | several processes; a call that fails between INCR and EXPIRE | requests through are bounded; a refused client is told the truth |
| **Connector rate limiting, HTTP** `connectors/rate_limiter.py`, `http.py`, `cache.py` | tokens, remaining, reset time; cached pages | `wait_for_token`, `update_remaining`, retry, `get`, `set` | clients that use up each other's quota; retries inside retries; calls cancelled while they sleep | limits are kept per period; a refusal is heeded; every call ends; a cached page is not too old |
| **Connectors** `connectors/*/connector.py` | none | discover, look up, releases, assets, metadata | keys made of names; pages that shift; a hand-written parser | what upstream tells apart stays apart; lists are whole |
| **Feed sync engine and publisher** `app/services/feed_sync/*` | checkpoints (ETag), application, release and asset rows | `sync_repositories`, `publish`, effects after the commit | checkpoints ride in the batch's transaction; items fail; names clash; every batch raises | no ETag is kept for what was rolled back; the fresher item is kept; a push that was not published is asked for again |
| **Catalogue rows** `crawler/sync.py` | applications, metadata, developers, licenses, categories, tags, platforms | sync a repository, announce, roll back | a rollback in the middle of a pass; names two passes insert | an application that is stored is stored whole |
| **Asset validation** `automation/jobs/validate.py`, `processing/` | status of assets, scan history | validate, scan, publish | a publication beside a validation | a verdict is on the file that is there |
| **Scores** `intelligence/` | three scores per application | compute | partial metadata, thresholds | more of anything never lowers a score |
| **Derived data** `intelligence/recommendations.py`, `security_profiles.py`, `search/indexer.py` | graph edges, profiles, search documents | rebuild, refresh, reindex | jobs that overlap and write what they read long before | fresh again after a job on its own |
| **Search** `search/service.py`, `core/repositories/application.py` | none | search, page by page | engine or database; changes between pages | filters are kept; pages have every match once |
| **Analytics** `intelligence/analytics_service.py`, `core/repositories/catalog.py` | events, download counters, materialized views | ingest, refresh, trends | lost updates, lock order | counters add up; views show one state |
| **Favourites, collections** `api/routes/favorites.py`, `collections.py` | four tables | add, remove, create, delete | requests that overlap | rows and events agree; a user alone is served |
| **Feed files, backup** `feeds/*`, `core/backup.py` | feed files, checksums, signatures; archives | generate, sign, back up, prune | death between two files; readers meanwhile; key rotation | what verifies is true; a whole backup is kept |
| CLI, configuration, logging, migrations, read-only routes | none | - | input and output | see section 6 |

Interactions: the scheduler and the workers start sync passes, deliveries and feed jobs;
a sync pass calls `dispatch_event` for each new release *inside* its own session, so a
notification commits the pass's rows; a feed publication would commit, notify the
subscribers directly (`dispatch_event`, not the queue), reindex and purge the cache, in
that order, but it raises before it gets there (FeedSync below); connectors, probes and
feed runs each build their own HTTP client and limiter and share only the upstream's
quota; the API reads the database through the response cache and writes endpoint rows
under the feet of delivery workers.

The hazards this gives rise to are listed, each at its line and with the properties
that cover it, in `PROJECT.json` under `hazards`.

## 2. Modules

### WebhookDelivery

The queue, the direct notifier and both management APIs over the same two tables.
A worker or dispatcher is a **database session**: the model keeps what SQLAlchemy's
session keeps, because the interesting behaviour comes from it.

| model | code |
|---|---|
| `endpoint`, `delivery` | committed rows |
| `batch[w]` | rows locked by `with_for_update(skip_locked=True)` |
| `todo[w]`, `row[w]` | position of the loop and its uncommitted changes |
| `view[s]` | identity map: `session.get` returns the object already read, however old; `Flush` writes only changed columns |
| `calls[p]` | position of `dispatch_event`'s loop |
| `posted`, `received`, `waited`, `streak`, `lost` | history: not in the code, used by the properties |

`SelectDue`, `PostNext` (one turn of the loop, with every outcome of the post),
`CommitBatch` are `deliver_pending`; a caller of the other two routes is
`StartDispatch`, `DispatchPost`, `CommitCall` (`dispatch_event`) or, for the callers in
`Testers`, `StartTest`, `TestPost`, `CommitCall` (the test endpoint: a get, a post and a
commit with others in between); `PostRaises` is an exception that is not an
`httpx.HTTPError` (an URL httpx cannot parse); `WorkerCrashes` the death of the
process.  A post has three outcomes: 2xx; taken in by the consumer but answered with
an error or too late; not taken in.  Time is what is left of each row's backoff;
`BackoffElapses` is the moment `next_attempt_at` passes.  The limits
`MaxAttempts`, `DisableAfter`, `EmitLimit`, `BatchLimit` are the code's own
constants as parameters; `MaxEmits`, `MaxDispatches` and `MaxLost` are bounds of
the model.  Payloads, signatures and headers are left out.  Rows are never deleted
(deletion is soft), so `deliver_pending`'s branch for a missing endpoint cannot be
reached and is not an action.  `emit_event` is one atomic action: it reads and
inserts in one transaction and rows it adds are invisible before its commit.

### WebhookContract

What the queue promises of each delivery, with two variables: it is queued once,
its consumer may take it in only while it is queued, and it settles for good, as
"sent" only if it was received.  `WebhookDelivery!ImplementsContract` maps `phase`
to the committed status (`pending` and `retrying` are both "queued") and `received`
to itself.  Settling is one step for a whole batch because it is one commit.

### RepositorySync

A pass (`sync_source`) as a session over `repositories`, `repository_metadata` and
`releases`, at READ COMMITTED: `locks` are the rows it has updated and not
committed, and a flush waits (`CanFlush`) for rows others hold, while a SELECT does
not.  `copy` and `base` are the objects and their last-read values, so `Written`
sets the changed columns only.  `stage` follows `sync_repository`: skip decision
(`Skip`, `FindChanged`, `CheckFails`), `FetchReleases` or `FetchFails`, `Ingest`
(from the first flush to the watermark), then one announcement after another, each
of which **commits the whole session** (`AnnounceCommits`, from
`dispatch_event`).  `RepositoryRaises` ends the pass: the handler in
`sync_source` rolls back, which expires every object, and then reads `source.id`
outside an await (`crawler/sync.py:119`), which raises again.  Of a listing of
`ReleaseLimit` releases (50), the notes of `NotesLimit` (20) are kept in the
metadata row, and only these make a second pass wait.

Push number k stands for a value of `pushed_at`, release k for the release that
comes with it; `late` are releases published after their push, which no
`pushed_at` shows.  `ingested` and `refreshed` are history.  The discovery run's
write of `pushed_at` is included as the other writer of the row (`Discover`).
Applications, assets and scores are written by the same `Ingest` step and have no
state of their own.

### ResponseCache

Tasks step **from await to await**; the store's lock is never held across one, so a
lock needs no variable.  A response is the version of the catalogue it was rendered
from, and `age` (history) counts the ticks since that version was superseded.
Every publication purges all `Tags`: `tags_for_app_change` returns the tags shared
by all catalogue pages with the application's own.  `remote` keeps both lifetimes
of a copy: `left`, encoded in the payload, and `ttl`, which Redis keeps.

`Miss`, `RedisAnswers`, `Found`, `Render`, `Keep`, `NotCacheable`, `Store` are the
steps of a request; `Publish`, `Clear`, `ListTags`, `Delete` those of a publication;
`LookupFails`, `StoreFails`, `PurgeFails` a Redis call that raises (after or before
Redis acted), on which the process stops using Redis until it restarts
(`_disable_redis`).  A hit in memory changes nothing and is no action.  LRU eviction
is abstracted to dropping any other entry.  `Latency`, the longest time a request
that missed takes, is an **assumption** about handlers and Redis, not code.

`Publish` is a commit that a purge follows.  The only caller of the purge is the feed
publisher, whose batches roll back before it today (FeedSync), so the runs say what
purges do and what bounds staleness without them, not how often they happen.

### ConnectorRequests

How connectors send requests: `RateLimiter`, the shared GET (`connectors/http.py`),
the GitHub client with its tenacity loop, and the feed engine's loop around that.
A `call[c]` is where one call of client `c` stands in those loops; each client is
used by one task at a time, so the limiter's lock is never contended and has no
variable.  Four kinds of clients cover the callers:

| kind | code | pays a token | learns from answers |
|---|---|---|---|
| `api` | `get_with_retry` on an API with rate headers (GitLab, Gitea, Forgejo, Codeberg) | per request | from every answer |
| `files` | `get_with_retry` on plain files (F-Droid, Flathub, winget, Homebrew, fmhy) | per request | nothing |
| `github` | `GitHubClient._make_request` | per call, not per retry | from answers that were not raised |
| `feed` | the same under `FeedSyncEngine._fetch_with_retry` | per round | the same |

`Renew`, `Spend`, `Sleep`, `Wake` are the branches of `wait_for_token`; `Handle`,
`NoAnswer`, `Breaks` what a loop does with an answer, a lost one, or any other
exception (upstream may have counted the request all the same); `Resume` the next
attempt; `Cancel` a caller's `asyncio.wait_for`.  Points in time are kept as the time
left until them.  A pause between attempts may take any time, so Retry-After and the
backoffs are covered.  The upstream API is the environment: one quota per window for
all clients, told in the headers of each answer.  `api` stands for an API that sends
both headers; one that sends its reset under another name than `X-RateLimit-Reset`
(`http.py:44` reads no other, `http.py:41` does for the count) is outside
`RefusalHeeded`.  Resets are whole ticks, so rounding of seconds is left out.

### FeedSync, FeedRules

A run of the feed job is one session.  `turns` are the repositories it has to
process, once per row of that name; `seen` is what its session sees of
`sync_states`, `pending` what it has added and not flushed, `items` what it has
parsed.  `SaveCheckpoint` updates a checkpoint and keeps the item;
`FirstCheckpoint` is the branch in which the row is new: `discovered_count` is
`None` before the flush, the addition raises, the item is lost, and the row with
its ETag is written by whatever flushes next.  `FinishEmpty` is a run with nothing to
publish, which commits what it flushed.  `Publish` is a run with items: the first of
them reads `app.repositories`, a lazy load on an AsyncSession
(`feed_publisher.py:191`; `find_existing` loads no relationship, and a row that was
flushed a moment ago has none loaded), so the batch raises and is rolled back with the
checkpoints of the run.  Nothing comes after a commit, and the model has nothing after
it; `Crash` is at any moment.  `got` is history: what runs have handed over.
Version v of a repository stands for
the payload after push v and for its ETag.  `FeedRules` has the deduplication of a
batch (`PlaceItem`, one turn of its loop) and `IsFresher`.

### Discovery, JobQueue

A discovery pass (`LoadCheckpoint`, `AskPage`, `Ingest`, `SavePage`) reads the
source's cursor, asks for the page at it, and commits rows and the next cursor
together.  `Page` has each connector's own paging: page numbers, offsets, winget's
walk over letters and publishers, and the GitHub search that takes no page.  A listing
names `Entries`; of winget an entry is a publisher, the `Folder` of which holds any
number of packages.  `WalkPage` reads publishers until the page is full and drops what
there is no room for of the last one, as `winget/connector.py:168` does.  `Relist` moves
entries upstream (a folder keeps its packages); `jumped` and `overlooked` are history:
what came to stand in front of a cursor after it was passed, and what the cursor went
past on no page, of publishers that failed or did not fit.

`JobQueue` extends it, since webhooks and passes write the same repositories: a
webhook looks a row up by full name (`Receive`), discovery by external id, and both
may insert.  `CreateJob` commits the row of the job, `EnqueueJob` hands it to the
broker or, on an exception (which may come after the broker took it), to `local`,
the queue of the process.  `Take`, `ProcessJob`, `WorkerDies`, `Redeliver` are
Celery's late acknowledgement.  Rows of `sync_jobs` are never updated.

### AsyncScheduler, SourceHealth

One loop sweeps over the tasks in order: `SkipTask`, `StartTask`, `TaskRuns` (time
passes), `EndTask`, `EndSweep`, `WakeUp`.  Points in time are kept as the time left
until them; `elapsed` is what has passed since the sweep read its clock, because the
next run is planned from that reading.  `since` and `wanted` are history.

A health round probes all sources, records their rows (`Record`: with the time it
records at, and the streak of the latest row it can see) and commits
(`CommitRound`).  `order` are the rounds by time of recording; a row that commits
after one recorded later is not the latest.  `truth` counts failures by order of
commit.

### ApiRateLimit, Library, FeedFiles, Analytics, DerivedData

`ApiRateLimit` follows one identity: `ask[r]` is a request, its INCR and EXPIRE
are steps of their own, each may fail, and the process then decides on its own
sliding log.  `told` remembers the latest refusal.

`Library` has the handlers of favourites and collections: a request reads
(other requests' rows show once committed), inserts, and commits after the handler.
`client[c].alone` is history: nobody else was under way.

`FeedFiles`: a job builds the version of the catalogue it reads, writes a temporary
file and replaces the target, channel by channel and then the alias, and may die
between any two; the daily backup dumps, archives and prunes meanwhile.  A signature
is the pair of a key and what it signs.

`Analytics`: a session counts a batch on the totals it read and writes its updates
when it commits, in the order of the keys, holding rows as it goes (`UpdateRow`); events
are a set of rows, told apart by their commit and their place in its batch;
refreshes of the views take them one after the other.  The trends of searches
(`TrendingSearches`, `PopularQueries`) are calculated from the rows; the daily series
is not modelled, since PostgreSQL refuses its query (section 5).

`DerivedData` has the three jobs that read applications, work and write at the
end: edges of the recommendation graph, search documents, and security profiles,
chosen by `kind`.  `updated_at` is the time the transaction of the last change began,
which applications of one transaction share and of which a later commit may have the
earlier; `ByUpdate` are all the orders a query by it may come in, and a page by offset
may come in another than the page before.  A refresh of profiles counts its visits, not
the applications it has met.  `sound` is history: what was derived from rows as they
are.

### Connectors, FmhyPage, GitHubListing

`Connectors` says which keys each connector makes of an upstream's entry, for its
row (`GitHubRow` and its like), its releases and their assets (`AssetId`), what a
look-up by these keys finds (`Found`), and which releases are taken in (`UpTo`).

`FmhyPage` is the page parser, tag by tag (`StartTag`, `EndTag`, `Data` folded over
`PageTags`), and the resolution of an entry; `Described` is the reference, over the
page's tree, which the parser never has.

`GitHubListing` is `get_paginated` over the client's cache: `TakeCached`,
`FetchPage`, `PageFails`, one page at a time, while `PublishRelease` and
`WithdrawRelease` shift what the pages hold and `PassTime` lets cached pages expire.

### CatalogueRows, AssetValidation, Scores, CatalogSearch

`CatalogueRows` is the rest of a pass: applications and the rows they share, which
passes of other sources insert too.  `Flush` waits for rivals that inserted the same
name, `FlushRaises` is the unique key or the deadlock, and `Abandon` what comes of any
exception: rollback, and the end of the pass, as in RepositorySync.  The next pass has a
session and caches of its own, so no cache outlives a rollback and none needs a
variable.  `AnswersOf` are the partial answers of `get_metadata`, `Filled` what is stored
of them.

`AssetValidation` follows one asset through publications (which set it to pending) and
runs of the validation job, each a session that writes the columns it changed
(`Written`).  It is an asset of one application: an asset is linked in the transaction
that commits it and nothing deletes links, so the job always finds an application for
it; of an asset that two applications share it files its scans with one of them, and
`QuarantineShown` says nothing about the other.  Publications here commit or roll back;
those of feeds, the only ones that file an asset as pending, always roll back today
(FeedSync), so what the job finds comes from elsewhere.  `Evidence` is what the scans
add up to; `SecurityStatus` and `Audited` are what the pages say.

`Scores` has the three calculations with factors in thousandths (`Trust`, `Quality`,
`Popularity`), as `ComputeScores` stores them in a sync, and the badges.  `log10` is
exact at its thresholds and rounded down between them.

`CatalogSearch` follows a client that pages through an answer: `FromEngine` or
`FromDatabase` for each page, as the request's filters and the engine's state have
it, while `Rescore`, `RunIndexing` and `EngineTurns` happen in between.  `InDatabase`
and `InIndex` are the two translations of the same filters.  An application with a fault
(`Faults`: dated releases beside undated ones, an address that is none, a platform
outside the schema) raises in the mapper, and its page or the indexing with it
(`Raises`).  The engine ranks by how near a text is (`Distance`) before it sorts.

## 3. Runs

Twelve runs; "pass" means no error in the whole state space, "violation" that the
code does what the quoted comment says it does not (section 5).

| run | instance | checks | shows |
|---|---|---|---|
| `webhook_safety` | 1 endpoint, 2 workers, 2 emissions, 2 attempts, 2 lost batches, batches of 1 | `TypeOK` `RowsExclusive` `SentWasReceived` `DeadWasExhausted` `RetryBudget` `WorkerDisablesOnDeath` | workers never share a row; statuses tell the truth; a consumer is posted to at most `MaxAttempts` times plus once per lost batch; a worker disables an endpoint only with a death |
| `webhook_shared` | 2 endpoints (one URL unusable), 1 worker, 1 dispatcher | `ImplementsContract` | with the notifier and the administrators writing the same rows, the queue keeps its contract |
| `webhook_liveness` | 1 endpoint, 1 worker, **the code's constants** (8 attempts, 20 failures) | `OutageSurvived` `EveryDeliverySettles` | no delivery dies before 30+60+120+240+300+300+300 = 1350 s of backoff; every queued delivery is sent or dead in the end |
| `sync_safety` | 1 repository, 2 passes, 2 pushes, 1 lost pass, notes of 1 release, listings of 2 | `TypeOK` `ReleasesUpToSync` `UniqueReleases` `AnnouncementBudget` | no gap below a completed release sync; of releases whose notes are kept no double row and no announcement more than 1 + lost passes |
| `sync_liveness` | 1 repository, 1 pass | `EveryReleaseIngested` | when lists can be fetched, a release that comes with a push is stored in the end |
| `sync_watermark` | 1 repository | `WatermarkHonest` | violation |
| `cache_staleness` | 2 processes, memory tier of 1, 2 keys, 1 request, 1 publisher | `TypeOK` `StalenessBounded` `EveryoneCatchesUp` | a page is out of date for less than its lifetime and two latencies, whatever is lost; every publication is seen in the end |
| `connector_requests` | 2 clients of every combination of kinds an upstream has, limit 2, quota 1, period 2, 2 attempts, 2 rounds | `TypeOK` `WindowBudget` `RefusalHeeded` `EveryCallEnds` | limits are kept but for the renewing request, a refused client stays quiet until the window ends although the others use its quota, every call ends |
| `feed_sync` | 2 repositories of the same or different names, 2 pushes each, 2 losses | `TypeOK` `CheckpointHonest` `BatchKeepsFreshest` `PushesAskedFor` | whatever fails between fetch and rollback, no ETag is kept for what was not published, the one whose save raised excepted; the fresher item wins; a push that could be published is asked for again and again |
| `ingestion` | discovery: 2 passes, 2 entries (one a publisher of 2 packages), 3 kinds of connectors; jobs: 2 requests, 2 workers, 2 faults; scheduler: 3 tasks; health: 2 rounds, 2 sources | `TypeOK` `CursorHonest` `JobsAccounted` `StreakHonest` `ScheduleKept` `IngestionProgress` | cursors stand for what is stored; no accepted job is forgotten; streaks count; no task starves or runs twice; and listed packages, brokered jobs and a stop all come to their end |
| `discovery_cursor` | GitHub, 3 packages, pages of 1 | `CursorHonest` | violation |
| `catalogue` | twelve parts, below | `TypeOK` and eight invariants, below | what the catalogue stores and answers is true of what it was made from |

**Unions.**  `ingestion` and `catalogue` hold one instance each of several modules
that share no state.  The variable `part` says which of them a behaviour shows; the
others keep their first state, so the states of the parts add up and do not
multiply.  Only discovery and jobs share a table, and there they are composed:
`OnePass` lets a discovery pass run beside the webhooks that write the same rows.
An invariant of the union is the conjunction of the parts' own:

| invariant of `catalogue` | parts, and what each says |
|---|---|
| `LimiterHonest` | *limit*: in any window's length a client gets one quota for each key it was counted on and one for each process that decided alone (`Budget`); who waits as long as a refusal says is let in by whoever refused (`RetryAfterKept`) |
| `LibraryHonest` | *library*: a favourite has the event that made it and none that removed it, and a second removal overlapped the first (`FavoritesCounted`); a request with nobody beside it is never refused by a constraint and counts what it lists (`AloneIsServed`) |
| `FilesHonest` | *files*: wherever a job stops, each published path holds a whole feed that verifies (`FeedsVerify`); once an artifact is whole there is a whole one to restore from, unless `Keep` runs have ended half-way since (`BackupKept`) |
| `DerivedFresh` | *derived*: after a job on its own an application's edges, document and profile are as their definitions say, for every application the job has met |
| `RowsHonest` | *rows*: a committed application has all its repository names (`AppsWhole`), what was filled in stays (`RicherKept`), a repository fails over a name only if another source's pass inserted it meanwhile (`FailuresExplained`) |
| `AssetsHonest` | *assets*: a status is a verdict on the file that is there (`StatusTrue`), a quarantine is shown (`QuarantineShown`), and a flag has its cause (`FlaggedForCause`) |
| `UpstreamRead` | *connectors*: `SourcesHonest`, keys told apart; *page*: `PageHonest`, FMHY's parser against a definition over the page's tree; *listing*: `ListingHonest`, lists of GitHub releases read while they change |
| `ComputedHonest` | *analytics*: `AnalyticsHonest`, counters against the recorded downloads, views of one refresh, trends against popular queries; *scores*: `ScoresHonest`, ranges and monotony; *search*: `SearchHonest`, filters, pages, and the two backends |

**Bounds.**  Two workers (passes, processes, sessions) are the smallest number that can
interfere; the properties relate one row and at most two sessions.  Two emissions
(pushes) give a row of the past and one of the present.  Two attempts reach a first
failure, a retry and a death; `webhook_liveness` uses the real number because its sum is
what is checked.  `MaxLost = 2` loses a batch, retries it and loses it again. A memory
tier of one entry with two keys makes every fill evict.  `Horizon` is the bound of
`StalenessBounded`, so an age one too old is visible; the bound is tight (a smaller one
is violated).  In `sync_safety` a listing has one release more than there are notes, as
the code's have thirty: the exemption of `UniqueReleases` and `AnnouncementBudget` is
met, and the two passes do insert such a release twice (section 5).  In
`connector_requests` a quota below the limit makes refusals happen, two attempts a retry
and an end. In `feed_sync` the two repositories may share a slug, one fetch may be lost
and one batch rolled back.  In `ingestion` a page holds one package and a listing two
entries, so that every connector turns a page and comes to the last one, and one
publisher of winget has a package more than its page; three tasks with intervals 1, 3
and 2 give a sweep in which a task is due after one that was slow. In `catalogue`: a
window of two seconds and a quota of one refuse the second request; `Keep = 2` with
three backups prunes; two batches meet on one counter; worlds are chosen so that entries
share a number, a path, a name or an asset's name; passes of two sources insert the same
tag and platform in another order, beside one that was there and one the pass made
itself; `MaxChecks = 12` is the number of clean scans after which the score tips over; a
list of releases has pages of one and a lifetime of one tick, so that it mixes cached
pages and new ones; portraits differ in one field on either side of each threshold;
pages of one row show every overlap.

**Fairness** is stated only where the code schedules.  `WF(Deliver(w))`:
`automation/scheduler.py` runs the delivery job every minute and a job runs to its end;
`WF(BackoffElapses(d))`, `WF(Tick)`: time passes; `WF(Work(p))`: the scheduler starts a
pass every SYNC_INTERVAL_HOURS; `WF(Proceed(q))`: the event loop runs tasks that can go
on, and every HTTP request ends by its timeout; `WF(Work)` of FeedSync: the feed job is
started again and again and runs on until it ends or raises; `WF(Discover(p))`: so is
the discovery job; `WF(Work(w))` of JobQueue: a Celery worker that is idle takes what
the broker holds; `WF(SchedulerStep)`: the loop goes on, and a task ends (`MaxDuration`,
an assumption about the jobs).  In the union each is fairness of the part's own step.
Nothing is assumed of consumers, administrators, purges or upstream.  Losses are bounded
(`MaxLost`, `MaxFaults`): a batch that is lost for ever settles nothing.
`sync_liveness` assumes `FetchMayFail = FALSE`, because section 5 shows that one failed
fetch hides a release until the next push.

**Deadlock** is checked in the sync, cache, connector and feed runs.  It is off in the
webhook runs, where all emissions may be settled and no administrator need act, and in
the unions, where an instance stops at its bounds.

Every property of a passing run has a mutant (operators named `Definition_Change`
next to the definition): a plausible bug under which TLC finds that property
violated; an invariant of a union has one for each part.

## 4. Proofs

The theorems hold for every value of the constants under the named assumptions of
the modules each proof module extends (`ParametersAssumption`, `DiscoveryAssumption`,
`JobQueueAssumption`, `SchedulerAssumption`, `RateLimitAssumption`,
`FeedFilesAssumption`, `LibraryAssumption`, `RowsAssumption`, `AssetAssumption`,
`DerivedAssumption`, `SearchAssumption`, `ConnectorsAssumption`, `ListingAssumption`,
`AnalyticsAssumption`, `ScoresAssumption`; that of SourceHealth is not needed).
Every one is evaluated by TLC in a run.

| theorem | states |
|---|---|
| `WebhookDeliveryProofs!TypeCorrect` | `Spec => []TypeOK` |
| `WorkersNeverShare` | `Spec => []RowsExclusive` |
| `SentIsHonest` | `Spec => []SentWasReceived` |
| `DeadIsExhausted` | `Spec => []DeadWasExhausted` |
| `PostsBounded` | `Spec => []RetryBudget` |
| `WorkersDisableOnDeath` | `Spec => WorkerDisablesOnDeath`, an action property |
| `OutagesAreSurvived` | `Spec => []OutageSurvived` |
| `QueueImplementsContract` | `Spec => ImplementsContract` |
| `ResponseCacheProofs!TypeCorrect` | `Spec => []TypeOK`, the bound of the memory tier included |
| `Staleness` | `Spec => []StalenessBounded` |
| `ConnectorRequestsProofs!TypeCorrect` | `Spec => []TypeOK`: no bucket overdrawn, no loop past its attempts |
| `LimitKept` | `Spec => []WindowBudget` |
| `RefusalsAreHeeded` | `Spec => []RefusalHeeded` |
| `RepositorySyncProofs!TypeCorrect` | `Spec => []TypeOK` |
| `NothingMissed` | `Spec => []ReleasesUpToSync`, whatever the limits |
| `StoredOnce` | `Spec => []UniqueReleases`, whatever the limits |
| `AnnouncedWithinBudget` | `Spec => []AnnouncementBudget`, whatever the limits |
| `FeedSyncProofs!TypeCorrect` | `Spec => []TypeOK` |
| `BatchFreshest` | `Spec => []BatchKeepsFreshest` |
| `CheckpointsHonest` | `Spec => []CheckpointHonest` |
| `IngestionProofs!CursorsAreHonest` | `DiscoverySpec` and `IngestionSpec => []CursorHonest`, if `"github" \notin Connectors` |
| `NoJobForgotten` | `IngestionSpec => []JobsAccounted`, of requests and workers beside discovery passes |
| `NoTaskStarves` | `SchedulerSpec => ScheduleKept` |
| `StreaksAreTrue` | `SourceHealthSpec => []StreakHonest` |
| `CatalogueProofs!LimitHolds` | `RateLimitSpec => []LimiterHonest` |
| `FilesAreHonest` | `FeedFilesSpec => []FilesHonest` |
| `LibraryIsHonest` | `LibrarySpec => []LibraryHonest` |
| `SearchIsHonest` | `SearchSpec => []SearchHonest` |
| `SourcesAreHonest` | `ConnectorsSpec => []SourcesHonest` |
| `AnalyticsAreHonest` | `AnalyticsSpec => []AnalyticsHonest` |
| `ScoresAreHonest` | `ScoresSpec => []ScoresHonest` |
| `RecordProofs!RowsAreHonest` | `RowsSpec => []RowsHonest` |
| `VerdictsHold` | `AssetSpec => []AssetsHonest` |
| `DerivedIsFresh` | `DerivedSpec => []DerivedFresh` |
| `ListingsAreHonest` | `ListingSpec => []ListingHonest` |

*Queue.*  None of the properties is inductive: they speak of committed rows, but a post
happens long before its commit.  `IInv` says what a worker's copies are meanwhile: rows
not yet posted equal the committed rows; posted ones are the committed row plus exactly
one attempt (`CopiesFollowRows`), which needs that nobody else holds the row
(`RowsExclusive`) and that a queued row has an attempt left (`AttemptsLeft`);
`PostsAccounted` charges every post to the committed row, to the copy in the hands of
one worker or to a lost batch.  One lemma per action shows that it keeps `IInv`;
management and dispatchers do not touch what it speaks of (`QueueUntouched`).  The
refinement then needs one lemma each for emission, post and commit; every other step
leaves the contract's variables alone.  That a commit disables an endpoint only with a
death is about copies too: a worker's copy differs in `is_active` from what it read only
if a row of that endpoint, posted in this batch and still in it, is dead in the worker's
copy (`DisablesForDeath`).  Only `_schedule_retry_or_deadline` can make them differ
(`OnlyDeathDisables`), and copies and batch end together. For outages, `WaitsFollow`
says that what a delivery has waited, and has still to wait, makes up the backoffs of
its attempts.  Their sum is a recursive function: that it is what it says, up to any
number of attempts, is an induction (`BackoffsDefined`), and since the library's
induction theorems cannot be instantiated it goes by the least number of which the claim
fails (`LeastOf`, `Inductive`).

*Cache.*  `IInv` is `TypeOK`, "the current version has age 0" (`CurrentIsNew`) and
three bounds on age plus remaining lifetime, weakest where an entry has travelled
furthest: a request holds a version at most as old as it has waited
(`RequestsYoung`), Redis at most a lifetime and one latency (`RedisYoung`), memory a
lifetime and two (`MemoryYoung`).  Time is the only step that ages anything, and it
takes from the lifetime what it adds to the age.

*Connectors.*  `IInv` has one part per client: a call that may still send has an
attempt left (`AttemptLeft`); the limiter's period and the one the history counts in
coincide, and tokens granted and left add up to the limit and the renewing request
(`Aligned`); the reset time of an answer is that of the window, unless it has ended
(`AnswerFresh`); a refused client has no token until the window ends, sleeping or not
(`Barred`).  A step of one client leaves the others' parts alone (`OneClientSteps`),
so each action is looked at for its own client only; time moves all of them at once.

*Sync.*  `ReleasesUpToSync` compares what is stored with the watermark, but a pass
works on copies: the watermark it will write is in its object, the releases it has
inserted are in its session.  `NothingAhead` keeps every copy at or behind upstream;
`NoGap` says of every session what `ReleasesUpToSync` says of the rows: what came
with a push up to its copy's watermark is stored, is among its inserts, or has been
pushed out of the listing.  `StoredOnce` is about a lock: `InsertedAlone` says that a
pass with an uncommitted insert of a release that is among the kept notes holds the row of
the repository's metadata (`Guard`), so that no other can insert the same: the notes are of
stored releases only (`NotesInSession`), so a new release among them changes the row of
the metadata, which the pass then holds.  A release that was past the notes
of a listing stays past them, since releases only become more.
`AnnouncementsAccounted` charges every announcement to a committed release, to one
still to be told of, or to a lost pass.

*Feed.*  `BatchInv` says of the loop of `deduplicate_batch`, between two items, that
the keys of what is kept lead to it and every key to an item of its slug (`Indexed`),
and that each item seen has one of its slug kept that is as fresh (`Covered`).
`HonestInv` says what a session may hold for `CheckpointHonest` to survive its commit: the
rows that a flush adds are of pushes whose first save raised, and what a session sees is
what is committed, and such rows, until it has an item.  A session with items is never
committed.

*Discovery.*  `CursorHonest` speaks of checkpoints, but a checkpoint is written from a
cursor read long before, of a listing that has changed since.  `CursorInv` therefore
says it of every cursor in sight (`Frontiers`): what lies before it is stored, in the
page in the pass's hands, in front of it by an upstream change (`jumped`), or passed by on
no page (`overlooked`, and `missed` of a page in hand).  The
lemmas about paging (`NumberedNext`, `SlicedNext`, `WalkedNext`) show that what lies
before the next cursor is what lies before this one and the page.  GitHub's search
takes no page and is excluded: there the property fails (section 5).

*Jobs.*  `JobsAccounted` speaks of jobs that are on their way, so `JobsInv` has to say it
of every recorded one (`JobsKnown`), and of a request between its commits: about to
record a job, it has the repository's row; about to send one, the job's
(`RequestsKnown`).  Known rows never become fewer, of whichever table, which is all
that discovery beside it has to grant.  What workers do is one lemma (`WorkerStep`):
jobs change places, none leaves all of them.

*Scheduler.*  The time since the sweep read its clock is at most what the tasks
before the current one take (`Elapsed`).  Relative to that clock, a task the sweep
has passed is not due yet, so that at the next reading no task is more than a sweep
late (`Punctual`).  For the other bound, what is left of an interval and what has
passed of it add up to the interval, less the time by which the task was started
after the clock (`Apart`).

*Health.*  A round that has met no other is the only one and is never outdated, and
the rows it has recorded continue the latest ones (`Undisturbed`): a commit by
another round would have had to meet it.

*Limits.*  A client's budget adds up what two kinds of bookkeeping let through.
`KeyCounts` says of each window that, until it is over, its key is there and its
counter is at least the number of requests Redis let through in it, the one about to
set the expiry included; `LogCounts` says of each process that its log holds every
request it let through within a window's length, so there are at most a quota of
them.  A decision that falls into any window's length was made by a process or on one
of at most two keys.  `RefusalStands` keeps the reason of the latest refusal in sight
until the second it promised has come.

*Files.*  A path is good because what is moved onto it is: a feed in a job's hands is
whole and verifies (`Sound`), and a temporary file belongs to the one job that is at
that path (`TempsOwned`), so that no other job's write can come between.  For backups,
`WholeOne` counts: with n artifacts begun since the latest whole one, that one is
n places from the end, and is there as long as n is below `Keep`; pruning takes from the
front only.

*Library.*  A favourite and its events are in one commit, but two requests may have
read before either writes.  `Fresh` says of a request that nobody came in
front of that what it has read still holds; `Numbered` that ids are distinct, those
about to be inserted included; `EventsKept` that a row has the event of its addition
and that what two removals share is an overlap.  A slug is chosen among names
not taken, which exists because there are more numbers than collections (`FreeSlug`).

*Rows.*  `RowsInv` says of a repository at work that each of its names is there, about
to be inserted or still to be taken, and of the open transaction that committing it keeps
the properties.  A conflict is with a name that was not there when it was looked for, and
names only become more: the pass that inserted it has committed since, and is another's.

*Assets.*  A validation's verdict is on the file that is there unless a publication
has committed since (`Judged`), and a publication that overlapped nothing has read
the row as it is.  A scan without a finding adds three to the risk, hence the twelve.

*Derived.*  What a job will write was worked out from rows it read long before, so
`DerivedInv` says of every session what `DerivedFresh` says of the tables, and of what
it has read instead of what is there: the edges it will write are those between the
applications as it has read them (`GraphHonest`), and so are its profiles
(`ProfilesHonest`).  What it has read holds unless it was changed since (`Faithful`),
which is when a commit makes nothing sound.  Edges survive another job's commit because
that replaces only edges between pairs it has looked at.

*Search.*  A reader whom nothing has disturbed has the pages before its own of one and
the same order (`ReadSoFar`): the engine's, which exists because any finite set can be
sorted (`SortedExists`, by induction on its size), or the database's, of which there
is one where no rows tie (`SortedOnce`, at the first place where two differ).  A page
more makes one prefix of the order the next (`NextPage`), and by the page whose number
exceeds that of the applications the prefix is the whole.

*Sources.*  A stored row keeps the keys its entry had when it was discovered
(`RowsMade`).  Those of the other sources never change; FMHY's do when a namesake
appears, so a row of FMHY has one of the three forms its entry may ever be called by
(`FmhyNames`), and none of those is the present name of another entry unless one name
reads as another with its platform (`CalledOnce`).  That a fetched release keeps its row
needs that no later fetch writes another row under its key (`ToldOnce`): keys of two
entries differ, and the ids of Homebrew's, where a formula and a cask may share a row,
contain the tag.

*Listings.*  Publishing moves releases down a page's places and withdrawing moves
them up, so the pages read make a list only as far as nothing has moved: what is
listed or still to come covers what was there when reading began unless a release has gone
since (`Covered`), and what is still to come is not listed yet unless one was
published (`Unrepeated`).  An entry of the cache is upstream's page as it would be now
unless something has changed since it was made (`Kept`), and one that may still be
used was made no longer ago than answers are kept: where nothing has changed since
then, the pages so far are the front of upstream's list (`Quiet`).

*Analytics.*  A session adds its batch to the counter it read, and between the two
another may have written: what it read is what the counter is unless that application's
is marked as raced (`HoldsTrue`), and then the counter only falls behind, since the rows
of the events are inserted and never updated.  All refreshes begin with the first view,
whose lock the first of them keeps, so only one session has any (`TakesInOrder`), and
its listings are of readings in order, none before the stored ones (`InOrder`).

*Scores.*  What is stored was calculated from the portrait, with no contributors if the
answer had no metadata (`ScoresInv`).  Each part of a weighted sum grows with what it
measures (`ThreeSteps` and its like for the stepped ones), hence the sum and its rounding do
(`TrustGrows`, `QualityGrows`, `PopularityGrows`); the ranges are the sums' least and
greatest values.

The runs `ingestion` and `catalogue` check the same properties on small instances of
these specifications, `ingestion` with one discovery pass beside the requests and workers.

*Only model-checked.*  Liveness (fairness and ENABLED are beyond the prover); of the parts
of `UpstreamRead`, `PageHonest`, whose parser is a fold over the tags of a page and
whose claim is an induction over that data; and `TypeOK` of the two unions, which only put
the parts' type invariants side by side.

## 5. Where the code and its comments disagree

Two have a run that TLC finds violated.

| run | the text | the code |
|---|---|---|
| `sync_watermark` | "pushed_at as of the last successful release sync" (`core/models/repository.py:71`) | `_can_skip` moves it before the releases are fetched, and a failed fetch returns normally (`crawler/sync.py:172`) |
| `discovery_cursor` | "Get page from cursor if available" (`connectors/github/connector.py:101`) | the page is worked out and never passed on (`:112`): every pass reads the first page while the cursor moves |

More of them are stated as properties next to the others, without a run of their own:
TLC finds each violated when it takes the place of the properties of the run given.

| property | run | the text | the code |
|---|---|---|---|
| `OneRowPerRelease` | `sync_safety` | "Create or update a release; returns (release, created)." (`core/repositories/release.py:57`) | no unique key; two passes that find a release past the kept notes missing both insert it, and announce it |
| `RefreshedWithinMaxAge` | `sync_safety`, with `MaxAge = 1` and `MaxTime = 2` | "force refresh at least weekly" (`crawler/policies.py:19`) | a skip sets `synced_at`, the clock the refresh is measured by |
| `AskedOnce` | `feed_sync` | "subsequent runs only process repositories that actually changed" (`sync_engine.py:17-18`) | every batch raises at `feed_publisher.py:191` and is rolled back with its checkpoints: each run fetches the same payloads again and publishes none |
| `WalkLeavesNothing` | `ingestion`, with `Connectors = {"winget"}`, `MaxMoves = 0`, `MaxLost = 0` | "resumable discovery" (`crawler/checkpoint.py:15`) | a full page of winget drops the other packages of the publisher it stops at (`winget/connector.py:168`), and the cursor goes past them (`:192`) |
| `PassGoesOn` | `catalogue` | "One bad repository must not abort the whole pass." (`crawler/sync.py:109`) | the handler reads `source.id`, which the rollback has expired (`:119`): the pass ends |
| `RefreshReachesAll` | `catalogue`, with `RefreshLimit = 4` and `MaxTouches = 0` | "Refresh profiles for all active applications" (`intelligence/security_profiles.py:207`) | pages by offset of an order that leaves ties open, and that changes between pages: one application is visited twice, another never |
| `ScoreInRange` | `catalogue` | "always an integer in [0, 100]" (`core/models/security_profile.py:30`) | six signals of 20 give 120 (an organization is verified only in the database) |
| `AtMostMaxAttempts` | `webhook_shared` | "8 attempts" (`webhooks/__init__.py:12-13`) | an URL httpx cannot parse raises out of the batch loop (`webhooks/delivery.py:177`), and the others of its batch are posted again on every run; so are those of a batch whose worker dies |
| `DisabledAfterConsecutiveFailures` | `webhook_shared` | "after %d consecutive failures" (`automation/notify.py:98`) | `failure_count` is read when the dispatch starts and written at its commit |
| `EveryResponseRegistered` | `cache_staleness`, with `Ttl <- MCTtl` and `Horizon = 4` | "every cached response key is registered under the tags that should invalidate it" (`cache/store.py:5-6`) | storing a short-lived page sets the lifetime of the tag sets to its own; and with the run's own values, a purge deletes the tag sets with a member it has not listed |

The others were met while modelling.  Where a definition shows one, it is named; a
property that a definition exempts from one says so in its comment.

*Webhooks.*  The first retry
comes after 30 s where `webhooks/__init__.py:12` says 15 s; `emit_event` applies its
page limit before the event filter (`webhooks/delivery.py:80`); `dispatch_event`
writes no delivery rows although `webhooks/__init__.py:11` has it so; a soft-deleted
endpoint is still posted its queued deliveries (`webhook_management.py:161`).

*Sync.*  A partial answer of upstream sets the number of contributors to 0
(`Enriched`).  The breaking-change flag compares the wrong way round: releases come
newest first, and `crawler/sync.py:224` passes the newer one as the previous.  Every
new icon URL adds another primary icon; two full names with one slug fail for ever.

*Feed pipeline.*  The first checkpoint of a repository raises, because
`discovered_count` is `None` before its flush (`FirstCheckpoint`), where the
docstring at `sync_engine.py:163` has it saved.  It cannot "pause until the upstream
rate limit resets" (`sync_engine.py:184`): `github_provider.py:90` and `:99` call
properties of the limiter as functions, the TypeError is swallowed and the pause is
always 60 s (`Resume`, `Pause`).  A failed release fetch discards the item although
`sync_engine.py:222` says it must not.  No publication commits
(`Publish`), so nothing that is to follow one (announcing, indexing, purging) ever does,
and neither does the incremental indexing of what was published; what readers get comes
from the crawler's passes and the full reindexing.  Two repositories with the same name
share a slug, and the one kept is the fresher.

*Cache and limits.*  The API limiter
counts a late request on a key whose window is over; an INCR whose EXPIRE failed is
counted again by the process.  The GitHub client raises on a 429 before it looks at the
headers (`connectors/github/client.py:303`), so its limiter never learns of it; its
branches for 403 and 404 cannot be reached, since these are returned and not raised;
and a token is taken for a page that is in the cache.

*Jobs, schedule, health.*  Rows of `sync_jobs` never leave PENDING: `mark_*` of
`core/repositories/sync.py` has no caller.  A job that falls back to the queue of
the process is never run: nothing starts `AsyncWorker.run`.  A job that is retried
by an administrator is sent with the type "SyncJobType.X", which no handler has
(`HasHandler`).  `run_sync` swallows `full_name`, so the webhook's job syncs the whole
source.  Two first passes leave two checkpoints, after which every look-up raises
(`Jammed`).  A repository a webhook recorded has its name as external id, so
discovery adds a second row.  `stop()` before `run_forever()` is forgotten.

*Connectors.*  GitHub and GitLab sort releases by `published_at or datetime.min`,
aware dates beside a naive one, which raises (`Unsortable`); the mapper of an
application does the same, and raises as well over an asset's empty address (which
`crawler/sync.py:515` stores), a homepage that is no address and a platform outside the
schema (`core/repositories/mappers.py:193-221`): one such application makes its page,
every list it is on and the whole reindexing raise (`Raises`).  FMHY's "Stable unique
external id" (`connectors/fmhy/connector.py:511`) changes when a namesake appears.
GitLab's release id is its title; all of Flathub's releases share one asset;
Homebrew's source files share an id when they share a name; Homebrew and winget rows
cannot be looked up again (`Found`); a formula hides a cask.

*Validation and trust.*  Every asset that passes the crawler is
never looked at by the scanner, since only the feed's are pending.  Each clean reputation
look-up adds three points of risk, so a file validated twelve times is "flagged"
(`FlaggedForCause`), while one that is quarantined by the static scan alone is
"review_required".  The ratio of valid assets is a constant that meets the threshold
of the VERIFIED badge, which therefore every scored application has
(`ScoresRange`).

*Search and derived data.*  `open_source=on` is no for the engine; unknown is open
source for the engine only; a category's type is matched by the database only; a
developer's name in no useful way by the engine (`BackendsAgree` exempts these).  Sorts
have no last key, so rows that tie may be shown twice or never (`Ties`); a client may
get one page from the engine and the next from the database.  An older reindexing
overwrites newer documents and none are removed; stale edges stay; `related_apps` always
raises, since it reads the subject's categories and tags lazily on an AsyncSession
(`intelligence/related_apps.py:98`).  Overlapping profile refreshes roll back a whole
batch.

*Analytics, library, files.*  Overlapping batches lose download counts
(`analytics_service.py:134`; `raced`).  The daily series selects `occurred_at` and
groups by its date (`analytics_service.py:175-179`), which PostgreSQL refuses.  The
fallback of a refresh runs in an aborted transaction (`catalog.py:73`; `RefreshFails`).
Overlapping removals of a favourite record it twice; overlapping additions answer 500.
Half-written archives count as backups (`BackupKept` bounds what that costs), and
archiving the feeds fails when a temporary file vanishes meanwhile.

## 6. What is not modelled

- Command line, configuration, logging, metrics, migrations, schemas, read-only
  routes: input and output.
- Strings: platform and category detection, the license table, changelog wording,
  versions, descriptions, URLs.  Models take their results as data.
- Code nothing in the product calls: `processing/validation/integrity.py`, `osv.py`,
  typosquat detection and the YARA scan; `mark_*` in `core/repositories/sync.py`;
  `AsyncWorker.run`; `FeedPublisher.deactivate`; `invalidate` of
  `connectors/cache.py`; `summarize_range`.
- `related_apps` and the daily series of `analytics_service.timeseries`, which cannot
  answer (section 5).
- Semantic reranking (an optional model) and the collaborative signal, which reads
  interactions nothing stores.
- In RepositorySync: the list limit of 5000 repositories; a `pushed_at` that
  upstream does not give; two repositories waiting for each other's rows (the
  database aborts one of the passes, which is `RepositoryRaises`).
- In CatalogueRows: two passes of one source (RepositorySync has them), releases and
  assets other than the platforms they name, the caches of a pass, which no rollback
  outlives.
- In FeedSync: overlapping runs (only the scheduler starts the job), parsing.
- In ResponseCache: ETags, headers, which path has which tags and lifetimes, the
  size limit (`NotCacheable` is any of these), a pass of purges that overlaps
  another's by the same publisher.
- In GitHubListing: a contributor list's limit of ten pages, 304 answers (the
  client sends no ETag with a page).
- In WebhookDelivery: signatures and payloads; listings.

## 7. Plan

Done: the queue, its contract and proofs; the sync passes; the response cache and
its proofs; connector requests and their proofs; feed runs; discovery; jobs, the
scheduler and health rounds and their proofs; the catalogue's twelve parts; the
proofs of the sync passes, of feed runs, of discovery, and of every part of the catalogue
but FMHY's page.

Left:

1. `PageHonest`, which is model-checked: its folds over tags and parts would have to be
   rewritten as recursive functions before a proof could go by the least number.
2. What follows a feed publication (announcements, indexing, the purge of the cache), once
   publications commit.
3. Changelogs: the breaking-change flag against a definition over version pairs.
