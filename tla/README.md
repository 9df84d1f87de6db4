# Verification of ROOOMTECH Decision Core

This directory models the stateful parts of ROOOMTECH Decision Core (RTDC) in
TLA+, checks them with TLC and proves the most important results with TLAPS.
Paths such as `app/atomic_catalog.py` are relative to the repository's `src/`.

Each claim below is one of three kinds:

- **proved**: a theorem that `tlapm` checks, for every value of the constants;
- **checked**: TLC explored every reachable state of a bounded instance;
- **replayed**: a configuration of section 6, with which TLC prints a behaviour of
  the code that lacks a property a reader might expect.

## 1. Inventory

RTDC is a FastAPI application. A server process runs one asyncio event loop and
some worker threads; several processes (`uvicorn --workers n`, or several
machines with shared storage) share SQLite files, an object store and Redis.
Each SQLite store holds one connection per process behind a lock, or opens one
per operation. An operation that writes is one transaction, except for the
`SELECT`s before its first write; an operation made of several calls is not.

| Component | State | Operations | Who else touches it | Status |
|---|---|---|---|---|
| Web change workflow, `app/web_change_management.py` | connectors, schedules, audit runs, link proposals; the pages of a WordPress site | `stage_audit`, `approve`, `reject`, `apply`, `approve_and_apply`, connector and schedule routes, scheduler loop | concurrent requests, other processes, editors in WordPress | modelled: `WebChange`, `WebSchedule` |
| Atomic catalogs, `app/atomic_catalog.py`, `app/shared_object_store.py` | generations with leases, the active pointer, artifacts, build files, open searchers | create, claim, heartbeat, build, upload, `mark_ready`, activate, rollback, search | a worker thread per process, operators, readers | modelled, except the S3 backend and ranking: `AtomicCatalog` |
| Bulk imports, `app/candidate_bulk_import.py` and its API | jobs with leases, counters, cursor and snapshot id; failure rows; the catalog | create, retry, pause, resume, cancel, claim, batch, checkpoint, finish, fail | a worker thread per process, operators | modelled: `BulkImport` |
| Map/reduce, `app/mapreduce.py`, `app/distributed.py`, `app/mapreduce_worker.py` | a Redis list of shards, a hash of counters per job; tasks, semaphore and queue of a call | submit, `BLPOP`, map, count, reduce, complete, expire, `run`, `stream` | workers of any process | modelled: `MapReduceQueue`, `MapReduceEngine`, `MapReduce` |
| Fast path and profile registry, `app/fastpath.py`, `app/profile_registry.py`, `app/realtime.py` | compiled profiles in memory and in Redis, pub/sub events, a bounded scheduler, streams | compile, save, delete, listen, load, decide, batch, stream | every process | modelled: `FastPath` |
| Enterprise control plane, `app/enterprise_store.py`, `app/enterprise_api.py`, `app/tenant_resources.py` | projects, keys, daily usage, audit rows, deployments and their history, ownership | authenticate, count, audit, create, update, issue and revoke keys, promote, roll back, realtime connections | every process | modelled, except usage reports and retention: `TenantRegistry`, `ControlPlane` |
| Dataset and review stores, `app/dataset_store.py`, `app/review_store.py`, `app/tenant_api.py` | datasets, examples, reviews, lineage records | create, add, import, resolve, purge, train, delete | project requests, graphs | project API modelled: `TenantData` |
| Candidate catalogs, `app/candidate_catalog.py`, `app/candidate_catalog_ops.py` | items, features, snapshots | create, delete, upsert, search, snapshot, restore, rebuild | requests, imports, builds | modelled: `CandidateCatalog` |
| Decision graphs, `app/decision_graph.py` | graph versions, runs and their waves | validate, put, run, replay | requests, webhook receivers | modelled: `DecisionGraph` |
| Decision engine, ML, providers | none | scoring, calls of providers | - | not modelled: numeric, no state |
| Guardrails; accelerator, dynamic candidates, semantic matrix | none or one request's | pure evaluation | - | not modelled |
| Web intelligence | one crawl | crawl, rank links | feeds the change workflow | not modelled: its suggestions are inputs of `WebChange`; its routes are the requests of `WebSchedule` |
| Extraction, multimodal | one request | parsing, calls of providers | - | not modelled |
| Application shell, `app/main.py` | configuration | router wiring, licence, benchmarks; the realtime routes | - | only the realtime and map/reduce routes are modelled |

How they interact: web intelligence crawls a site and hands link suggestions to
the change workflow, which writes to WordPress over HTTP; its schedules start
audits without a request. Bulk imports write into candidate catalogs and ask the
snapshot manager for a rollback point. Atomic catalogs take a source from the
object store, build an index of their own and answer the same search endpoint as
the mutable catalogs. Map/reduce workers run the engine that requests run, on a
profile from the profile registry. Decision graphs call the engine, guardrails
and the review store. Every project request passes the enterprise store first,
and what it creates is registered to its project in a second database.

### What is hard here

- *Coroutines.* A handler is uninterrupted between two awaits, and only against
  the handlers of its own process. What `apply()` read before its awaits may be
  stale after them.
- *Two statements.* `sqlite3` begins a transaction at the first write: what was
  read before it (a maximum version, a quota, a catalog's settings) may be
  another process's past. A busy `INSERT` leaves a transaction open.
- *Two databases.* A dataset, its owner, its model and its lineage are rows of
  different files.
- *Leases.* Workers claim rows with `lease_expires_at` and renew the lease only
  now and then. A worker that is slow, not dead, still acts after its row has
  been taken over, and not all of its writes are fenced by `worker_id`.
- *Several transactions in a row.* A batch is upserted, then its failures are
  recorded, then counters and cursor are checkpointed; a generation is uploaded,
  marked ready, verified, activated. A crash can fall between any two.
- *Controls against a running worker.* Pause, cancel, rollback and a second
  activation take effect in the database while a worker goes on with values it
  read earlier.
- *Caches.* A compiled profile outlives the event that should have dropped it;
  events are delivered at most once.
- *Single commands.* Map/reduce workers share a job through Redis commands that
  are atomic one by one: store the shard, count it, set the state, read the hash.
  The keys expire one by one, too.
- *Loops that must not end.* A worker's or scheduler's loop catches what the
  processing of one row raises, not what claiming or opening it raises.

`PROJECT.json` lists each of these hazards at the line where it bites, with the
properties that cover it.

### What makes the components correct

- Change workflow: only reviewed content of approved changes is published; a
  decision is not undone by a late handler; one open proposal per link; an
  apply and an audit run end; an occurrence of a schedule is claimed once and
  its status tells what became of it.
- Atomic catalogs: the pointer never names a partial build; no reader opens a
  partial or damaged index; pointer and statuses agree; each generation has one
  builder; accepted generations are built or failed in the end.
- Bulk imports: no row is lost or counted twice across crashes; two workers do
  not feed one catalog at a time; the rollback snapshot precedes the first
  write; jobs settle.
- Map/reduce: a result reduces every shard; one worker reduces a job; jobs get
  their result while no worker is lost; runs and streams end.
- Fast path: a copy that differs from the stored profile has a reason that will
  pass; the scheduler counts what runs and waits exactly; requests leave it.
- Enterprise: the quota is exceeded by no more than the processes that count at
  once; each counted request that enters its handler has its audit row; what is
  deployed is owned.
- Tenant data: a dataset holds its project's reviews only; the model of a lineage
  record was trained on the training examples its fingerprint covers, on no
  held-out one, and only where the dataset permits it.
- Candidate catalogs: the index is that of the texts; a search shows texts it
  scored.
- Decision graphs: traces and verdicts are those the graph prescribes; a webhook
  acts once; a version stays what a client was told; runs end.

## 2. Plan

| # | Modules | Content | State |
|---|---|---|---|
| 1 | `ReviewGate`, `WebChange`, `WebChangeProofs` | the change workflow, its abstract specification, refinement, safety proofs | done |
| 2 | `BlueGreen`, `AtomicCatalog`, `AtomicCatalogProofs` | generations, leases, pointer, readers; refinement, safety proofs | done |
| 3 | `BulkImport`, `BulkImportProofs` | jobs, worker, controls; safety proofs | done |
| 4 | `MapReduceQueue`, `MapReduceProofs` | the Redis queue; safety proofs | done |
| 5 | `MapReduceEngine`, `MapReduce` | tasks and streams of a call; the queue composed with it | done |
| 6 | `FastPath`, `FastPathProofs` | profile copies against pub/sub and deletion; the bounded scheduler; safety proofs | done |
| 7 | `TenantRegistry`, `ControlPlane`, `TenantData`, `TenancyProofs` | projects and ownership; quota, audit, promotion; datasets, reviews, lineage, each extending the one before; safety proofs | done |
| 8 | `WebSchedule`, second part of `WebChangeProofs` | connectors, schedules, the scheduler loop; safety proofs | done |
| 9 | `CandidateCatalog`, `CandidateCatalogProofs` | mutable catalog with snapshots and restores; safety proofs | done |
| 10 | `DecisionGraph`, `DecisionGraphProofs` | the wave executor with retries and deadlines; version numbers; safety proofs | done |

Every safety property of the runs is proved; what is left to TLC is liveness.
`RECURSIVE` is used in no module, so every module can be proved about.

## 3. The modules

The modules that have a constant `Scopes` (or `Scope`) explore several deployments in
one run: the first state chooses one and nothing changes it.

### WebChange: the change workflow

One project and one connector are modelled, because every query is keyed by
both. A *task* is a request handler. `task[t].pc` is the statement it has
reached. At a point of `SyncPcs` the coroutine is between two statements of one
uninterrupted section, and `LoopFree` keeps the other tasks of its process out;
tasks of another process run there. At `ApplyPcs` and `AuditPcs` it awaits.

| Code | Model |
|---|---|
| `approve`, `reject`, `approve_and_apply` | `Approve`/`ApproveWrite`, `Reject`/`RejectWrite`, `ApproveAndApply` |
| `apply` | `Apply` or `ApplyRead` (status), `GetObject` (GET), `ApplyCheck` (URL, raw content, hash, insertion), `UpdateContent` (POST), `RequestFails` (error or timeout, also after WordPress has accepted the update), `ApplyFinish` |
| `stage_audit` | `StartAudit`, `Crawl`, `Discover`, `BeginStaging`, `StageLookup` and `StageInsert` per suggestion, `FinishAudit`, `AuditFails` |
| a store that raises | `StartAudit` (`create_run` after its commit), `AuditFails` (the look-up, the insertion or `finish_run`, with some proposals staged), also in the handler, whose `finish_run` then leaves the run `running` (`unrecorded`) |
| `create_proposal` | `Existing` (its SELECT) and `StageInsert` (its INSERT) |
| editors, crashes | `Edit`, `Crash` |

A page's content is a body and a set of links; its SHA-256 is the content
itself. `insert_internal_link_once` is `CanInsert` and `WithLink`: refused when
the link is there or the anchor is not in plain text. `ReviewGate` is the
abstract promise: anybody may edit pages, but the site publishes a change only
as reviewed and only after a review.

### WebSchedule: connectors, schedules and the scheduler loop

Each process may run one `scheduler_loop`. `loop[p].pc` is where it is: the poll,
the UPDATE of a claim, reading the claimed schedules again, the audit, its two reports
(`finish_run`, `finish_schedule`), the sleep. Operators create connectors, also
disabled ones, and test them, create and delete schedules, and stop the
scheduler.

| Code | Model |
|---|---|
| `claim_due_schedules` | `ClaimBegin` (`BEGIN IMMEDIATE` and the SELECT by `next_run_at` up to the limit), `ClaimWrite` (the UPDATEs), `Refresh`; `writer` is the process that holds the write lock |
| `scheduler_loop` | `SchedulerLoop`: the claim, `NextAudit`, `AuditEnds`, `FinishRun`, `FinishSchedule`, `Wake`; what raises outside the `try` ends the loop (`dead`) |
| routes | `CreateConnector`, `TestConnector`, `CreateSchedule`, `DeleteSchedule`, `StopScheduler`; `InsertFails` leaves a transaction open |
| time | `due` is the time left to `next_run_at`; `Tick` lets one unit pass; `order` is the table by `next_run_at`, and `Arranged` what an INSERT, a DELETE, an UPDATE or the SELECT makes of it |

An audit is one await that ends well or not; what it stages is `WebChange`.

### AtomicCatalog: blue/green generations

A process has a worker thread, `work[p]`, and an event loop that serves one
activation, rollback or search at a time, `req[p]`. Processes of one host share
the build directory, `file[h]`. Every method of the control store is one
transaction and one action: `Claim`, `Heartbeat`, `MarkReady`, `Fail`,
`Deploy` (through `AutoActivate`, `ActivateWrite`, `RollbackWrite`). The build
opens its file (`StartBuild`), ends it (`FinishBuild`) or fails; the upload
computes the digest (`DigestFile`) and then copies (`CopyFile`); `Verify` is
`materialize`, which compares the object with the digest the worker holds.
A digest is what it stands for: a partial or a complete index. `Expire` is the
clock: without the fault `slow` a lease expires only under a worker that is
gone. `BlueGreen` is the abstract promise to a reader.

The pieces of a file are not modelled: copying into `target.tmp` and renaming
is one step, so two uploads do not mix inside one object. `fail()` itself
raising is not modelled.

### BulkImport: durable imports

A job is its row in `candidate_import_jobs`, its failure rows and the rows it
has written. A worker's locals are the rows left to read, the batch, the
counters and the cursor. Every statement that touches the database is an
action: claim, read the job, snapshot, `set_snapshot`, bad row, its checkpoint,
the cancel check, the upsert, the failure rows one by one, the checkpoint, the
status check, `finish`, `fail`. Retry jobs read their parent's retryable
failures (`CreateRetry`, `OpenJob`) and do not use a cursor. The controls are
`Pause`, `Resume`, `Cancel`. `IoFails` distinguishes statements whose exception
is caught (the job fails) from those whose exception ends the loop (`dead`):
`claim_next`, what precedes the `try`, and `fail` itself. So does the job of a catalog
that was deleted. `Expire` is the clock: without the fault `slow` a lease expires
only when its holder has left the job (`Abandoned`).

A constant `Scopes` lists the deployments to explore: rows, bad rows, limits,
processes, controls and faults. The first state chooses one; nothing changes it.

Parsing is the set `Bad`; rows that a retry validates again always parse;
the HTTP upload is `Create`; `written` is kept per job.

### MapReduceQueue: distributed map/reduce

A job is its hash (state, total, done), the set of shards whose results are
stored, and its result, which is the set of shards it reduces. A worker is one
process of `app/mapreduce_worker.py`; `work[w].pc` is the Redis command it issues
next.

| Code | Model |
|---|---|
| `submit` | `Submit`: hash, TTL and one task per shard, one `MULTI` transaction |
| `worker_loop` | `Pop`: `BLPOP`, then the map, whose exceptions become results of the shard |
| `_complete_shard` | `Store` (SET of the shard), `Count` (HINCRBY), `SetRunning` (HSET), `ReadMeta` (HGETALL and the comparison with the total), `Combine` (one GET per shard), `Reduce` (`reduce_results`, SET of the result), `SetCompleted` (HSET), `Refresh` (EXPIRE) |
| TTLs, crashes | `Age`, `ExpireKey`, `Crash` |

`Age(j)` is the moment at which the TTL set by `submit` has passed. Until then no
key of the job expires; after it the hash is gone unless `Refresh` has renewed it,
and the keys written later expire in any order. `HINCRBY` and `HSET` create a hash
that is not there, without a TTL. `Unreducible` are the jobs whose reducer raises.
What a shard's results are, and so the value of a reducer, is abstracted.

### MapReduceEngine and MapReduce: the tasks of a call

`MapReduceEngine` is `run()` and `stream()` of `app/mapreduce.py`: a task per
item, a semaphore that admits `Concurrency` tasks in order, `gather`, which
raises with the first task that does, the queue that `stream` reads one entry per
item from, and a client that disconnects. `MapReduce` composes it with the queue: a
worker pops a shard, runs the engine on it and stores what came out, and
requests call the same engine. `scope.detail` says whether a deployment
interleaves the tasks of a shard or maps it in one step.

### FastPath: compiled profiles and the bounded scheduler

A profile is the number of the write that made it, which orders profiles as
`created_at` does. `redis` is the hash, `chan[p]` the events that reached a
process, `cache[p]` its `_profiles`.

| Code | Model |
|---|---|
| `create_profile`, `delete_profile` | `CreateStart`, `Save` (HSET and PUBLISH in one MULTI), `CreateEnd`; `DeleteStart`, `Hdel`, `PublishDelete`, `DeleteEnd`; `AdminFails` |
| the listener | `Subscribe`, `Listen`, `ListenerEnds` |
| a request | `Arrive`, `LoadLock`, `RegistryGet`, `InstallLoaded`; `Admit` (`_pending` against the capacity), `Acquire`, `QueueTimeout`, `ExecuteDirect`, `Cancel` at each await |
| `stream_batch` | the requests of `Stream`: a semaphore, a queue, one result per event |

`excused` is set where a copy may fall behind for a reason the code accepts: an
install overtaken by a write, an event published while the process was not
subscribed, an error between two commands. `CopiesExplained` says that no other copy differs from Redis.

### TenantRegistry, ControlPlane, TenantData: projects

Three modules, each extending the one before. `TenantRegistry` is the project
table, ownership and the calls in progress. `ControlPlane` adds keys,
authentication, the daily quota, audit rows, promotion, rollback and the
realtime WebSocket. `TenantData` adds the project API for datasets, reviews and
training, whose rows are in other SQLite files than their owners.

`call[c].pc` is the next statement of a call. SELECTs that precede the first
write of a transaction are steps of their own; the lock of a process's
connection (`HoldsStore`) keeps its other calls out, other processes are not.
Dependencies written as plain functions run in threads (`InThread`), bodies of
async routes on the event loop up to their next await (`OnLoop`). The body of a
prediction is validated between the two (`RefuseBody`). A model is a set of files
whose name says its decision.

| Code | Model |
|---|---|
| `train` | `GetDataset` (the governance, the fingerprint), `ReadExamples` (the training split up to the limit), `Train` (the thread), `ReadHeldOut` and `Benchmark` (the evaluation, which may raise), `RecordModel` |
| `add_examples`, `import_project_reviews` | `AddExamples` (`UNIQUE(dataset_id, text_sha256)`: a text keeps its first label and split), `ListReviews` |

A fingerprint is the set of rows it was computed from, of all splits; a lineage record
is the fingerprint taken before training and the rows trained on.

### CandidateCatalog: mutable catalogs

Items, features and snapshots are tables of one file. A signature is a text and
the settings it was indexed with. A route reads the catalog's row (`row`), takes
the lock and writes in one transaction (`write`) what depends on that row; a
restore looks for its snapshot before (`check`). A search reads features and
items in two statements under the lock; a model provider ranks its shortlist
outside it, or fails. `taken` keeps what a snapshot held when it was made.

### DecisionGraph: versions and runs of a graph

A definition has nodes, edges with conditions, kinds, error policies, retries
and a limit on parallelism. A run takes the ready nodes (`NextWave`), executes
them in batches (`BatchEnd`), retries failing attempts (`Retry`), stops at the
deadline (`Expire`), and saves its record (`SaveRun`). `PostWebhook`, `Receive`
and `WebhookAnswers` are the message to a receiver that performs each
`Idempotency-Key` once; answers and requests may be lost by a timeout.
`put_graph` is `PutRead` and `PutInsert`. SQLite's locks are modelled, because the
code shares one connection per process and does not roll back: an INSERT that
fails leaves its transaction open, and later statements run inside it (`txn`,
`dirty`). A gate without conditions or with an unknown mode fails every attempt
(`Misconfigured`). A condition is the set of outputs it holds for; the operation of a
node returns any of its outputs. The loops of Kahn's algorithm (`Kahn`) and over the
ready nodes (`NextWave`) select elements of a list in its order (`Picked`).

## 4. Runs

`MC*` modules give the instances. `CHECK_DEADLOCK FALSE` is set everywhere: the
proposals, generations, jobs and calls of an instance are finite, and a system
without requests may rest. All twelve runs pass.

| Run | Instance | Shows |
|---|---|---|
| `web_review` | 1 process (its handlers, proposals and runs are symmetric), 2 tasks, 2 proposals, 2 audit runs, 1 page, 3 bodies, 1 edit, 1 crash | reviewed content only, one open proposal per link, nothing reopened |
| `web_processes` | 2 processes with one task each, 2 URLs, 1 audit that fails at any statement, 2 bodies, 1 edit, no crash | the refinement of `ReviewGate`; applies and audit runs end |
| `web_schedules` | 1 connector, 2 schedules, a claim of one; a process with all requests and a crash; two with deletions; two with a crash; two with failing statements and one scheduler | an occurrence is claimed once; the last status is true; due schedules are audited and reported |
| `catalog_workers` | 2 generations, 2 processes of one host, requests to both, prompt workers, 1 crash | pointer and statuses agree; one builder |
| `catalog_hosts` | 2 generations, 2 hosts, slow workers, 1 crash, no requests | the refinement of `BlueGreen` across takeovers; generations are built or failed |
| `catalog_queue` | 3 generations, 1 process, storage faults, damaged objects, claim errors | readers open complete indexes only |
| `imports` | 2 jobs of one catalog, batches of 2; two workers with failing statements and retries; one that is restarted, or one of two; two whose jobs are paused, resumed and cancelled and whose catalog is deleted; one with 4 rows, 2 of them bad, failing statements and all of these; two slow ones with a bad row that stops the import, and a crash | one feed, clean snapshot, exact counters, retries that resolve, all rows accounted, jobs settle |
| `map_reduce` | 2 workers, a job of 3 shards, one whose reducer raises, expiring keys, 1 crash; a worker that maps 3 items with 2 slots; a request alone | whole results, one reducer, jobs reduced, calls end |
| `graph_runs` | every edge set over 3 nodes, cyclic ones included; a gated review with a retry, and with gates that always raise; two webhooks; two runs of one webhook; two processes that put versions; deadlines, failing nodes, 1 crash | meaning of traces, verdicts, reviews, webhooks, versions; runs end |
| `fast_path` | a stream of two events with two requests, with and without a limit on the wait; two processes with one writer and faults, or two writers; two profiles in a cache of one | exact counters and stream, explained copies, requests leave |
| `tenancy` | 9 scopes: traffic over two days, operators, promotions, predictions, training (5 texts, two splits, a limit of 3 rows, a dataset that permits it and one that does not), reviews, disabling, setup, in one or two processes | quota, audit, deployments, isolation, lineage |
| `candidates` | 4 calls of any kind in one process, 3 in two; 2 items, 3 texts, 1 snapshot, 2 settings | index of the texts, coherent searches |

*Why the bounds are enough to be interesting.* Two actors of each kind give
every pairwise race; a third of the same kind repeats one of the two roles at
the statements concerned. One crash at any step followed by a full recovery
covers each step's durability; recovery is idle before the next crash. Two
proposals for one link give the duplicate and the second decision. Three bodies
are a page that matches the reviewed snapshot, one that does not, and one
without the anchor. Three rows with batches of two give a full batch, a short
last one and a batch interrupted by a bad row; four rows, of which the second and
the fourth are bad, put one inside a batch and one between a batch and the end. Three generations give a pointer, its
predecessor and a newer one. Three shards and two workers give a worker that
counts twice between two counts of the other, and a last count while the other
is before, at or after its own. Two schedules with a claim of one give a
schedule that waits while another is audited. Three items with two slots give
a task that waits for another. Three nodes give a diamond's halves (two parents,
two children), a chain, and a cycle. One slot and a capacity of two give a
running, a waiting and a refused request. Quotas of one and two are reached
between the two statements of `authenticate`. Five texts with a limit of three
training rows give a dataset that grows past the limit while it is read, and a text
sent for one split that is there in another; the least number of rows is one, not six,
so that the limit is within reach. Four catalog calls are a creation,
an upsert and two that race. `MaxEdits`, `MaxCrashes`, `versions`, `messages`
and `calls` are the only counters, and all bound the environment, not the code.

*Properties that need the deployment they have.* Each is stated with its
condition, so that a deployment outside it is explored but not claimed.

- `OneOpenProposal` and `NeverReopened` are run in one process: the read and the
  write are one uninterrupted section. `RunFinishes` lets a run stay `running` after
  a crash, or when the store refuses the `finish_run` of the handler too
  (`unrecorded`); wherever else an audit fails, with whatever it has staged, it ends.
- `OneBuilder` is for prompt workers, `PointerStatus` also for a storage and a database
  that do not fail.
- `OneFeed`, `SnapshotClean`, `RetryResolves` and `CountersExact` hold without
  pause, resume, cancel and slow workers (`Undisturbed`), `CountersExact` also
  without bad rows; `RowsAccounted` without bad rows, or with one process that is
  never restarted (`NothingPassed`).
- `JobSettles` holds under failing statements, controls, deletions, slow workers and a
  crash, while the loop of one worker is left. An exception of `claim_next`, of what
  precedes the `try` (the job of a deleted catalog) or of `fail()` ends a loop, and the
  jobs wait for ever when it was the last. Operators may also resume an older job for
  ever; the property is about behaviours in which they stop.
- `ResultWhole` and `JobReduced` end with the TTL that `submit` gave the job;
  `JobReduced` also with a crash: `BLPOP` has removed the shard and nothing puts it
  back. `CallsEnd` leaves out streams under `fail_fast`.
- `StatusTrue` is for one scheduler. `ScheduleSettles` ends when a loop does.
- `QuotaHolds` lets the count pass the largest quota by less than the number of
  processes: each may have read it before the others added to it.
- `AuditExact` leaves out the two requests that are refused after their
  dependency has counted them and before the `try` of the handler that writes the audit
  row: a prediction for a model of another project, and a body that is no
  prediction request (422). The counting dependencies of the candidate, accelerator and
  graph routes are not modelled; they have the same gap.
- `LineageExact`: what the fingerprint covers as training examples was trained on, up to
  the limit of the SELECT, and what it covers as held out was not. In one process nothing
  else was; in two, the fingerprint may be of fewer examples than were trained on. A model
  whose evaluation raises has no lineage record and no owner.
- `IndexMatches` needs one process, or one setting per catalog;
  `SearchCoherent` is for one process, as the document says.
- The default key of a webhook is that of `WebhookOnce`; a client that chooses one
  key for two runs gets one action.

### Fairness

`WebChange!FairSpec` is strong fairness of each task's continuation: asyncio
runs ready coroutines first in, first out, and each HTTP call ends with an
answer or a timeout; strong, because a ready coroutine is disabled again and
again by the uninterrupted sections of others. `WebSchedule!FairScheduleSpec` is strong
fairness of a loop's steps for the same reason and because the write lock comes
and goes, and weak fairness of the clock and of starting a scheduler again.
`AtomicCatalog!FairSpec` and `BulkImport!FairSpec` are weak fairness of each
worker thread's steps (the operating system schedules it, statements end) and of
the clock that lets leases expire; for imports only of the leases whose holder has
left the job, so a slow worker may keep its lease. `MapReduce!MapReduceSpec` is weak fairness of
each worker's steps and of each call's tasks: Redis and the map answer.
`FastPath!FairSpec` is weak fairness of each request's steps: engines and Redis
answer. `DecisionGraph!FairSpec` is weak fairness of each run's steps (timeouts
and bounded retries end every attempt) and of a put that has begun, and strong
fairness of saving a run, whose connection is busy with other puts now and then.
Nothing is assumed of requests, edits, heartbeats, messages, faults or crashes.

## 5. Proofs

All theorems assume the named `ASSUME`s of the model (types of the constants,
`None` is none of the values). Those that assume more name the condition: `OneProcess` for
two theorems on proposals, `PromptWorkers`, `Separated` or `Calm` for atomic catalogs,
`Undisturbed` or `NothingPassed` for bulk imports, one process (or `Steady`) for candidate
catalogs.

`WebChangeProofs`. The safety invariants are not inductive: whether a POST sends
reviewed content depends on what the task saw at earlier statements. `IInv`
adds `TaskInv`, which says for each program point what the task has established
(its proposal exists and was approved, the object in hand is the proposal's page,
its content equals the hash the row holds), and a ledger invariant on rows and
approvals. From it follow `TypeCorrect`, `OnlyReviewedContent`,
`NoUnreviewedPublication`, `AppliedImpliesPublished`, the action property
`OnlyReviewEndsPending`, and `Implements` (every step is a step of `ReviewGate`
or a stutter; `approved` and the immutability of rows carry the argument). None
depends on the number of tasks or processes: rows are written once and the hash
travels with the row. `NoDuplicateProposal` and `LeftReviewForGood` do: they assume
`OneProcess`, because nothing but the event loop keeps the look-up of a proposal and
its insertion together, and in two processes both are false. `SectionInv` says that at
most one handler is between a read of the proposals and the write it justifies, and
that what it has read is still so; every other step either leaves the proposals alone
or needs a loop that is free (`LoopFree`).

Its second part is about `WebSchedule`, whose names differ from those of `WebChange` so
that one module can extend both; its theorems rest on `ScheduleAssumption` and
`NullAssumption` only.
`DueSchedulesClaimed`: a loop between the SELECT and the commit of a claim holds the lock
(`LockInv`), so requests and loops of other processes wait, the handlers of its own
process cannot come in, and the clock leaves due schedules due.
`StatusesStayTrue` follows a schedule through the hands of the only scheduler. `Hands`
says what a loop holds at each statement: rows, schedules to audit and the one under audit
are disjoint and without repetition, which comes from the order of the table
(`ArrangedRows`). `MadeInv`: they are schedules that were made, and one that was deleted
does not come back (`ExistsBefore`), so a claimed copy never meets a new schedule.
`StatusInv`: what is in hand is marked `running`, what is not is settled, and the
outcome about to be reported is that of the newest run or a refusal. Where a loop ends
or its process dies the schedules in hand leave it as `running`, and `Broken` stays
(`BrokenStays`). `ScheduleTypesHold` is the type invariant, with the order by
`next_run_at`. Any number of processes, schedules, connectors, requests and crashes; that
there is one scheduler is the condition of `StatusTrue` itself.

`AtomicCatalogProofs`. `IInv` has three layers. `BaseInv` (types, who holds
which row, what a worker at each statement knows) is unconditional and gives
`TypeCorrect`. `LeaseInv` assumes `PromptWorkers` (no fault `slow`: a lease
expires only under a worker that is gone) and gives `LeasesExclude`: two
workers are never on one generation. `FileInv` assumes `Separated`, that is,
prompt workers or a build directory of their own for each process, and says
that a file a worker digests is its own and complete; it gives
`NeverExposedPartial` and `CatalogImplements`, the refinement of `BlueGreen`.
The assumption is needed: without it `CatalogSharedDir.cfg` shows a partial build
that is served. From the same layers, `SearchersComplete`: a file that fits its
digest is copied into the cache, and a copy is never partial, so what a searcher
opened is complete whatever was damaged or switched since. `PointerAgrees` assumes
`Calm` (no slow worker, no storage or database fault) and a fourth layer,
`CalmInv`: a worker that may still mark its generation ready or failed has the row
`building`, and after `mark_ready` nothing fails, so `fail()` never meets an active
row. With a fault it does: see `CatalogActiveFails.cfg`.

`MapReduceProofs`. `ResultWhole` is not inductive: that the worker with the last
count finds every shard depends on where all the other tasks are. `IInv` says
that a task is in one place at a time, in the queue, in one worker's hands or
stored (`PlaceInv`); that the count of a job does not exceed the shards stored
and not about to be counted (`CountInv`, by cardinality); that the counts workers
got are different and not above the counter, unless the hash they came from is
gone (`OwnCount`); and what a reducing worker knows (`ReduceInv`). So one worker
at most holds the total, and it holds it only when all shards are stored. From it
follow `TypeCorrect`, `WholeResult`, `SingleReducer` and `CompletedJobHasResult`,
for any number of jobs, shards, workers and crashes, and with any expiry.

`BulkImportProofs`. `IInv` has four layers. `TypeInv` says, for every deployment,
what holds at each statement of a worker: where the batch is empty, where it is full or the
source at its end, where the cursor is that of a bad row. It gives `TypeCorrect`.
`HoldInv` assumes `Undisturbed` and says that a worker that is not idle holds the
live lease of a running job, and that no two such leases are for one catalog;
from it `OneWorkerFeeds`. On it rests `OwnInv`, which only a worker that has its
row for itself can keep: what it knows of the row's snapshot, of its parent's retryable rows
(a parent is over, so nobody adds to them), and that the rows read are those up to the
last one counted. The batch is then the rows after the counted ones, a replayed
batch starts at the checkpoint, and from it follow `SnapshotBeforeWrites`,
`RetriesResolve` and, by cardinality of the batch, `RowsCountedOnce`. `CoverInv` needs
nobody to keep away: it says of every worker, also a late one, that what it has not to
read is written, recorded or in its batch, and of every row that all rows up to its
cursor are accounted for or still in the batch of the only worker; from it
`NoRowLost`. With bad rows and a second worker it fails: `ImportLostRow.cfg`.
Any number of jobs, processes, rows, requests, failing statements and crashes.

`CandidateCatalogProofs`. That the index is that of the texts is not inductive:
what an upsert, a restore or a rebuild writes depends on the settings it read before
its transaction, and what a search returns on two SELECTs. `IInv` says what a call
that has read may rely on: with one process, or when all catalogs have the same
settings (`Steady`), the settings a call holds are those of its catalog or the
catalog is gone (`DimRead`); with one process, which holds its lock from the
features to the texts (`Alone`), the signatures a search has read are those of
the index it will look the texts up in (`RowsRead`). From it follow `TypeCorrect`, `IndexOfTexts` and
`CoherentSearch`; `ExactRestore` needs one invariant more (`RestoreInv`): a
snapshot that is there is what was taken, and the one a restore has found is
still there unless another process deletes it. Any number of calls, items and
snapshots.

`FastPathProofs`. `SchedulerStaysExact`: the counters of the scheduler are the
numbers of requests they stand for, with any capacity and whatever times out, is cancelled
or fails; so are the events of a stream. It is inductive with the types of the calls in
progress and one fact more, that nobody is in a queue twice (`QueueInv`): each step
moves one request between the sets that are counted, and cardinalities and ranges of
sequences follow. `CopiesStayExplained`: a copy that differs from Redis has one of the
causes the model names. It holds for any number of processes, profiles, lost events
and evictions.

`TenancyProofs`, about `TenantData` and so about the three project modules. `IInv`
has six layers over the calls in progress. `Typed` says which kinds of call reach a
statement (`Routes`) and what they hold there (`Holds`): for instance, that a
training call at `record` has a model that exists and a dataset. It rests on one
lemma for each action that classifies it: from which statement to which, which
fields and which tables it may change (`Moves`); the other layers use only that and the
few actions that write what they are about.
`DeployInv`: a call between the registration of a model and the write of the
deployment knows the owner, and an owner, once there, stays.
`QuotaInv`: the calls between the two statements of `authenticate` are in different
processes, whose store locks they hold, so there are no more of them than processes
(an injection), and the count of today with them (`Pending`) stays below the largest
quota plus the number of processes. `AuditInv`: what is counted of a call is what
was audited plus what it still owes, unless FastAPI refused it between the two. `DataInv`: a dataset without an owner is empty and in
the making; a call that has checked the owner of a dataset finds it unchanged unless
the dataset is gone, since ids are not given out twice. `LineageInv`: a
dataset holds a text once and examples are only added, so the training rows of the
fingerprint are among those read later (`ReadExact`) unless the SELECT reached its
limit, and no text it covers as held out is among them; in one process nobody adds
examples in between, and nothing else is. From them follow `TypeCorrect`,
`DeploymentsOwned`, `QuotaBound`, `AuditComplete`, `DatasetsIsolated` and
`LineageTrue`, for any number of processes, projects, keys, calls, days and
crashes. The `ASSUME`s on `Scopes` are about the database at the start: that its rows have
their types, and that what is stored is owned by a known project, with its reviews.

`DecisionGraphProofs`. The algorithms come first: `Picked` (a subsequence) and the turns
of `Kahn` keep lists without repetition, so `TopologicalFacts`: the order of an accepted
definition has every node once, behind its parents. Hence a wave is never empty
while nodes are left (`SomeReady`) and the branch of `run()` for that case is dead for
definitions that were accepted; and the recursive definition of `Level` has a solution
(`LevelExists`, built along the order). Each action is then classified by the relation
it makes between the record of a run before and after it (`WaveStep`, `EndStep`,
`AttemptStep`, ...), and the invariants are proved for the relations. `TypeInv` adds to
the types that a stored version is acyclic and that a record has the shape of its phase
(`RunShape`: the batch, the rest of the wave and the nodes with a trace are
disjoint). On it rest five layers, one theorem each. `StoreInv`: one connection
at most has written, only a connection whose COMMIT failed holds rows nobody else sees,
so versions are appended and never change under a run (`StoredVersionsStay`).
`VerdictInv`: a run has failed exactly when a node that must not fail did, or was expired
(`VerdictsExplained`). `ReviewInv`: the items the project owns are those reported and
those of the batch not yet reported (`ReviewsAreReported`). `HookInv`: every key the receiver
has seen it has acted on once, and a request's key is that of its run and node, for ever
(`WebhooksOnce`; that two runs share a client's key is allowed). `WavesInv`: the nodes with
a trace are the first waves by `Level`, and whether a node is cut off is settled by the
waves before its own, so neither the division into batches nor the order of answers
matters (`TracesMeanGraph`). They hold for any definitions, runs, processes, retries,
crashes and locks left open.

Only model-checked: liveness (`ApplyResolves`, `RunFinishes`, `ScheduleSettles`,
`BuildSettles`, `JobSettles`, `JobReduced`, `CallsEnd`, `RequestsLeave`, `RunEnds`), which
is out of the prover's reach with `ENABLED`.

## 6. Behaviours that can be replayed

None of these is a run of the project. Each configuration checks a property or
two that a reader might expect and that the code does not have; TLC prints the
behaviour (`tlc -config <cfg> <MC module>`, and again without the first property for
the second). The first three contradict a sentence of the
repository.

| Configuration | Property | What the code does |
|---|---|---|
| `WebOverwrite.cfg` | `NoOverwrite` | `apply()` compares the page with the reviewed hash and then POSTs unconditionally: an edit saved in between is overwritten (`docs/WEB_CHANGE_AUTOMATION.md:92`: "so a reviewed edit cannot silently overwrite intervening page changes") |
| `CatalogSharedDir.cfg` | `ActiveComplete` | a takeover on the same machine recreates the build file, which the slow first worker uploads and activates while it is partial (`docs/ATOMIC_CATALOGS.md:41`: readers "do not observe a partially rebuilt sparse index") |
| `ImportLostRow.cfg` | `AllRowsAccounted` | the checkpoint of a bad row passes rows that are only buffered; a crash loses them (`docs/BULK_CANDIDATE_IMPORTS.md:68`: another worker can "resume from the last durable checkpoint") |
| `WebRaces.cfg` | `PublishWhileApproved` | a proposal rejected while `apply()` waits for WordPress is published all the same |
| `WebRaces.cfg` | `AppliedNotRejected` | the second of two applies of one proposal marks the applied proposal stale, and `reject()` then accepts it |
| `ScheduleEnds.cfg` | `LoopGoesOn` | only the audit is inside the `try`: a schedule deleted between claim and audit ends the loop |
| `CatalogActiveFails.cfg` | `ActiveOnlyRetires` | `fail()` is fenced neither by status nor by worker and marks an active generation failed |
| `CatalogRollbackRace.cfg` | `FlipPrewarmed` | rollback prewarms the predecessor it read and activates the one it reads later |
| `ImportControls.cfg` | `AlwaysFinal` | `finish()` overwrites a cancellation |
| `ImportTwoFeeds.cfg` | `AlwaysOneFeed` | pause releases the lease while the worker still writes; the next job starts feeding the catalog |
| `ImportControls.cfg` | `SnapshotAlwaysClean` | after pause and resume during the snapshot, a snapshot taken after the first writes replaces the earlier one |
| `MapReduceState.cfg` | `CompletedFinal` | a worker that counted an earlier shard sets the state to `running` after another has set it to `completed` |
| `MapStreamWaits.cfg` | `StreamsEnd` | under `fail_fast` a task that raises puts nothing in the queue, and `stream()` waits for it |
| `FastStale.cfg` | `CopiesFollow` | a profile read from Redis before an event is installed after it |
| `TenancyRaces.cfg` | `VersionsLinear` | two processes promote over one current version, and two deployments get one version number |
| `TenancyRaces.cfg` | `ReviewsOwned` | a project disabled between the review and its registration leaves a review nobody owns |
| `CatalogIndexStale.cfg` | `IndexAlwaysMatches` | an upsert indexes with the settings of a catalog that another process has made again with others |

Observed while modelling, without a configuration:

- change workflow: a crash between the claim of an occurrence and its audit skips
  the occurrence, because `next_run_at` is advanced first; an audit that takes longer
  than its interval is started a second time by another process;
- atomic catalogs: activating the active generation again makes it its own
  predecessor, and rollback then does nothing; after a crash between `mark_ready` and
  `activate` nobody activates the generation; an exception of `claim_next` ends
  the worker's loop;
- imports: a retry job taken over starts its counters from zero; a catalog
  deleted while a job is queued ends the worker's loop; with `on_error=stop` a crash
  between the checkpoint and `fail()` lets the import resume after the bad row
  and complete with errors; a pause at the end of a source can have a bad row
  counted twice; a crash between `record_failure` and its checkpoint can leave
  failure rows that the counters do not show;
- map/reduce: a worker that dies takes the shard it popped with it; a shard counted
  after the expiry leaves a hash without a TTL and without a total that nothing
  removes; a reducer that raises ends the worker, not the job;
- projects: of two updates of one project that read the same row, the first is
  lost;
- decision graphs: with one `Idempotency-Key` for two runs the receiver drops the
  second action, and its run reports it as executed (`ExecutedWasPerformed`); two
  processes whose failed INSERTs left a read lock and a write lock open keep each other
  from storing anything (`NoWedge`).

## 7. Not modelled

- The S3 backend: the model is the local object store, whose digest comparison
  the S3 one shares. The pieces of a file: copying into `target.tmp` and renaming
  is one step, so two uploads do not mix inside one object.
- Ranking, tokens and feature vectors of a search; CSV and JSONL parsing; the cap
  on proposals per audit.
- Usage reports, retention and the pages of the review UI: they read, or delete
  rows by age.
- The legacy dataset and review routes without a project, and export formats.
- The decision engine, ML, providers, guardrails, accelerator, dynamic candidates,
  semantic matrix, extraction and multimodal: numeric or textual functions of
  one request, without state that outlives it. What they return is any of the
  outcomes their callers distinguish.
- Web intelligence: a crawl's suggestions are inputs of `WebChange`.
- The application shell: router wiring, licence check, benchmarks.
