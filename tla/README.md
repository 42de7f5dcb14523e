# KuzuEventBus in TLA+

Specifications of the parts of this repository in which something can go wrong
that a test would hardly reach: the asynchronous query pipeline, the distributed
lock, the checkout, point-in-time recovery, accounts, snapshots, branches, the event stream
and the query catalog of the Python backend; the commit path, the graph store and the query language of the Rust
engine *casys*, and the query builder of its Python SDK. TLC checks them on small
instances, TLAPS proves the central results for every value of the constants.

Paths below are relative to the repository; `backend/...` stands for
`backend/src/...`, `usecases/` for `backend/src/application/usecases/`.

| module | what it is | TLC | proofs |
|---|---|---|---|
| `JobQueue` | what the pipeline promises, without workers or Redis | through `ImplementsJobQueue` | through `QueryPipelineProofs` |
| `QueryPipeline` | submit, stream, workers, cancel, results | `MCQueryPipeline`, `pipeline_*.cfg` | `QueryPipelineProofs` |
| `RedisLock` | one lock of `RedisDistributedLockService` | `MCServices`, `services.cfg` | `ServicesProofs` |
| `EventStream` | a tenant's events from XADD to the browser | `MCServices`, `services.cfg` | `ServicesProofs` |
| `QueryCatalog` | usage counts, favourites, bookmarks | `MCServices`, `services.cfg` | `ServicesProofs` |
| `Checkout` | a database gets into the workers' local directory | `MCServices`, `services.cfg` | `ServicesProofs` |
| `Pitr` | WAL of the mutating queries, snapshots, restore | `MCPitr`, `pitr_*.cfg` | `PitrProofs`, `PitrExactProofs` |
| `PitrViews` | timeline, plan, preview and branch of a time, as functions of `Pitr`'s state | `MCPitr`, `pitr_restore.cfg` | `PitrExactProofs` |
| `ApiRequests`, `Accounts`, `Databases`, `Tenancy` | the requests of a tenant: registration, login, keys; provisioning, snapshots, restores, branches, merges; both together | `MCTenancy`, `tenancy.cfg`, `databases_v_swap.cfg` | `TenancyProofs` |
| `CasysCommit` | WAL, manifests and crashes of the engine | `MCCasysCommit`, `casys_*.cfg` | `CasysCommitProofs` |
| `GraphIndex`, `GraphFiles` | store and indexes; the branches of a process with their stores and files | through `GraphStore` | `GraphFilesProofs` |
| `GqlSyntax`, `GqlExec`, `CasysSdk`, `GraphStore` | parser; planner and executor; the SDK's query builder; the process of `GraphFiles` with the queries themselves | `MCGraphStore`, `graph_store.cfg`, `sdk_v_and.cfg` | none (recursive operators) |
| `Induction` | induction over sets of numbers, functions defined step by step | - | used by the other proofs |

To check a run: `tlc -config pipeline_safety.cfg MCQueryPipeline`.
To check the proofs: `tlapm QueryPipelineProofs.tla`.

## 1. The system

### 1.1 Backend (Python)

An API process (FastAPI, one event loop) and one or more query workers share a
Redis, a Postgres, a MinIO object store and the volume with the Kuzu databases.

| component | state | operations | meets |
|---|---|---|---|
| Query submission `usecases/submit_async_query.py` | hash `tx:<id>`, set `tx:tenant:<t>:ids` | save, index, XADD | workers, cancel, readers |
| Transaction queue `infrastructure/queue/redis_queue_service.py` | stream with `MAXLEN`, group id, pending list | enqueue, dequeue (`>`), acknowledge (XACK, XDEL) | submit and workers |
| Transaction repository `infrastructure/transactions/...` | status in the hash, set `tx:running` | save, update_status | submit, workers, cancel |
| Query worker `infrastructure/workers/query_worker.py` | its locals, its cached Kuzu connections | run_once: deliver, RUNNING, checkout, execute, WAL, outcome, rows, event, acknowledge | all of the above |
| Query cancellation `usecases/cancel_query.py` | a lock of 5 s | FAILED, delete rows, event | workers, another cancel |
| Job results `usecases/get_query_results.py`, route | cached rows (1 h) | status, then rows | workers |
| Distributed lock `infrastructure/lock/...` | key with a TTL | acquire (SET NX EX), release (Lua compare and delete), extend | everything that locks |
| WAL of mutating queries `query_worker.py:135-202` | one MinIO object per second | lock, read, append, put | restore |
| Snapshots `usecases/create_database_snapshot.py` | MinIO archive and row with `created_at` | lock, copy, upload, row | workers, restore |
| Point-in-time restore `usecases/restore_database_pitr.py` | database directory | choose, lock, swap, list, replay, archive, delete WAL | workers, snapshots, another restore |
| Checkout `query_worker.py:68-133` | database directory | look, lock, download, extract | other workers |
| Snapshot restore `usecases/restore_database_from_snapshot.py` | database directory | check, lock, remove, copy | workers, snapshots, branching |
| Branching `usecases/branching/` | databases named `<db>--branch--<b>` | create, merge, delete by the use cases above | snapshots, provisioning |
| Event stream (SSE) `presentation/api/events/routes.py` | position of the reader | XREAD | every writer of events |
| Status cache `usecases/get_query_status.py` | `tx_status:<id>`, 60 s | read through | workers |
| Query catalog, favourites `infrastructure/database/query_catalog_repository.py` | usage counts, at most ten favourites | upsert, count then insert | requests |
| Customer account, API keys `domain/tenant_management/` | table `customers`, keys in memory | register, log in, authenticate, revoke | requests |
| Provisioning `usecases/provision_tenant_resources.py` | bucket, directory, row | check, create, save, first snapshot | requests |

What is hard in it:

* *Interleaving.* Every `await` on Redis is a point where the other handlers and
  the other processes run. `update_status` is three calls; the worker never
  reads the status before it writes one.
* *Crash and restart.* The consumer group is read with `>` only and nothing claims
  pending entries: what a dead worker held stays on the pending list.
* *Exceptions.* The handlers of `run_once` name locals that are unbound when the
  first calls fail, and `UnboundLocalError` ends the polling loop.
* *Leases.* All locks expire, their holders do not notice. Snapshot, restore,
  checkout and append take locks of different names.
* *Whole rows.* The account repository reads and writes a customer's row as a whole
  and runs SQL in threads: requests overwrite each other's fields.
* *One loop, several processes.* Code between two awaits is atomic for the other
  handlers of the API process, but not for workers, and not for a crash.
* *Time.* The WAL is filed by second, snapshots and targets are dated in
  microseconds, and `created_at` is read after the copy.

What makes each part correct:

* *Submission and queue*: nobody reads a message whose transaction is not saved; an
  accepted job is lost only to the cap of the stream.
* *Worker*: a query is executed at most once and by one worker; what looks running
  is findable on the pending list; COMPLETED and WAL entries mean that the query ran;
  rows are there before the event that announces them; a received job settles.
* *Lock*: exclusion within the leases, a late release hurts nobody, a crashed
  holder's lock is freed.
* *WAL, snapshots, restore*: nothing executed after the target comes back; an undisturbed
  restore is exact; concurrent appends all survive; WAL is deleted only once what
  was replayed from it is archived.
* *Accounts*: two racing registrations do not share a name or an address; a
  revoked key stays revoked.
* *Restore from a snapshot*: it replaces a database or leaves it (false).
* *Branches*: a branch is a consistent cut of its source, nothing flows between it
  and its source afterwards, and a creation that fails leaves no mixture.
* *Event stream*: whoever resumes misses nothing but what was trimmed and gets nothing
  twice; whoever has no id yet hears what is emitted while Redis holds the read.
* *Favourites*: at most ten, as long as one process counts them.
* *Views of the history*: a preview, a branch of a time and the plan agree with what the
  restore does.
* *Checkout*: no query opens a half-extracted database, and none of its writes is replaced by
  the snapshot (with one worker whose extractions end; otherwise false).

### 1.2 Engine casys (Rust)

`casys_engine` gives branches of a database over a `StorageBackend`. The file
system adapter `casys_storage_fs` keeps, for each branch, WAL segments
`wal/wal-<epoch>-<seq>.wal` and manifests `manifest-<ms>.json`.
`Engine::commit_tx` takes the writer lock of the branch, writes and fsyncs
records, publishes a manifest and returns its timestamp; `snapshot` and
`create_branch` publish manifests without the lock. `FsBackend` repeats the
previous `wal_tail` in the new manifest, `CompositeBackend` puts the last
segment there. What must hold: nothing acknowledged is lost in a crash, the
listing of the WAL is the order of the commits, the manifest of a returned
timestamp exists, the latest one covers every commit.

The graph store (`index/`) of a branch lives in memory: maps of nodes and edges, an
index by label, adjacency in both directions. `flush` writes it to `nodes.seg` and
`edges.seg`, `load` reads them back. A GQL text goes through lexer, recursive
descent parser, planner (a tree of operators) and executor (`exec/`). The Python
SDK turns lambdas over entities into such texts. What must hold: the indexes
agree with the maps, what a killed flush leaves fits together, an answer is what
the graph says, and the SDK's text asks what its caller asked. The stub adapters,
the Node binding, the terminal UI and the website surround it.

## 2. Modules

In every module a definition that no action of `Next` uses (`AcquireWithoutNX`,
`SnapSaveDatedByName`, ...) and that is no property is a faulty variant of the definition it precedes.
With it in place of that definition, TLC finds one of the properties violated:
this is how we know that a property says something about the code.

### 2.1 QueryPipeline

One step is one awaited call. `Submit` is the handler (SaveHash, IndexTenant,
Enqueue); `Enqueue` applies the stream's cap. `Dequeue` is XREADGROUP and sets
the group's id and the pending list. `RunOnce` has one action for each call of
`run_once` in its order; `wpc` is the next call, `wout` the outcome the handlers
would write, and `wbound` says whether the local `database_id` is bound, on
which the handlers' `_emit_event` depends. `CallFails` is an awaited call that
raises, with the handler the code has for it; `PollFails` a failing XREADGROUP,
perhaps after delivery. `Crash` and `Restart` kill a worker and bring it back
empty; its pending entries stay. `CancelStep` is the use case call by call,
with a lock that may expire at any time; no route builds that use case yet. `ReadStatus` and `ReadRows` are the
two reads behind `GET /jobs/{id}/results`.

Left out: the content of queries and rows, the query catalog's increment (best
effort, other state), the inside of checkout and WAL append (one step each
here; the append is in `Pitr`). A cancelled job stays in the stream: the worker
that gets it executes it and ends it COMPLETED, since `run_once` never reads the
status. A query that Kuzu refused ends COMPLETED as well, with an error payload
that nobody looks at. The model has both; no property denies them.

`notified` and `rowsLost` are history: who asked after the event, and which
rows expired, could not be cached or were deleted.

`JobQueue` is the promise behind it: accepted jobs get increasing tickets, wait,
are handed out in the order of their tickets, each once, are executed at most
once while handed out, completed only after that, and lost only when `Cap` younger
ones follow. `ImplementsJobQueue` maps a job's ticket to its message id, what waits
to the undelivered part of the stream, what is out to the pending list. All of
Redis' other keys, the workers, their crashes and the clients are stutters or
failures there.

### 2.2 RedisLock, EventStream, QueryCatalog, Checkout

These three share nothing. `MCServices` puts them into one behaviour by a variable
`service`, chosen in its initial states, that says which of them moves, so that TLC explores them side
by side and not their product. Each has a specification of its own (`LockSpec`,
`StreamSpec`, `CatalogSpec`), and the proofs are about these.

*RedisLock.* A key with an owner and a `ttl`, requests with the `lease` they were promised.
`AcquireLock`, `ReleaseLock` and the three round trips of `extend_lock` are
actions; a request may hang (no fairness) or crash; `Tick` is a second.
No use case calls `extend_lock`; it is modelled because the service offers it,
and `LeaseExclusion` and `LeaseHonoured` except it (`extends = 0`): EXPIRE may hit a key that has changed hands.

*EventStream.* `Emit` is XADD with its approximate trim. A connection is the generator
`_sse_stream`: `Connect` (with the id of the last event dispatched, or `$`), `Call` and
`Wake` (XREAD, at once or when something comes), `TimeOut` (the comment after five
seconds), `Hiccup` (XREAD raises), `Send` (one entry is yielded), `Disconnect` (the
connection breaks or the process ends, with what is on the wire). `Receive` is the browser.
A reader without an id begins again at `$` with every XREAD: what is emitted between
two of them is not in `heard`, and it does miss it.

*QueryCatalog.* The repositories are coroutines that never await between two
statements, so one process runs a request to its end; the statements of several
processes interleave. The image starts one (`uvicorn` without `--workers`, `Dockerfile`), so that
the limit of favourites is exact; with more, each but one may exceed it by one row. A
query is its text with even white space, and one of white space only is not counted.

`Checkout` is `_ensure_local_db` call by call: look for the directory (`LookForDirectory`), list the
snapshots, take the lock, download, make the directory (`DownloadArchive`, two calls of
which only the second can be seen), extract file by file, release. `RunQuery` is the execution
after it, with the connection the adapter keeps; a file that is missing at the opening is
initialised. A failing call ends the query (`CheckoutFails`), a killed worker starts again with
nothing (`WorkerRestarts`). `torn` is history: an extraction that ended half-way.

### 2.3 Pitr

The content of a database is the sequence of the mutations applied to it, so
what a restore produces can be compared with what was there (`past[t]`, the
content at the end of tick `t`). A second has `Res` ticks; any number of steps
may fall into a tick.

* Worker: `Execute` (with the cached connection: `conn = "moved"` after a restore
  renamed the directory under it), `Stamp`, `AcquireWal` (busy: the entry is
  skipped), `ReadPrior` (fails: goes on with nothing), `Upload`, `ReleaseWal`,
  `WorkerDies`. `Detected` are the queries whose leading verb `_is_mutating` knows.
* Snapshot: `SnapStart`, `SnapCopy`, `SnapSave` (dated here), `SnapFails`, `SnapRelease`.
* Restore: `FindSnapshot` (before the lock), `AcquireRestore`, `Swap`, `ListWal`,
  `ReadFile`, `ReplayEntry` (one entry, may fail and is passed over, stops at the
  first past the target), the archive as a snapshot of the same use case,
  `Archived`, `DeleteWal` (object by object), `ReleaseRestore`, `RestoreFails`.
* `LeaseExpires`: of a holder that is gone at any time, of a live one as one of the
  `MaxMishaps` (the others are failing calls and killed processes); `overran`
  remembers it.

`Refused` are the mutations whose text Kuzu refuses, for instance because it has parameters: the
adapter executes the text without them (kuzu_query_execution_adapter.py:61) and turns the
exception into an error payload. The worker takes no notice of it (query_worker.py:279), so such a
mutation is logged, with its parameters (:173), and COMPLETED like one that was applied. The replay
executes the text alone as well, is refused again and passes it over. `CleanRestoreIsExact`
therefore equates what was brought back with the past: what was refused is in the WAL and in neither.

`PitrViews` reads this state: `Timeline` and `Plan` are `ListDatabasePITRUseCase`,
`Previews` is `PreviewDatabasePITRUseCase`, `Branches` the branch of a time. All three take
from the object of a second what `TakenFrom` says and execute it by `Applied`; the preview
goes object by object (`PreviewOf`), the branch collects all entries first (`BranchOf`).
Their loops differ from the restore's (an entry past the target ends its object in the
one and the loop in the other) and `PreviewForetells` says that this does not show.
The loops are recursive functions over the seconds and over the entries, so that they
can be proved about.

Abstractions: the copy of a directory and the swap (two renames) are one step;
`put_object` replaces the object at once; whether Kuzu refuses a text does not depend on the
content; the clock is shared and never goes back.

### 2.4 CasysCommit

`data` is what a segment file holds, `safe` what of it is on the disk, `man` and
`manSafe` the same for the manifests. `Begin` is the writer lock with
`WalWriter::open` (whose `File::create` truncates), `WriteRecord` one record or one
rotation, `Flush` the fsync, `ReadTail` the second listing of `append_records`;
`ReadBase`, `ReadClock`, `Publish`, `SyncDir` make a manifest, in the order that
the backend in use has. `Rank` is the place of a segment's name in the sorted
listing. `Fails` is an I/O error, `Crash` a crash of the machine: of an unsynced
file any prefix may survive, its last record torn, and an unsynced rename may
or may not survive.

Abstractions: fsync of a new file also makes its directory entry durable;
`Publish` is one step although its temporary file may be shared within a
millisecond; the clock, which dates the manifests, never goes back; epochs are always 0, as in the code.

### 2.5 Accounts, Databases, Tenancy

A request of the API passes the middleware and goes on to a use case. `Tenancy`
composes the two halves; they share the requests, the budget of failing calls
(`ApiRequests`) and the restart, which loses every request under way and the keys
in memory.

* `Accounts`. `FindName`, `FindEmail`, `InsertAccount`, `Welcome` are registration: two
  reads, then an insert that the table's unique constraints may refuse, the key
  issued between them. `FindByApiKey` and `SaveUsed` are the middleware, which
  writes the row back with a new time stamp, `LoginFind` and `SaveUsed` the login.
  `StartRevoke`, `FindById`, `RevokeInMemory`, `SaveRevoked` revoke a key: in the memory of
  `ApiKeyAuthenticationService`, then in the row. The key is any stored one: neither the route nor the
  use case compares its customer with the caller. `ForgetKeys` is the restart: the
  middleware accepts the key still, from the table, while a revocation of it is
  answered 404 from then on.
* `Databases`. A database is a row, a directory with the writes it holds, and the
  worker's connection to it. The snapshot is `LockSnapshot`, `CopyDirectory`, `SaveSnapshot`,
  `ReleaseSnapshot`; provisioning is `CheckName` and `CreateDatabase` and takes a first
  snapshot, best effort; the restore is `FindRestore`, `LockRestore`, `RemoveDirectory`,
  `RestoreCopy`, `ReleaseRestore`. A branch runs the first, the second, saves the
  snapshot's row again as one of the branch (`Duplicate`) and runs the third; a merge
  is the first and the third.
* `WorkerWrites` is the worker's query between any two steps: on a connection whose
  files were removed it succeeds and leaves no trace, on a missing database it
  makes Kuzu create an empty one.

What the model shows without a property, because no document denies it: a failed
creation of a branch leaves an empty database under its name, so that a retry is
refused; a name that is too long for the table of databases is refused only after
the source's snapshot was taken; a merge into any database other than the branch
itself takes its snapshot and is then refused, because the restore only accepts a
snapshot whose database is the target.

Abstractions: directories are copied and extracted in one step, since no handler
awaits meanwhile (`LoopFree`) and what Kuzu writes during a copy is Kuzu's affair; a
write either is in a database or not; the bucket, the events and the cached details
are best effort or not read; there is one tenant with one account that owns the
databases, and other accounts that register beside it.

### 2.6 GraphStore and what it extends

* `GraphIndex` is `index/mod.rs`: `AddNode` and `AddEdge` with the indexes they maintain,
  scans, neighbours in both directions, and `LoadSegments`, which rebuilds the
  indexes from the two files.
* `GraphFiles` is the process without its query language: branches, saves, links, `flush`
  in its four steps, `load`, the death of the process. Of a query it says what it may
  do to a store (`Creates`): new nodes with one label at most and new edges between nodes
  that are there, under the next identifiers. It uses no recursive operator and is proved about.
  The binding keeps the interpreter lock, so that everything but `flush` is one step.
* `GqlSyntax` is the parser from tokens to the tree, one function per method, with the
  precedence of the operators and everything that is refused.
* `GqlExec` is the planner (one plan operator per rule, in the planner's order) and the
  executor: scans, expansion of edges, variable-length traversal, filters, grouping
  and aggregates, ORDER BY, LIMIT, WITH, CREATE, errors in the middle.
* `CasysSdk` is `query.py` and `orm.py`: what a lambda returns when Python
  calls it with an `Expr` (a comparison with the constant on the left is mirrored), the text made of it, joins (`JoinRel`), EXISTS, sort keys, `select` of expressions
  or of a dict (`SelectDict`), `take`, `first`, `count`,
  `update`, the relations a class declares (`Declared`) and what `with_relations` makes of
  the rows (`HydrateNode`: an instance per node, which need not be of the class declared).
* `GraphStore` is `GraphFiles` with the queries themselves, of the text and of the builder,
  their answers, and the bounds of the instances TLC explores. `QueriesOnlyCreate` is the
  specification of `GraphFiles` as a property of it: what is proved there holds here.

Abstractions: a text is the sequence of its tokens (the lexer's characters are left
out), floats are fractions, strings are compared by a given collation. `whole` and
`proper` are history: whether a store began as what is on the disk, as `SegmentsFit`
needs, since `open_branch` loads nothing and a flush then overwrites both files.

What the model shows without a property: a `select` with one lambda that returns a dict is
dropped without a word; in `select(x=lambda p: not p.age > 2)` Python's `not` leaves
nothing of the comparison; the instances `all()` builds have no properties of
their node.

## 3. Runs

| run | instance | states | what it shows |
|---|---|---|---|
| `pipeline_safety` | 2 jobs, 2 polling workers, stream of 1, 1 fault | 154 000 | the job queue is implemented; jobs are delivered and settle; no two owners, no job forgotten |
| `pipeline_cancel` | 1 job, 2 workers, 2 cancels, 1 reader, 1 fault, 1 kill | 1.6 M | no double execution, running implies pending, rows before event |
| `pitr_restore` | 3 mutations, 1 of them refused by Kuzu, 1 worker, 1 snapshot, 1 restore, 3 ticks | 8.1 M | a quiet restore is exact, none reaches past its target, preview and plan foretell it |
| `services` | lock: 3 requests, leases of 1 or 2 s, 2 extenders; stream: 1 reader, 5 events, batches and trimmed stream of 2, 2 breaks; catalog: 2 processes, limit 1, 3 forms; checkout: 2 workers, 2 files, 1 mishap | 161 000 | exclusion, safe release, locks are freed; a resumed reader misses and repeats nothing and catches up; the limit of favourites; opened databases are whole |
| `pitr_races` | 2 mutations, 2 workers, 2 restores, 1 mishap, 1 tick | 850 000 | concurrent appends survive, WAL is deleted only behind an archive |
| `pitr_v_second` | 1 mutation, 1 snapshot, 1 restore, 3 ticks a second | - | *violated*: a logged mutation is not replayed |
| `casys_commit` | 3 commits of 2 records, 2 writers, snapshots, 1 error, 1 crash | 1.0 M | nothing acknowledged is lost or out of order |
| `casys_v_ten` | 10 segments, 2 commits | - | *violated*: the eleventh segment is truncated |
| `graph_store` | 2 branches, 3 nodes, 2 edges of 2 types, 1 kill, 11 texts, 19 builders (4 of them also counted), 4 relations | 0.34 M | answers are those of the graph, indexes and files agree, a flush loses nothing, queries do to a store what `GraphFiles` says |
| `sdk_v_and` | the builder of the docstring | - | *violated*: half of the predicate is gone |
| `tenancy` | 2 requests of any kind, 2 names, 2 addresses, 2 writes, 1 fault, restarts | 3.0 M | registration and revocation race safely, branches are cuts and isolated |
| `databases_v_swap` | 2 requests, 1 write, restarts | - | *violated*: a killed restore leaves no database |

### 3.1 The properties and the bounds

`NoJobForgotten` needs a second message to push the first one out: two jobs and
`MaxLen = 1`. `AtMostOnce`, `OneWorkerPerTx` and `NotRunningAgain` need a second
worker or a restarted one. One fault and one kill are enough for every single
failure at every place; combinations of more are covered by the proofs, which
do not bound them. `ImplementsJobQueue` speaks of states and steps, so the run's
fairness adds nothing to it; the proof has it for kills and cancels too.
The cancel run has one job: a cancel meets
no other. `pipeline_safety` has no kills, because liveness of two jobs with kills
would need a third worker; kills beside two jobs are covered by the proofs.

`LeaseExclusion` needs a holder that hangs past its lease, a second holder and
a late step of the first; the third request shows that the lock is usable after.

`CleanRestoreIsExact` compares the content a restore produced with `past[target]`.
Its conditions are what the code needs, and each excludes a case in which the
restore really differs: mutations during the snapshot (`ApartFrom`), unlogged
ones (undetected verb, busy lock), a second restore (the undone timeline's WAL
remains), a restore while something runs (`quiet`). Three ticks, two to a
second, have a snapshot and a target before, in and after the second of a mutation, and
two applied mutations in one second or in two. A third one, which Kuzu refuses, is logged before,
between and after them.
`NothingAfterTarget` has no such conditions. `DeletedIsArchived` excepts an
expired restore lock only.

`services`: a stream of at least two entries and batches of two make a reader that was
away miss trimmed entries; two breaks suffice for an id that is sent and sent again. Two
processes and a limit of one reach the row too many. The bookmarks and the counts of
uses have no property beyond their types. `OpensWhole` excepts an extraction that was cut off and
one that is under way (section 4); two workers, two files and one mishap have a lease that expires under
an extraction, a second extraction beside it and a download that fails in every order.

`pitr_races` stays within one tick (`MaxTime = 0`): the races are about the order of
the steps in one WAL object, the times are varied in `pitr_restore`. It has no
snapshot request, the archive of each restore is one.

`RegisteredIsStored` needs two registrations that pass both reads before either
inserts. `RevocationHolds` counts a revocation when it was saved while nobody held an
active copy of the row; one who does writes the active key back, so that without
this condition it is false (a lost update). `BranchIsolated` lets a database hold
the cut it was made of or nothing of it besides the writes sent to it, and two
requests and two writes are enough for a branch, or a merge, beside another
restore of the source with a write in each. `BranchIsCut` compares the cut with every
content the source had since the request began. Two of the parts of a name fit
(`MaxParts`), so a branch of a branch is refused and counted.

`graph_store`: three nodes have cycles, parallel edges and isolated nodes; answers are
compared with what a definition over sets of nodes and edges says, never with the
plan. `MatchesAreFound` counts each match of a chain; `ReachedAtDistance` is stated for
shortest distances, as visited marks make it; `BuilderAnswers` for predicates made of
the operators `Expr` overloads; `PairsAreEdges` excepts relations whose pattern the
parser refuses. Questions are asked of one branch before the first flush, since no
query looks at a file or at another branch.

`ListedInOrder` and `TailCovers` are stated for segment numbers of one digit by
the bound `MaxSeq` of `casys_commit`; `casys_v_ten` is what happens after it.
`TailCovers` excepts snapshots that overlap a commit, which may really publish
an older tail, and rests on a clock that does not go back: the latest manifest is the one with the
latest date. `Cap = 1`, `Size = 2`: every commit rotates.

The type invariants (but `GraphStore`'s, which speaks of its bounds and holds in `graph_store`), `LeaseHonoured`, `QueuedIsSaved`, `EventAfterRows`,
`CompletedWasExecuted` and `WalWasExecuted` are proved for all values of the constants and not
checked by a run of their own.

Runs say `CHECK_DEADLOCK FALSE` because every instance ends: submissions,
requests, ticks and faults are finite.

### 3.2 Fairness

`pipeline_safety` assumes weak fairness of `RunOnce(w)` for each worker, and
nothing else: `run_forever` polls in an endless loop, and each call of `run_once`
either returns or raises. Submitters, cancels and readers owe nothing; neither
does anyone who would restart a dead worker (the compose file has no restart
policy). With one fault and two workers one loop survives; the compose file
starts a single worker, so there a single failing XREADGROUP stops the queue.
`RedisLock` assumes weak fairness of `Tick`: time passes. `EventStream` assumes it of
the generator's steps and of the browser, which opens a broken `EventSource` again
by itself and reads what comes; not of emissions, and of nothing that breaks.

## 4. Findings

* **The second of the snapshot is not replayed** (`pitr_v_second`). The WAL object's
  name is rounded down to the second and compared with `created_at`
  (restore_database_pitr.py:350).
* **The eleventh WAL segment is overwritten** (`casys_v_ten`). Segment names are
  sorted as strings (wal.rs:44), `wal-0-10` sorts before `wal-0-9`, and the next commit
  creates `wal-0-10` again.
* **The swap is not atomic** (`databases_v_swap`). `extract_database_from_archive` removes
  the directory and then copies the new one in (database_path_factory.py:119): a
  process that ends in between leaves the row without a database.
* **`and` drops a condition** (`sdk_v_and`). `a and b` is `b` to Python when `a` is an `Expr`
  (query.py:988), and the docstrings of `QueryBuilder` and `where` use it so.

`Checkout` has two more, which no run is kept for. Without the exceptions of `OpensWhole`,
TLC finds with one worker that a cut-off extraction is opened: the directory is made before
the files are in it (query_worker.py:115) and is all the next query looks for (:82). And it finds
`WritesStay` violated with two workers: the directory is looked for before the lock is taken and not
after it (:82, :109), so that an archive may be extracted over a database that another worker's
query has written to; the comment at :105 says that the lock is there "to avoid concurrent restore".

## 5. Proofs

The theorems hold for any number of jobs, workers, requests, faults and kills;
the only assumptions are those named in the modules: a finite set of
jobs, a positive cap or clock resolution, no model value in two roles.

### 5.1 QueryPipelineProofs

An invariant in layers, each using the ones below:

1. `TypeInv`: types, and that a working worker and a started cancel have a target.
2. `QueueInv`: what is enqueued was saved and indexed, ids are distinct and at most
   `topId`, everything delivered lies at or below the group's id (`StreamInv`); a
   working worker's message was delivered, and no two workers have the same
   (`OwnerInv`). This is why nothing runs twice: `Undelivered` lies above the group's
   id, every owned message at or below it.
3. `StatusInv`: up to the execution the query has not run (`applied = 0`) and the
   message is pending; `completed` is about to be written only after it ran; past the
   last HSET the status is terminal, past the SREM the set does not have it. From
   it follow `AtMostOnce`, `RunningIsPending`, `CompletedWasExecuted`, `WalWasExecuted`
   and the action property `NotRunningAgain`.
4. `RowsInv`: a worker at the event has cached the rows or lost them.

5. `HeldInv`: a worker that is about to append to the WAL or to write COMPLETED or
   TIMEOUT has its job on the pending list; only FAILED may come after the
   acknowledgement.

`PipelineImplementsJobQueue` is the refinement: `Init` maps to `Init`, and each action
to a step of `JobQueue` or a stutter. Most are stutters. `SaveHash` accepts, `Enqueue` queues
(what the cap drops has `Cap` younger jobs: `EnqueueDrops`), `Deliver` hands out the
lowest id that is not delivered, `MarkRunning` starts, `ExecuteQuery` executes,
`WriteOutcome` finishes or fails (by `HeldInv`), the acknowledgement gives the job back,
a cancel fails it at any time.

`AtMostOnce` alone is not inductive: it needs that a worker before the execution
holds a message that nobody has executed, which needs that delivery never goes
back, which is layer 2. `AcceptedJobsRemembered` rests on counting: `EnqueueDrops`
(what XADD drops has `MaxLen` younger ones) and `YoungerGrows` (they stay younger).

### 5.2 ServicesProofs

* `LeaseInv`: types, a key that exists has time left, and `LeaseHonoured` itself. Two
  holders within their leases would both own the key.
* `CatalogInv` counts favourites and processes past the count together: their number is below the
  limit and the number of processes (`InsertingFinite` makes it a count). `OneProcessKeepsLimit` is the case of one.
* `StreamInv`: the events dispatched and those on the wire form a path, each linked to
  the next by trimmed entries only, that ends at the id the generator reads from
  (`ReaderInv`); an answer begins with the first entry left (`AnswerIsRun`).
* The type invariants of the three say a little more than types, and are proved from these
  invariants: `CatalogStaysTyped`, that only texts which have a form are counted or favourites,
  `StreamStaysTyped`, that no connection asks for, carries or dispatches an event that was not emitted.

* `CheckoutInv`: who extracts has the rest of the files before it (`ExtractorOwes`), so a directory that
  nobody works on is full (`DirectoryFull`); only a worker that has seen or made a directory runs a
  query. From it `DatabasesOpenWhole`. `OneWorkerKeepsWrites` needs `AbsentBefore` too: between its look and its
  extraction a single worker has an absent directory before it. Its hypothesis, `OneCheckout`, is what
  both compose files start; with two workers the theorem is false.

### 5.3 PitrProofs and PitrExactProofs

`PitrProofs`: three invariants on top of the types (`TypeInv`, in parts, one per variable):

* `DatedInv` gives `NothingAfterTarget`, which speaks of `restorer.got` only and is not
  inductive. It bounds the time of execution of every mutation wherever it may lie:
  in the database by the clock, in a worker, its prior and the WAL by the entry's
  time stamp, in a copy by the clock, in a saved snapshot by its date, in a restore
  by the target. `ExecutedOnce` (a time of execution never grows, because `Execute`
  asks for one that is not set) keeps every bound, so each part has its own step.
  It needs no lock: it holds with every lease expired.
* `AppendInv` gives `AppendsSurvive`: unless a read failed or the lease of wal_append
  ran out, only the holder of the lock is between the read and the release
  (`OneAppends`), so what it has read still covers the object it will replace
  (`PriorCovers`). A restore that deletes the object meanwhile only makes it smaller.
* `ArchiveInv` gives `DeletedIsArchived`: what a restore has brought back is in the
  database from the swap to the archive, because only one restore is under way
  and everybody else appends; then in the copy that its own snapshot makes; then in
  a saved snapshot, when `snapshot_created_id` was set, which `delete` requires.

`PitrExactProofs`: `RestoreIsExact` is `CleanRestoreIsExact` for any queries, snapshots,
restores, clock resolution and expired leases, under one hypothesis, `OneWorker`. Both
compose files start one worker; with two, the order of the WAL is the order in which the lock
was won and not that of the executions. Five invariants, each proved from those before it
(and first searched for a counterexample by TLC on the instance of `pitr_restore`):

* `StampInv`: a mutation is stamped once, not before its execution, and its entry lies
  in the second of the stamp.
* `SwapInv`: while no call fails, the restores that have replaced the directory are as many
  as `swaps` says, for none and for one.
* `FreshInv`, until the first replacement: the database is the order of the executions
  that were not refused (`DbIsHistory`); each past is the prefix executed by then, each copy a prefix up to its
  tick; each WAL object is in that order and has what was logged under its second.
* `PlanInv`: what a quiet restore has found stays so while it works, since the worker
  executes and stamps behind its target (`Settled`) and only appends entries later than
  it (`Appended`). The directory is replaced meanwhile, so `FreshInv` is of no use
  any more: `PlanInv` takes from it, at `FindSnapshot`, what the replay needs.
* `ReplayInv`: what was brought back is an ordered part of the past, every mutation
  of the past is in it or still to come, and what is to come follows it. Stopping at
  the first entry after the target is right because the seconds that are left lie
  behind that entry (`FloorMonotone`).

The views rest on the same invariants, still under `OneWorker`: `PreviewsAreExact` is
`PreviewForetells` and `PlansAreExact` is `PlanIsReplayed`, for any queries, snapshots, restores
and clock resolution. Three more invariants say what a restore and a view have in common
when the replay is over:

* `ViewInv`: what is left of an undisturbed replay is nothing, so that what was brought back
  is the snapshot's content and then, object by object, what `TakenFrom` gives. The loop over
  the entries is compared with `Applied` one entry at a time, the loop over the objects with
  `PreviewOf` and `BranchOf` one second at a time: an object the restore never opened because it
  had stopped lies behind the target and gives nothing. The fold over the objects is named by
  what it satisfies (`Shown`), and the invariant speaks of every function that does.
* `NearestInv`: the snapshot the restore chose is still the nearest of its target. A snapshot that
  was saved since is dated behind it.
* `DetectedInv`: entries of the WAL are mutating, which makes the window of an object, counted
  by type, as large as the object.

These are inductions over data; `Induction` has what they need. The induction theorems of
the library take an operator as a parameter, which the provers cannot instantiate; `NatBySteps`
takes a *set* of numbers instead, and `StepsDefine` shows that a function given by its first value
and a step exists, so that `done[i]`, `shown[s]` and the others may be unfolded.

### 5.4 TenancyProofs

The steps of `Accounts` and of `Databases` share nothing but the count of failures
(`AccInvKept`, `DbInvOther`), so each half has an invariant of its own.

* `AccInv` gives `RegisteredIsStored` and `RevocationHolds`. A request that is registering has an
  account of its own name (`InsertedOnce`), rows are unique, and a copy that a request
  carries differs from its row in the flag only (`CopyOfRow`): to write it back can undo a
  revocation, not a name. What is barred has no holder of an active copy left (`BarredStays`).
* `DbInv` gives `BranchIsolated` and `BranchIsCut`. `ContentsAllowed` says of every directory and every
  snapshot that it holds sent writes only, and of those sent to others all of the
  database's cut or none. It is kept because a snapshot is restored into its own database
  only (`SnapshotChosen`), because nothing was sent to a branch before it has a row
  (`BeforeTheCut`) and because a request's cut is made once. What a snapshot of the request's
  source holds is one of the contents the source had since it began (`seen`).

### 5.5 CasysCommitProofs

`PublishInv` needs no bound: `AckedArePublished` holds for any number of segments, either
backend, any failures and crashes. The three theorems about records have the
hypothesis `MaxSeq <= 9`, at most ten segments in a branch: up to there the order of the
names is the order of the numbers (`RankOrder`), beyond it they are false, as `casys_v_ten`
shows.

* `LogInv`: a segment has records of one commit (`OneCommitEach`), an acknowledged commit
  is all there and on the disk (`AckedAreWhole`), acknowledged commits lie one after the
  other (`AckedInOrder`), and what a busy writer has written ends the log (`UnderWay`). There
  is one step per action (`AppendKeepsLog`, `RotateKeepsLog`, `CrashKeepsLog`, ...).
* `CoverInv`, on top: every manifest covers what was acknowledged up to its time, no
  manifest and no thread is ahead of the clock, a commit that has read the tail
  covers everything there is. It holds while snapshots and commits take turns, which
  is the exception of `TailCovers`.

### 5.6 GraphFilesProofs

For any branches, node and edge kinds, and whatever queries create as long as `Creates` describes it.

* About the operators: `PutNode` and `PutEdge` keep the indexes in agreement with the maps
  when the identifier is new (`StoreOK`, the form of `IndexesOf` that is inductive: it speaks of
  every label and every identifier, and has no identifier at or behind its counter); `LoadNodes` and
  `LoadEdges`, which enter the records of a segment one by one, give a store with the records
  of the segment and what was there (`Induction` again).
* `FileInv`, one step per action: a store agrees (`StoresOK`), a written file has no identifier
  behind the counters of a store that began as it (`FilesOK`, `FlushLosesNothing`), and no edge of such
  a store lacks an end (`NoLooseEdge`), which gives `SegmentsFit` when the flush writes `nodes.seg` first;
  between the two files of a flush it is `FlushOK` that carries it.

`IndexesStayInStep`, `CutFlushLeavesFit` and `NothingFlushedIsLost` follow. The assumption `KindsAssumption`,
that an entity class does not name a label twice, is needed: `add_node` pushes an identifier
once for every name in the list, and such a node would be found twice.

### 5.7 Not proved

* Liveness (`EventuallyDelivered`, `EventuallySettled`, `LockIsFreed`, `ReaderCatchesUp`) is out of
  the prover's reach.
* `QueriesOnlyCreate` and what is said about answers (`MatchesAreFound`, `ReachedAtDistance`,
  `GroupsPartition`, `BuilderAnswers`, `PairsAreEdges`): a parser and an executor of trees are recursive
  operators, with which the prover does not work. TLC checks them.

## 6. Not modelled

`PROJECT.json` lists every component with its status.

* Read-only parts: listings, query statistics, wiring, settings, path layout, the client of
  MinIO. `ListDatabaseSnapshotsUseCase` passes its two arguments in the wrong order
  (list_database_snapshots.py:26), so that its list is always empty.
* The deletion of databases and branches: the route builds the use case with an
  argument it does not have, so every call fails before it changes something.
* The status cache, whose use case no route builds.
* The checkout is one step of the pipeline, as its state does not meet that of `Checkout`. A
  crash between the two renames of a point-in-time restore is not in a model.
* The subscription and quota methods of the customer aggregate have no caller.
* Of the engine: the lexer's characters, the rounding of floats, the values of the
  instances the SDK builds, the class `HasOne` of its README that `orm.py` does not have,
  the stub adapters for S3, Redis,
  Postgres and memory, the Node binding, the C ABI and the demo screen.

Kuzu, Redis, MinIO and Postgres appear as the code uses them.

## 7. Plan

1. done: `QueryPipeline` with its abstract specification `JobQueue` and the refinement,
   `RedisLock`, `EventStream`, `QueryCatalog`, `Checkout`, `Pitr` with `PitrViews`, `CasysCommit`, `Tenancy`,
   `GraphFiles`, `GraphStore`; proofs of all of them but the last.
2. An abstract `Lease` that `RedisLock` without extension implements.
3. The two renames of a point-in-time restore as steps of their own.
