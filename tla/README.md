# A TLA+ model of hydird and its surroundings

HydIR is a reverse-engineering workbench. Most of its 130 000 lines of Rust are
pure functions: loaders, lifters, p-code interpreters, structurers, C emitters.
What keeps state, runs concurrently and can fail half-way is smaller: the
server `hydird`, the local project store, the Ghidra worker, the Frida
observer, the replay runner and the task queue of the desktop application.
This project models those parts, the server first, because it is where many
clients meet one database.

Paths below are relative to the repository; `main.rs` is
`crates/hydir-server/src/main.rs`.

## 1. Inventory

### The server (`crates/hydir-server`)

One process, one SQLite connection behind a mutex (`Store::db`), one map of
`JoinHandle`s (`Store::workers`), content in the database or in a
content-addressed store, and one short-lived worker process per computation.

| part | state | operations | what is hard | what makes it correct |
|---|---|---|---|---|
| jobs | tables `jobs`, `job_events`; registry `workers`; one tokio task per job | three start handlers, `cancel_job`, the task, interruption at every open of the database | retries, cancellation, completion, restart and operator commands in any order | a row, its events, its artifact and its task agree; an end is final; the limit holds; a key names one job |
| event streams | cursor and batch of each stream; a channel of 32 events | `stream_job_events`, its v3 forwarder | the last event comes after a pass; state and events are read one after the other, and another process may write in between; slow client; reconnection | a client receives the history, in order, once, to its end |
| revisions | `projects`, `project_revisions`, `binaries`, five request tables, `artifacts`, `analyst_annotations`, `analysis_models`, `ghidra_snapshots` | seven mutations, and computations that store an artifact at a revision, some from a cached snapshot | reads, awaits and a transaction much later; retries with keys | history append-only; a mutation applies to the revision its client named; answers are about the client's own request |
| content storage | inline rows, a directory, or S3 objects | `stage`, `put`, `load` | crash between temporary file, sync and rename; concurrent puts | an object has the bytes its name says |
| identities, access | `identities`, `project_acls`, `audit_events` | create, rotate, authenticate, grant, revoke | revocation during a call | a rotated credential or a revoked role ends what it opened; the owner stays an admin |
| worker processes | a process group, three pipes, a deadline | `run_worker` | exit, deadline, output limit and drop at once | no process outlives its call |

### The rest

| part | state | what is hard |
|---|---|---|
| local projects (`hydir-project`) | per-user SQLite store shared by CLI and GUI; typed-C cache | the ELF may change on disk between digest, reading and transaction; cached text is carried from model to model |
| Ghidra worker (`hydir-ghidra-worker`) | lock files, project generations, output files with cache records, a child process | a crash between generation, record, output and cache; a rebuild of the binary while Ghidra reads it; a Ghidra that hangs or survives its worker |
| Frida observer (`hydir-frida-observer`) and its agent | bounded record queue, lost counters, run status | drops, records after the end, timeout against exit |
| replay runner (`hydir-execution`) | child process, output counters, GDB/MI session | exit, output limit and deadline at once |
| desktop application (`hydir-gui`) | two bounded channels, a worker thread, Ghidra threads, busy flags, a pending analysis, what is shown | results of a binary, function or seed that is not open any more; flags that no task clears |
| command line, SDK, API | none of their own | clients of the above |
| decompiler, IR, HLC, typed C, analysis model, backend, core, patch, loader, interchange, VM, semantics, recompiler, passes | none: pure functions | large case analyses over data |

`PROJECT.json` lists every component with its status, and under `hazards` the
places where each of these difficulties bites.

### How the parts interact

A client calls the server over gRPC (CLI, Python SDK, GUI). A handler reads the
database under the mutex, releases it, awaits workers and content storage, and
commits one transaction under the mutex again; a job's task does the same in
the background. An operator's `hydird identity` or `hydird access` command is
another process that opens the same database. The CLI and the GUI also work
without the server, on a local project, with the Ghidra worker, the observer
and the replay runner as child processes or libraries.

## 2. Plan

| order | modules | status |
|---|---|---|
| 1 | `HydirJobLifecycle` (abstract), `HydirJobs`, `HydirEventStream`, `HydirJobsProofs` | done |
| 2 | `HydirProject` (abstract), `HydirRevisions`, `HydirRevisionsProofs` | done |
| 3 | `HydirContentStore`, `HydirContentStoreProofs`: filesystem and S3 content with crashes, under the table that names it | done |
| 4 | `HydirAccess`, composed with `HydirEventStream`: identities, roles, rotation and revocation during a stream; `HydirEventStreamProofs` | done, without OpenID Connect and the audit log |
| 5 | `HydirLocalProject`, `HydirLocalProjectProofs`: local revisions and the typed-C cache | done |
| 6 | `HydirGhidraWorker`, `HydirGhidraWorkerProofs`: locks, generations, cache, crashes, cancellation | done |
| 7 | `HydirFridaObserver`, `HydirFridaObserverProofs`: agent, bounded queue, collector, status of a run | done |
| 8 | `HydirGuiTasks`, `HydirGuiTasksProofs`: queues, flags, pending and stale results | done for local binaries |
| 9 | supervision of one child process by the server and by the replay runner | not modelled; see section 6 |

Composition: the event stream runs on top of the abstract life cycle, which the
job server is shown to implement, so what holds of streams over the life cycle
holds over the server. The same module is composed with `HydirAccess`, whose
variables it reads in every pass of its task and whose commands interleave with
it. `HydirContentStore` and
`HydirRevisions` meet in the table `binaries`: what `NoDataLoss` promises of its
rows is why the revisions can take a committed binary as readable.

## 3. The modules

### HydirJobs

| variable | in the code |
|---|---|
| `state`, `requestOf`, `artifactOf` | rows of `jobs`: `state`; project, key, requester, revision, kind and symbol; `artifact_sha256` |
| `artifacts` | rows of `artifacts` that jobs insert |
| `events`, `lastSeq` | rows of `job_events` and its AUTOINCREMENT counter |
| `task`, `result`, `aborted` | where each tokio task is, what its worker returned, whether `abort` was called |
| `workers` | `Store::workers` |
| `call` | where each client call is, with its request and the job it made |
| `current` | `projects.current_revision`, advanced by other handlers |
| `up`, `spent`, `lost` | whether the server runs; how many faults happened; which tasks gave up on a storage error |

An action is one critical section of a mutex, or the code between two awaits.
A start call goes through `StartPrior` (is the key in use), `StartFetch`
(`current_binary`), `StartCommit` (retry, revision and limit, then the insert),
`StartSpawn`, `StartRegister` and `StartSend` (the oneshot that lets the task
begin only when its handle is registered). A task goes through `TaskBegin`,
`TaskWorker`, `TaskStage`, `TaskFinish` and `TaskRemove`; `TaskFault` is an
error of the database or the storage, which the code logs and gives up on;
`TaskAborted` is the drop of an aborted task at an await. A cancel call goes
through `CancelUpdate`, `CancelTake` and `CancelJoin`. `Crash` and `Restart`
are the server's; `AdminOpen` is another process opening the database. `Refuse`
is any error of a call before its transaction, role checks included.

The three start handlers differ only in the kind and the symbol they store and
compare, so a request has one field `what` for both.

### HydirAccess

`credential` is the row of each identity in `identities`, as the number of the
credential it was last given; `role` is `project_acls` of one project. The
commands `identity create`, `identity rotate`, `access grant` and `access
revoke` are the actions, each one transaction of a process of its own.
`Authenticates` is `authenticate_bearer` with static credentials, `HasRole` is
`require_project_role_in`.

### HydirEventStream

Extends `HydirJobLifecycle` and `HydirAccess`, whose variables a stream reads.
A pass of the polling task is three steps and the sending: `Authenticate`
compares the bearer of the request, `ReadState` reads the job's state joined
with the role, `ReadBatch` reads the next events and ends the stream when the
state it has read was an end and there are none, and `Send` puts them into the
channel one by one. The state and the events are two SELECTs without a
transaction (main.rs:5260 and 5270). The mutex is held over both (`Locked`), so
no task or handler of the server writes in between; a command of another process
does not know that mutex, and its changes of access, and the interruption that
its opening of the database writes, may fall between any two steps. That is why
the life cycle is split into `ServerStep` and `Interrupt`. `stream` is the state
of the polling task (`cursor`, `ended`, `batch`), `wire` the channel, and `got`
what the client has received over all its connections; `cut` is a ghost, the
last event there was when an identity lost its role. `Connect` starts after the
last event received, as a client that resumes does; `Disconnect` loses what is
in the channel.

### HydirRevisions

One project. `binaryAt` is `project_revisions`, `requests` the five tables of
idempotency keys (`Table` maps both versions of `apply_patch` to one table),
`artifacts`, `annotations`, `models` and `snapshots` (`ghidra_snapshots`) the
rows that belong to revisions, with ghost fields: what an artifact or snapshot
was computed from, and the model that an edit or a typed artifact started from.
A call goes from `Prior` through `Fetch`, `ReadModel` or
`Store` to its transaction; `Drop` is any error, and a client that is gone.
`update_analyst_fact` forwards to `add_annotation`.

The handlers that only make an artifact are of three kinds. "lift" stands for
`lift`, both `decompile`, `lift_region` and `get_region`: fetch, worker,
`store_artifact`. "program" is `get_program_artifact`, which reads the saved
model in between. "ghidra" is `analyze_ghidra_snapshot` and its siblings: they
read the project (`ReadProject`), take the cached snapshot or the client's
(`LookUp`) or export one (`Fetch`, `Export`), and insert their artifact only
while the revision is current (`StoreAnalysis`), whereas the first two kinds
store theirs at the revision they were asked for, current or not. The functions
that a call trace exports one after another are one row and one export; the
stages that fetch the binary once more for their worker may end there (`Drop`).
Binaries are names, and patching or rebuilding is the constant function
`Rewritten`, so that "computed from the right binary" can be stated.

### HydirContentStore

A content is its bytes and its digest, so a file or object is whole, partial or
absent. `object` is the directory of `FilesystemCas`, `temp` the temporary file
of each put, `bucket` the S3 objects, `rows` the column `storage_kind` of
`binaries`, and `backend` the storage the server was started with. The steps of
`FilesystemCas::put` are actions: `Stage` (does the object exist), `Create`,
`Write`, `Sync`, `Rename` or `RenameRefused`, `Verify`, and `PutFails` for
an error of any of them. The removal of the temporary file ignores its own error
(main.rs:771), and the model takes it to succeed: a directory that refuses it
would keep the file. `Send` and `Confirm` are `S3ContentStore::put`, whose
error leaves open whether the object was made. `Insert` is `INSERT OR IGNORE`
and the commit; `Read` and `Get` are `load`. `Abandon` is a client that leaves:
the call is dropped, but a put that runs in `spawn_blocking` goes on.

`Crash` ends the calls; `PowerFailure` in addition leaves files that were not
synced with any bytes and undoes renames that no later fsync followed. That is
a journaling file system: an fsync, and SQLite's commit, makes earlier renames
durable. The code syncs the file but not its directory, so on a file system
without that order a committed row could lose its object; the model takes the
order as given. Object keys, the S3 prefix and sizes are left out; artifacts
are stored in the same way as binaries under a longer key.

### HydirFridaObserver

One observation. `agent` is the state of `agent.js`: whether the selected
invocation runs and which thread owns it (`activeRun`, `finished`), the pending
computed jump, `count`, `lost`, `jumpEvidence`, what Stalker has buffered
(`sink`) and the messages on their way (`wire`). `queue` is the channel of 32
messages between `AgentMessages::on_message` and `inside`, `dropped` its counter
of dropped observations, `helper` the `Collector` with the place `inside` has
reached, `trace` what it writes, and `detached` what `session.is_detached()`
answers. `seen` is a ghost: the number of events and jumps that the agent
should account for, the jumps that left the module, and the other threads'
entries.

`Enter`, `Intrude`, `Leave` are the hook's handlers, `Block` a block of the
followed thread (its event goes into Stalker's buffer; its callout
`blockEntry` ends a pending jump), `JumpSource` a computed jump about to be
taken, `Receive` a drain of Stalker's buffer, `AgentError` an exception in the
agent, and `TargetEnds` the end of the target, which may lose messages on
their way. `Deliver` is the callback. `Read`, `StopWatching`, `ReadDetached`,
`EndDrain` and `Judge` are `inside` in its order: the loop's condition and
`timed_out` read `is_detached` separately, and the counter of dropped
observations is read after the last drain. `Validate` is
`validate_dynamic_trace` as `observe` calls it on what the helper wrote; it
leaves out the checks of addresses, bytes and registers. `Fails` is every way
in which `observe` returns an error without a trace.

An event stands for its position in the run, so that a gap can be seen, and a
call is not told apart from a block. Stalker drops events silently when its
buffer of 16 384 is full; `MAX_EVENTS` is 4096, so that drain exceeds the cap
and counts a loss, and the model leaves the buffer unbounded.

### HydirLocalProject

One project, which is one canonical path. `file` is the ELF that anybody may
rebuild; `current` and `binaryAt` are `local_projects` and `local_revisions`;
`evidence`, `models`, `requests` and `cache` are the rows that belong to
revisions. A client holds a handle (`LocalProject`: revision and digest), and
each operation is cut where it reads the file or the database again:
`OpenCheck` and `OpenCommit`; `Verify`, `SelectModel` and `ValidateModel` for
`load_model`; `BeginSave`, `SaveRead` and `SaveCommit` for `save_model`;
`BeginAnnotation` and `AnnotationCommit`; `Verify` and `KeepSnapshot`; `LookUp`
and `CacheInsert` for `cache_typed_c`.

A model is, for each function, its name and the types it mentions, and for each
type, its shape and the types it refers to. `Text` says what emitted C depends
on: the facts of the function and of every function it reaches through calls,
and the definitions of all types it declares. `Dirty` and `Carried` are
`carry_typed_c_cache`, written with the least closed set in place of its loop.
The property `CacheIsFresh` compares its result with emitting again.

`Valid` is what `save_model` checks against the bytes it has read last
(lib.rs:759), which need not be those of the digest it has compared
(lib.rs:756): a row of `models` therefore has a field `of` beside `binary`, the
build that the model describes, and the two may differ. The file may be rebuilt
any number of times. `OfHandle` is the comparison of the loaded model with the
handle that `cached_typed_c`, `cache_typed_c` and `cache_typed_cfg_c` make
(typed_cache.rs:208, 259 and 309).

### HydirGuiTasks

`tasks` and `events` are the two channels, `source` the bytes the worker thread
has open, `threads` the Ghidra tasks in progress; `busy`, `running` and
`cancelled` are `AnalystApp::busy`, the three Ghidra busy flags, and their
cancellation flags; `pending` is `pending_ghidra`. The remaining variables are
what is open (`spec`, `path`, `derived`) and what is shown of it (`symbol`,
`native`, `views`, `snapshot`, `seed`, `shown`), each with the binary, function
and seed it was computed for: that is what the properties compare and what the
code's checks for stale events have to ensure. The actions are the controls of
the user with the conditions that enable them, the arms of the worker's
`match`, the end of a background task, and the arms of `poll`.

### HydirGhidraWorker

`output` and `record` are the output files and their `.hydir-cache.json`,
`project` the `project.json` of each managed project, `generation` the
directories beside it, `outputLock` and `projectLock` the lock files; `worker`
is where each process is, `ghidra` its child. `analyze` goes through `Begin`
(the digest), `LockOutput` with `Cached`, `LockProject`, `StageManaged`,
`Exited`, `RecordProject`, `Publish` and `WriteCache`; `import_project` stages
a copy and goes through `ClearCache` before `Publish`; the rediscoveries run in
a copy and write nothing. `Stop` is the cancel file or the deadline, after which
Ghidra has ended; `Abandon` is a call that ends without that: waiting for Ghidra
failed, and the child alone is killed, not its process group or container
(lib.rs:835-839), or `docker rm --force` failed, which is ignored
(lib.rs:846-850). `Fail` is every error with what the code's destructors undo,
`WriteFails` an error of one of the writes, and `Crash` the end of the process;
a crash and `Abandon` release the locks and leave Ghidra running, and a crash
leaves the directories too. The file can be rebuilt between the
digest, the import by Ghidra, the export and the last comparison.

Of Ghidra the model has what `HydIRSnapshot.java` does: it compares the file
with what the project was imported from, and exports the selected function.
A worker that crashed or gave its Ghidra up makes its next call only when that
Ghidra has ended, so that one variable per worker suffices; the other workers go
on meanwhile. `Existing` is a test for the file `HydirAuto.gpr`
(lib.rs:542-560, 1314), which the model reads as "Ghidra has saved the project":
that Ghidra writes this file with a project that can be opened is assumed.

### The abstract specifications

`HydirJobLifecycle` has no calls, tasks, registry or crashes: a job is
submitted while its owner is below the limit, runs, and succeeds, fails, is
cancelled or is interrupted, and each step adds one numbered event.
`HydirJobs` implements it (property and theorem `ImplementsLifecycle`, theorem
`Refinement`). `HydirProject` is an append-only sequence of binaries;
`HydirRevisions` implements it (property `ImplementsProject`, theorem
`Refinement` of `HydirRevisionsProofs`).

## 4. The runs

The modules `MC...` define the requests, models, limits and symmetries of the
small instances; `HydirEventStream` is checked directly.

| run | bounds | what it shows |
|---|---|---|
| `HydirJobs` | 2 jobs, 2 calls, 3 requests of one identity (one key twice, one function twice), limit 1, 1 crash, 1 live open, 1 fault | the safety invariants, one job per key, final ends, and the refinement of the life cycle |
| `HydirJobsLive` | 1 job, 2 calls, 2 revisions, 1 crash, 1 open, 1 fault | `JobsEnd` under fairness |
| `HydirJobsAdmin` | 1 job, 2 calls, 1 live open | finding 1 |
| `HydirEventStream` | 2 jobs, 1 stream, batch 2, channel 1, 2 connections, 3 changes of access | no event lost, repeated or reordered, none but an interruption sent that is newer than a revocation; a close is complete; `ClientLearnsTheEnd` and `RotationEndsStreams` under fairness |
| `HydirRevisions` | 2 calls, 15 requests of every kind but "lift" (whose steps are those of "program" without the read of a model), a key shared by both patches, a binary that comes back, 5 revisions, 1 fact | the invariants of the tables, model chains, and the refinement of the project |
| `HydirRevisionsAnnotate` | 2 calls, 2 uploads and 1 annotation | finding 2 |
| `HydirContentStore` | 3 calls, 2 contents, 2 crashes or power failures, 1 error, any backend at each start | objects are whole, rows have their objects, only crashes leave temporary files |
| `HydirFridaObserver` | 2 threads, cap 5, queue of 2, 4 blocks, 2 jumps, 1 entry of another thread, 1 error | completeness, accounting of losses, evidence that validates |
| `HydirLocalProject` | 2 clients, 2 binaries, a chain of 3 functions, 2 types of which one refers to the other, 3 revisions, any number of rebuilds, 3 cached texts, 2 rows carried at most | carried text is fresh, no typed C is cached under a binary for a model of another, a loaded model is the newest |
| `HydirGuiTasks` | 2 binaries, 2 functions, 2 seeds, channels of 4, 4 commands | evidence is of what is open, flags have their tasks, `Settles` under fairness |
| `HydirGuiTasksSeed` | the same | finding 3 |
| `HydirGhidraWorker` | 2 processes, 2 binaries, 2 outputs, 5 kinds of call, 1 fault (a crash, a failed write or a Ghidra left behind), 1 rebuild | answers, cache and recorded projects are of the binary they name; Ghidra is alone unless one was left behind; `CallsEnd` under fairness |

Why the bounds are enough. The server has no loop over jobs but the
interruption, which two jobs exercise in both orders of numbering. A race needs
two calls, and a third party is what the first two have committed before. A
limit of one bites with two requests as a limit of two does with
three. A batch of two and a channel of one are smaller than a history of three
or four events, so a batch is cut, the channel fills, and a stream ends in a
poll of its own. Crashes, opens and faults are capped because each is a
disturbance of its own; two in a row of the same kind find no unfinished job.
`MaxRevision` caps only how long a history gets. In the observer, a run of four
blocks with two jumps, an entry and an exit exceeds a cap of five and a queue
of two by more than one message, so that the cap is reached before, at and
after the exit event, with and without dropped messages, and a dropped batch
can hold several events. In the content
store, three calls let two puts of one content race while a third reads it, and
the second crash meets what the first one left; calls are used once, so that a
leftover file can be told from one in use. In the local project, a chain of three functions is what it takes for a changed
function to be reached only through another whose row may be missing; three
texts and a limit of two carried rows reach `MAX_CACHE_ROWS`; the file alternates
between two builds as often as it likes, so that a rebuild comes between any two
reads and the old build comes back.
In the desktop application four commands suffice to open a binary, start a
task, change what it was started for, and start its successor; a channel of
four is filled by the four tasks of one import. In the Ghidra worker there are
as many generations as binaries and faults, which is all that can be left
behind.

The runs of the observer, of the content store and of the desktop application
set `CHECK_DEADLOCK FALSE`: an observation ends, calls and crashes are used up,
and after its last command the application settles. No other run does:
something is always possible there, since a client can call again.

Fairness. `JobsEnd` assumes that tokio schedules every handler and every task
that can move (weak fairness of each call's and each task's steps), and that
`run_worker` returns, which its deadline ensures. Clients, crashes, restarts
and operators are not assumed to do anything; the property therefore excuses a
server that is down, and a task that met a storage error, which leaves the row
of its job unfinished until the next open. `ClientLearnsTheEnd` assumes the
polling task runs and the client reads: weak fairness of each alone, because
the task is one tokio task and the client another process.
`RotationEndsStreams` rests on the same, and not on any event of the job: the
task authenticates in every pass, also when it found nothing. `CallsEnd`
assumes that a worker that can move does, since it polls its locks and its
child with a deadline each; nothing is assumed of Ghidra, which may hang, nor
of other processes that hold a lock. The commands of Docker that prepare the
image and remove a container have no timeout in the code (lib.rs:846), so a
Docker that hangs is outside of `CallsEnd`. `Settles` assumes that the worker thread
and the UI run, and that the background tasks of each flag end, which their
timeouts ensure.

Every property is paired with a mutant: an operator that stands for a
plausible mistake in one mapped definition (a check dropped, `<=` for `<`, an
early return, an update before a read), for which TLC finds the property
violated. The mutants stand beside the definitions they change.

### Findings

1. **Operator commands interrupt a live server's jobs** (`HydirJobsAdmin`).
   `Store::open_with_options` (main.rs:1082) ends every unfinished job with
   "server restarted before completion". `hydird access list` and
   `hydird identity list-oidc`, which `service.md` describes for operators, open
   the database in the same way. Beside a running server they interrupt its
   jobs; the results of those jobs are dropped. The history of each job stays
   consistent, and its end final, as `HydirJobs` with `MaxOpens = 1` shows.
2. **A fact can bring an older binary back** (`HydirRevisionsAnnotate`).
   `add_annotation` reads the project (main.rs:4483) before it checks the
   expected revision, and inserts the digest of that first read. If an upload
   commits the expected revision in between, the new revision has the binary of
   the revision before the upload. `service.md` says that naming the expected
   revision excludes this. The invariant `MutationsApplyToTheirBase` holds of
   all other mutations.
3. **A result of an old seed is shown as that of a new one**
   (`HydirGuiTasksSeed`). Editing the seed clears the results but stops only
   the LLVM task, and of the events that come later only an assessment names its
   seed (main.rs:6017); a call trace (main.rs:5959) is compared by binary and
   function alone. "Use captured entry registers" clears the path and keeps
   everything else. `GhidraEvidenceIsCurrent` holds: binary and function are
   always right, and a path is of its seed.

Observations that no run states, met while modelling:

- The answer of `upload_binary` is read after its transaction (main.rs:4362), so
  it can name a later mutation; the Python SDK (`__init__.py:1179`) then reports
  an upload that succeeded as failed.
- `apply_agent_record` keeps at most 16 errors, and `inside` adds the diagnostic
  of a timeout without looking at their number (runtime.rs:639);
  `validate_dynamic_trace` rejects a trace with more than 16
  (dynamic_trace.rs:140), and the observation is lost.
- `save_model` of a local project compares the first model of a chain only with
  the bytes it read last (lib.rs:759), not with the handle: a rebuild between the
  digest and the reading stores a model of the new bytes under the old digest.
  So a row of `local_models` may name one build and describe another, and the
  run reaches that. `TypedCIsOfItsBinary` is what the code still ensures: all
  models under a digest then describe that one content, no typed C is cached for
  them under the digest, and `load_model` refuses them when the file is the build
  that the digest names.
- A stream that has authenticated may send one batch after a rotation, and what
  it had read before a revocation after it. It may even send one event that is
  newer than the revocation: when an operator takes the role away between the two
  SELECTs of a pass and another command opens the database before the second, the
  interruption of the job is in the batch. `OnlyInterruptionsAfterRevocation`
  says that this is the only one.
- A call of the Ghidra worker that cannot wait for its child (lib.rs:835), or whose
  `docker rm` fails (lib.rs:846), frees the lock of the managed project while
  Ghidra may still write there; the next call then opens the project beside it.
  `GhidraIsAloneInItsProject` excepts exactly that and a crash; answers and
  recorded projects are right even so.
- A job whose transition to running failed keeps its handle in the registry
  (main.rs:1625-1628), and so does one that was cancelled or interrupted before
  its task began (main.rs:1624). The handle of an ended task does no harm beyond
  its size; `FinishedTaskIsUnregistered` says that no other handle stays.
- A pending Ghidra analysis is given up when the task channel is full at the end
  of the one before it. After a rebuild or a patch the Ghidra snapshot of the
  binary before stays on display; its results are not refused until another
  analysis.

## 5. The proofs

Each proof module extends the module it is about. Every theorem holds for all
values of the constants that satisfy the assumptions named in those modules,
whatever the number of jobs, calls, clients, crashes and faults.

### Jobs: `HydirJobsProofs`

| theorem | statement |
|---|---|
| `TypeCorrect` | `Spec => []TypeOK` |
| `EndsAreFinal` | `Spec => TerminalIsFinal` |
| `LimitHolds` | `Spec => []ActiveLimit` |
| `OnlyResultsArePublished` | `Spec => []ArtifactsAreResults` |
| `HistoryIsFaithful` | `Spec => []HistoryMatchesState` |
| `Refinement` | `Spec => ImplementsLifecycle` |
| `KeysNameOneJob` | `Spec => []OneJobPerKey` |
| `JobsAreOwned` | `Spec => []ActiveJobIsOwned` |
| `CancelIsFinal` | `Spec => []CancelStopsWorker` |
| `RegistryIsClean` | `Spec => []FinishedTaskIsUnregistered` |

Assumptions: the set of jobs is finite (it bounds the numbering of the events
of an interruption), `None` is no job, request or digest, a request has a
positive revision, and the bounds are natural numbers.

The argument for the rows. `TypeOK` is not inductive: a task may only finish
with the job its call inserted, so `TypeInv` adds that a call beyond its insert
names a job and a request (`CallsAreFilled`) and that a row that exists has a
request, and an absent one none (`RowsAreFilled`). Every step changes the rows
in one of five ways (`RowStep`: nothing, a submission, a move, a publication,
an interruption): lemma `NextIsRowStep` does the case analysis over the 24
actions once, and the theorems on final ends, the limit, published artifacts,
histories and the refinement then consider five cases, not 24. `HistoryInv`
strengthens `HistoryMatchesState` with the bound that no event has a number
above `lastSeq`: without it a new event could have the number of an old one.
`LongerHistory` and `InterruptHistory` say what an added event, or one event
for each unfinished job, does to a history; the latter is where the injection
of the numbering is used.

The argument for calls, tasks and the registry. The four invariants fail by
interleavings of calls and tasks, and the strengthening says who may touch what.
A start call that has inserted its row is alone with the job until it lets the
task begin, and the handle is in the registry, or taken by a cancel call, before
it does (`StartInv`). Only one cancel call gets past the update of a row, so it
alone takes the handle (`CancelInv`). Therefore a task that has begun is
registered or aborted (`TaskInv`), which is why a cancel call that finds no
handle finds no worker either. `RegistryIsClean` needs one more invariant,
`GateInv`, and the histories: a job's "running" event is written only past the
gate, which opens after the registration, so no handle is put back once its task
ran, and every way from there to the end of the task, an error of staging or of
the last transaction included, removes it. What stays is the handle of a task
that never began. `OwnedInv` is `ActiveJobIsOwned` for one job; a key is unique because
the insert compares it with all rows in its own transaction (`KeyInv`).

### Revisions: `HydirRevisionsProofs`

| theorem | statement |
|---|---|
| `Types` | `Spec => []TypeOK` |
| `Mutations` | `Spec => []MutationsApplyToTheirBase` |
| `Artifacts` | `Spec => []ArtifactsMatchTheirBinary` |
| `Answers` | `Spec => []AnswersNameTheirMutation` |
| `Models` | `Spec => []ModelsFormChains` |
| `Refinement` | `Spec => ImplementsProject` |

The revisions that exist are those up to the current one (`HistoryInv`), so a
binary that a call has fetched for a revision stays the binary of that revision
while the call awaits a worker (`CallsInv`); the transaction then compares the
current revision with the one the call fetched for, and what it inserts is of
the right binary. `RequestsInv`, `ArtifactsInv` and `SnapshotsInv` say that
what is recorded names revisions that exist, whose binaries no step changes; a
cached snapshot may therefore be used at a later revision of the same binary,
and saved when the project has moved on. `ProgramsInv` says which model types
an artifact: a model saved later has a later revision, so the newest one up to
a given revision stays the newest (`LatestModelStays`), although no lock is held
between the read of the model and the artifact. `Mutations` leaves facts out, as its
invariant does: finding 2 is its counterexample. For `Models`, `ModelsInv` says
that a call about to save a model started from the newest one up to the revision
it named: a model saved in between would have advanced the revision, and the
transaction would refuse.

### Event streams: `HydirEventStreamProofs`

| theorem | statement |
|---|---|
| `Prefix` | `StreamSpec => []ReceivesPrefixOfHistory` |
| `CloseIsComplete` | `StreamSpec => []CloseDeliversTheEnd` |
| `Revocation` | `StreamSpec => []OnlyInterruptionsAfterRevocation` |

They hold of the abstract life cycle, which the job server implements, composed
with the commands that change access, for any sizes of batch and channel. The
life cycle only ever adds events with larger numbers, and none to a job that has
ended (`Grows`); that is all a stream depends on. What a client has and what is
on its way to it are together the history up to the cursor, in order, and the
batch is downward closed in what comes after the cursor (`StreamInv`): hence the
smallest event of the batch is the next one, whatever happened since the batch
was read. A batch is empty only when there is nothing after the cursor
(`BatchIsNext`, where the `LIMIT` of the query has to be positive), so a close
is complete; the state is read before the events, so one that was an end has all
of them in the table. `CutInv` says that events sent to an identity without a
role are older than the loss of it or interruptions: a role is taken away after
everything the table holds, and a task that read it before and is about to read
the events has the lock of the server, so that only an interruption can have
come since. The only assumption beyond the
bounds is that `None` is no job and no identity.

### Content storage: `HydirContentStoreProofs`

| theorem | statement |
|---|---|
| `StorageTypes` | `Spec => []TypeOK` |
| `WholeObjects` | `Spec => []ObjectsAreWhole` |
| `StoredIsKept` | `Spec => []NoDataLoss` |
| `TemporariesEnd` | `Spec => []OnlyCrashesLeaveTemporaries` |

It assumes only that `None` is no content and no backend, and that the bounds
are numbers. `NoDataLoss` is not inductive: a power failure may bring back what
a rename replaced, so `RowsInv` adds that the object of a row has a durable
name or replaced a whole one, `DiskInv` that whatever the disk can bring back is
whole, and `CallsInv` that a call about to commit has stored its content in the
backend that `PutsInv` says it belongs to. For `TemporariesEnd`, `TempInv` says
that a file is there only while its put writes, syncs or renames it, or if a
crash took the put from there. That is stronger than the property, which also
allows a put that creates or verifies: the rename and every failure remove the file.

### Ghidra worker: `HydirGhidraWorkerProofs`

| theorem | statement |
|---|---|
| `WholeProjects` | `Spec => []RecordedProjectsAreWhole` |
| `Answers` | `Spec => []AnswersMatchRequests` |
| `Alone` | `Spec => []GhidraIsAloneInItsProject` |
| `Misses` | `Spec => []GhidraRunsOnlyOnAMiss` |

A worker has the lock of its managed project from staging to its cache record
(`WorkerInv`), and a result that it publishes is what was asked for, because the
digest is compared again after the export. A Ghidra that runs in a managed
project runs in the new one of its worker or in a recorded one, and believes
what that directory holds (`PlaceInv`), also when its worker crashed or gave it up; hence `WholeProjects` and `Answers`
hold in spite of a Ghidra that was left behind, while `Alone` has to except it. A
new directory belongs to one worker and nobody has recorded it (`FreshInv`). A cache
record names a snapshot of what its key says (`CacheInv`). `Misses` adds that
whoever is past the look-up holds the lock of its output, and that the cache
says nothing of that output in the meantime. The proofs rest on the assumption
that `None` and the place of a copy are told apart from clients, binaries,
directories and functions.

### Local projects: `HydirLocalProjectProofs`

| theorem | statement |
|---|---|
| `Freshness` | `Spec => []CacheIsFresh` |
| `Binding` | `Spec => []TypedCIsOfItsBinary` |
| `Loaded` | `Spec => []LoadedModelIsOfTheHandle` |

They hold for every call graph, every set of models and any clients, where the
runs have a chain of three functions. `Closure` is the least closed set
(`ClosureIsLeast`), so a text does not change if no fact changed about what the
function reaches and the types it declares (`SameText`). `CleanTextIsFresh` says
that `carry_typed_c_cache` is sound: when a function has changed, the ones with
an unknown callee are dirty, so a clean function has only callees with rows,
those are clean too, because callers of dirty ones are dirty, and the clean set
therefore contains all that is reached. A row says which types its text uses, so
a change of a type is seen from the row alone.

`CacheInv` adds to `CacheIsFresh` that a row's types and calls are those of its
text, on which the next carry relies, and that its model describes the binary of
the row (`RowOf`). `Binding` follows from the latter: a row is inserted only for
a model that was compared with the handle (`ClientInv`), and carried only to a
model that succeeds its own, which describes the same content (`BindingInv`),
because `save_model` compares a model with the newest of its binary whenever
there is one (`SavedIsFound`). `HistoryInv` says that a revision has one
model: the rows of a revision and binary then are all of the model that the save
replaces. `LoadedInv` says that a loaded model is stored and the newest up to
its handle; later saves make later revisions (`OthersKeep`), so it remains so
until the client uses it. All writing steps are instances of one lemma
(`WriteKeeps`): a transaction adds facts of one revision, the current one or the
next. The assumptions are those about the constants: direct calls are of
functions, a lowered typed CFG has no calls, a save has a model, `None` is none
of them.

### Frida observer: `HydirFridaObserverProofs`

| theorem | statement |
|---|---|
| `StreamAccounts` | `Spec => []IInv` |
| `TypesHold` | `Spec => [](TypeOK /\ TraceTyped)` |
| `CompletedTracesAreComplete` | `Spec => []CompletedIsComplete` |
| `LossesAreAccounted` | `Spec => []LossIsAccounted` |
| `NoGaps` | `Spec => []NoGapWithoutLoss` |
| `TracesAreAccepted` | `Spec => []EvidenceIsAccepted` |

They hold for any threads, caps, sizes of batch and queue, and any number of
blocks, jumps, entries of other threads and errors. The four properties speak of
the trace, which is only written at the end, so they say nothing of the steps
before; `IInv` has to say at every moment what a trace made later will contain.

The queue of the helper and the wire are one `Stream` of messages. Three
functions run along it: for each place, how many events (`EventsFlow`), how many
computed jumps (`JumpsFlow`) and how many observations of any kind
(`SizesFlow`) come before that place, those the Collector already has included.
An agent's step adds to the end of the stream, the callback moves a message from
the wire to the queue or drops it, the Collector takes the first one, and the end
of the target cuts the rest off; one lemma for each flow says what each of these
does to it. `TypesHold` types events by the run they are of: whatever the agent,
a message, the Collector or the trace holds is an event that happened, the first
is the entry, and the last is the exit if and only if the run ended (`EventsOf`).
That functions give the counts, and not a recursive sum, keeps
induction out of the proof.

What the flows carry is this. While nothing was dropped, and up to the first
error, the events in the stream are the next ones of the run, and an end that
tells of no loss comes after all of them; every recorded jump comes before the
end (`EventsInv`, `JumpFlowInv`). The end is sent once, with the final count of
what the agent lost, and only errors follow it (`EndInv`); so a Collector that
has seen it has seen everything, in spite of the callback and the target, or a
counter is positive. `BalanceInv` says that the agent has every observation
counted, lost, buffered or pending, and `SizesInv` that all that is owed is
accounted for when the end arrives, where a dropped message counts for the
observations in it. `Judge` then is the only step that makes a trace, and lemma
`JudgeTrue` draws the four properties from the invariant.

### Desktop application: `HydirGuiTasksProofs`

| theorem | statement |
|---|---|
| `TypesHold` | `Spec => []TypeInv` |
| `NativeEvidence` | `Spec => []NativeEvidenceIsOfTheOpenBinary` |
| `GhidraEvidence` | `Spec => []GhidraEvidenceIsCurrent` |
| `Flagged` | `Spec => []FlagsMatchTasks` |

They hold for any binaries, functions, seeds and number of commands, and for
channels of any capacity. The fairness of `Spec` is not used.

`NativeEvidence` is the one that the code does not check: the answer of the
worker to a selection names no binary, and the UI shows it as that of the binary
it has open. `OrderInv` is why that is right. The UI is behind the worker by the
events in the channel, and only some of those replace the open binary
(`Latest`): after the events before an answer, the UI has the binary that the
worker had open when it answered. When the answer has come to the head of the
channel there is no event left before it, and the two agree (`SelectedIsOpen`).

`GhidraEvidence` needs no more than types: each arm of `poll` compares the
binary and function of its event with those on display, each event that changes
what is on display clears the results, and each control that changes the seed
clears the path. The proof shows that none of these is missing.

`Flagged` is about numbers: the tasks of a flag that wait in one channel, run,
or have answered in the other add up to one or none. Counts over channels are
cardinalities of sets of places (`Count`), and the lemmas on them say what
adding to a channel or taking from it does. The tasks in progress are a set,
which could hide a second equal one; the invariant itself excludes it, as the
task that is taken from the channel is the only one of its flag. An event that
clears a flag may send the analysis that was pending in the same step, and sets
it again (`AnsweredFlags`).

The proofs assume that `None` is no binary, function or seed, and no pair of
them either, as a snapshot is compared with `None`.

### What is only model-checked

Every safety property and refinement that a passing run checks is proved. Of the
properties of the passing runs there remains liveness, `JobsEnd`,
`ClientLearnsTheEnd`, `RotationEndsStreams`, `Settles` and `CallsEnd`, which is
out of the prover's reach: it rests on fairness and `ENABLED`. The three runs
that expect a violation show what is not true, and have nothing to prove.
`TypeOK` of the content store, of the revisions and of the observer, and
`TypeInv` of the desktop application, are only proved, and not checked by a run.

## 6. What is not modelled

Within the modelled parts: bytes, symbols and documents; the wording of
diagnostics; role checks of the handlers other than streams, which appear as
refusals that may happen before their transaction; `MAX_BINARY_BYTES` and other
size limits, likewise refusals; crashes of the server in `HydirRevisions`, where
a transaction is atomic and `Drop` has the same effect on a call; SQLite's own
durability.

Of the observer: the sandbox and the limits `observe` starts the helper with,
the request and cancel protocol of `worker.rs`, and stdin, which it refuses.

Of access: OpenID Connect, whose registration of an identity is one transaction
without a race of its own, and the audit log, which is only written. Of the
desktop application: remote projects, the Frida and Triton tasks, edits of
models, and drawing. Of local projects: the workbench settings and the schema
migrations. Of the Ghidra worker: the preparation of the container image.

Supervision of a child process by `run_worker` and by the replay runner is left
out: each is one thread that looks at exit, output and deadline in a fixed
order, and what follows is decided by that order and not by an interleaving. In
`HydirJobs` it is one step; `HydirGhidraWorker` has the same pattern with the
part that is shared, the directories and locks of a child that survives.

The rest of the repository, and most of its lines, has no state between calls:
the decompiler, p-code and expression IR, the C emitters and structurers, the
native backend, loader, patcher, virtual machine, semantics and validators map
one document to another. What could be wrong there is a case of a translation,
which depends on the data that a model of this kind abstracts; a definition that
kept that data would be the program again. The map therefore covers a small
share of the lines, those where order, failure and sharing decide.
