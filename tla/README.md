# A TLA+ model of the research controller

This directory models the deterministic research controller: the tick that
moves tasks and compute jobs through a SQLite database, the local compute
provider with its durable submission records, and the detached
`research-runner` processes that outlive the controller. Source paths below are
relative to the package `src/research_controller/`; those of documents to the
root of the repository.

## 1. The system

| Component (code) | State it keeps | Operations | Model |
|---|---|---|---|
| `ResearchController` (`controller.py`) | none beyond the running tick | `tick`, `verify_completed_work`, `run_once`, `run_until_idle`, `run_forever` | `ResearchController` |
| `ComputeReconciler` (`services/reconciler.py`) | `compute_jobs`, loop over selected ids | collect, poll, reconcile and submit | `ResearchController` |
| `ComputeDispatcher` (`services/dispatcher.py`) | `tasks`, `compute_jobs` | select READY tasks, route, prepare, dispatch transaction | `ResearchController` |
| `TaskReadinessService` (`services/task_readiness.py`) | `tasks` | release PENDING tasks, recover expired leases | `ResearchController` |
| `TransitionService` (`services/transitions.py`) | the two transition tables | checked moves of tasks and jobs, each with its event | `Lifecycle`, `EventLog` |
| `LocalProvider` (`compute/local/provider.py`) | submission records, workdirs | `probe`, `discover_resources`, `can_run`, `prepare`, `reconcile_submission`, `submit`, `poll`, `collect`, `cancel` | `LocalProvider`, `Placement` (offers and `prepare`), `LogCursor` (the logs of `poll`) |
| `research-runner` (`runner/__main__.py`) | `exit.json`, outputs | run the workload, replace `exit.json` | `LocalProvider` |
| `TaskValidator` (`services/validators.py`) | `artifacts.evidence_candidate` | validate a finished task | `ResearchController` |
| `ProjectStateService` (`services/project_state.py`) | projects, tasks, dependencies, jobs | `create_task`, `create_compute_job` | `ResearchController`, `EventLog`, partly |
| `ArtifactStore` (`artifacts/store.py`) | content store, `artifacts` | `ingest_file` | `ArtifactStore`; one step of `ResearchController` |
| Event log and session guards (`services/event_log.py`, `db/session.py`) | `events`, `project.event_seq` | append, guard on unaudited changes | `EventLog` |
| `ComputeRouter`, registry, offers (`compute/`) | none | route a task to a provider | `Placement`; "feasible or not" in `ResearchController` |
| CLI, database models, protocols, observability, ids, demo workload | | | see section 7 |

**How they interact.** A client process inserts tasks. One controller process
(`run`, `run --once`, `run --until-idle`) repeats a tick of fixed phases:

    collect -> poll -> collect -> recover leases -> submit -> release
            -> verify -> dispatch

Each phase selects rows in one transaction and then works through them, one or
more transactions per row, calling the provider *between* transactions. What a
tick remembers between two transactions lives in memory and dies with the
process; the database, the submission records and the workdirs do not. Runners
are started in a session of their own: when the controller dies they are
adopted by init and go on.

**What is hard.** The controller may die between any two transactions, or inside
a provider call (before or after `Popen`, before or after the record is
replaced). Runners end at any time, also between the two looks that `poll` takes
and while a collection is under way; a killed runner leaves its command running,
and the command, or what it leaves behind, may rewrite or remove the outputs
while they are collected. A lease, which is never renewed, runs out under a job
that is still queued, running or being collected. Jobs may be shared by tasks
with the same `submission_key`. Client processes append to the same project's
event log with counters of their own, read at another time. An ingestion is five
steps on disk before its transaction, each of which may fail. GPUs may come and
go between the three times they are listed, and logs grow while they are read.
`PROJECT.json` lists each such hazard at its line.

**What makes each part correct.**
- provider: a launch is never duplicated except at the price of a controller
  that died in mid-work, an answered key really has been launched, a LAUNCHED
  record is final;
- reconciler: collection waits for the runner, a repeated collection is exact
  and ends, the job's end and the task's move are seen together, what the
  workload recorded is what its job reports;
- leases: recovery never takes a task from live work; attempts are bounded;
- readiness: no task starts on a dependency that has not succeeded;
- validation: success and evidence rest on what was stored;
- transitions: no step asks for a move that would raise `InvalidTransition`;
- event log: numbers without a gap, in the order of commits, and a trail that
  explains the status of every row;
- artifact store: whole blobs at their addresses, rows that point to them, exact
  versions, damage that is seen when it can be, and an ingestion that can be
  repeated;
- placement: a job where what the code checks of its requirements is met, and
  its process there too;
- progress: no line skipped, no old value shown again;
- the whole: work that became READY gets a verdict.

## 2. Modules

| Module | What it holds |
|---|---|
| `Lifecycle` | `TASK_TRANSITIONS`, `COMPUTE_TRANSITIONS` and the status sets derived from them. |
| `LocalProvider` | The provider, its records and workdirs, the runner processes; the abstract specification `ProviderSpec` of what *any* sequential caller may ask of it. |
| `ResearchController` | EXTENDS the two; the full tick over the database, clients, the clock, crashes and restarts. |
| `TaskBoard` | The abstract specification of the tasks table as a client sees it: create, release, start, hand in, judge, give up. No ticks, leases, jobs, processes or crashes. |
| `Ledger` | The abstract specification of the event log for a reader: a list of entries that only grows, each of which moves its row on from where the entries before it left it, and statuses that replay it. |
| `EventLog` | EXTENDS `Lifecycle`; one project's log under several processes with sessions, SQLite's lock and snapshots, the guard and the UNIQUE constraint. |
| `Catalog` | The abstract specification of the artifact store for a reader: contents kept for ever, and entries, never changed, that number a name by counting. |
| `ArtifactStore` | `ingest_file` taken apart into its steps on disk, with crashes, failing calls, pids, rewritten and removed sources and blobs damaged at any moment. |
| `Placement` | Offers, `can_run`, the router, and the preparation of dispatch and submission over an inventory that changes. |
| `LogCursor` | The cursors into `run.out` and `run.error`, and the progress that polls record. |
| `LocalProviderProofs`, `TaskBoardProofs`, `ControllerProofs`, `CollectionProofs`, `EventLogProofs`, `ArtifactStoreProofs`, `PlacementProofs`, `LogCursorProofs` | The theorems. |
| `MC_LocalProvider`, `MC_OneTask`, `MC_Parallel`, `MC_SharedKey`, `MC_EventLog`, `MC_ArtifactStore`, `MC_Placement`, `MC_LogCursor` | Instances for TLC. |

`ResearchController` refines `LocalProvider`: every controller step is one of
`ProviderNext` or leaves `pvars` alone. The theorem `ImplementsProvider` proves
it, so each provider property holds of the composed system. It also implements
`TaskBoard` (`Board == INSTANCE TaskBoard WITH Requeueable <- ...`, the property
`ImplementsBoard`): `status` and `attempts` map to themselves, one transaction
that moves several tasks is one step of the board, and every other step leaves
the board alone. Only tasks that share their `submission_key` are
`Requeueable`. So for every other task the board says that it is dispatched
exactly once: its `max_attempts` has no effect, as a verdict is final and a
lease cannot take it from its job.

The two components that keep a record for later readers implement an abstract
specification too. `EventLog` implements `Ledger` (`History`, the property
`ImplementsLedger`): the entries are the committed events in the order of `seq`,
the statuses those of the database, and a commit posts the events of its
transaction; reads, flushes, roll backs and refused writes do not show. The
ledger has no sequence numbers and no guard: what it asks is that a replay of
the whole list gives the statuses. `ArtifactStore` implements `Catalog`
(`Shelves`, `ImplementsCatalog`): kept are the digests with a file at their
address, entries the artifact rows; `Replace` keeps a content, `InsertRow`
enters it, and every other step, crashes and damage included, leaves the
catalogue alone. The catalogue counts the entries of a name, where the code
takes the highest version and adds one.

`EventLog`, `ArtifactStore`, `Placement` and `LogCursor` look into what is one
step, or left out, in `ResearchController`: the transaction, the ingestion of a
file, the feasibility of a task, and the logs of a poll. Each justifies the step
that stands for it. `AuditTrail` with one process that changes statuses says
that no transaction of the controller is undone by a client's, so that
transactions may be taken as atomic there; a client that loses the race for a
number fails as a whole, which is a `CreateTask` that did not happen.
`VersionsExact` and `BlobsAreWhole` say that `IngestFile` adds one row for one
content, and its exceptions for a missing or rewritten source are
`IngestRaises`. `RouterIsExact` says that a task is `Infeasible` or not by its
specification and the inventory alone.

### State and code

- `record[k]`: the JSON file under `submissions/`, by its status; `"NONE"` when
  it does not exist. `disk[k]`: the files in the workdir of the job (`exit.json`
  and the declared outputs), by what the validators can tell of their content.
- `runner[k]`: the process launched last for `k`. A `"child"` of a living
  controller becomes a `"zombie"` when it ends, because the controller never
  waits for it; an `"orphan"` (its controller is gone) is reaped by init at
  once. `busy[k]` says that its command still runs, so that `exit.json` is still
  to come; a runner that has written it goes on for a moment, and `poll` may see
  both. `strays[k]` counts older launches with an `exit.json` still to come, which
  no record names. `loose[k]` says that a process of the workload runs that no
  runner waits for: the command of a killed runner, or what a command left
  behind. `launches[k]` and `crashes` are history; `crashes` counts the
  controllers that died in mid-work, killed or by an `OSError` of `submit`.
- `call`: the position inside the one provider call in flight. A step ends
  wherever another process or a crash can tell the difference.
- `status`, `attempts`, `lease`: the task columns. `lease = "held"` is a
  `lease_expires_at` in the future, `"expired"` one in the past.
- `execution`, `owner`, `exitCode`, `observation`: the job row of a submission
  key (the column is UNIQUE, so the key names the row); `exitCode` is what the
  last believed terminal poll saw, from which `observed_terminal_status`
  follows.
- `rows[k]`, `evidence[k]`: the artifact rows of a job, deduplicated by name and
  content, and those marked as evidence.
- `pc`, `todo`, `ready`, `cur`, `files`: the tick's memory. `Crash` and every
  end of the process erase them (`Forget`).

In `EventLog`, `db` is what is committed (statuses, `event_seq`, events), `draft`
what the one open write transaction has made of it, `writer` the process that
has it. Per process, `seen` is `project.event_seq` as its identity map has it,
`base` and `mem` the loaded and the current value of each status attribute, so
`mem # base` is `history.has_changes()`, and `pending` the events in
`session.new`. A session reads before its first flush without a transaction, so
what it read may be old when that flush takes the lock: that is pysqlite's
behaviour with the engine of `create_sqlite_engine`. Numbers count from the
project's own creation event.

In `ArtifactStore`, a content stands for its digest, `blob[d]` and `temp[d][p]`
are the files at a digest's address and at the temporary name with a pid,
`sealed` their mode 0444, and `step`, `cur`, `digest` the position of the one
controller inside `ingest_file`; `late`, which notes that the blob in hand was
damaged after the call had looked at it, `crashes`, `failures` and `rewrites` are
history. In `Placement`, `inventory` is what `nvidia-smi`
lists, `class` the `resource_class` column, `launched` the GPU each started
process was given, `at` the position of the controller; `lapsed` is history.
In `LogCursor`, `len` counts half lines, so that a file may end inside a line,
`size` and `got` are what `stat` and `read` of a poll returned, `cursor` and
`summary` the two JSON columns; `seen` and `cuts` are history.

### Actions and code

| Actions | Code |
|---|---|
| `BeginCollect`, `Collect`, `IngestFile`, `FinishCollect` | `_reconcile_collecting`: the select, `provider.collect`, one `ingest_file` transaction per file, the transaction that ends the job and hands its task over |
| `IngestRaises`, `VerifyRaises` | `FileNotFoundError` or `IOError` of `ingest_file`, `UnicodeDecodeError` of the metrics validators (`validators.py:83-87`): both end the tick and the process |
| `BeginPoll`, `Poll`, `ProbeProcess`, `RecordObservation` | `reconcile_active` and `_record_observation`; `poll` in two looks (`exit.json`, then the process) |
| `RecoverExpiredLeases`, `ReconcileReadiness`, `VerifyCompletedWork` | one transaction each |
| `BeginReconcileCreated`, `ReconcileSubmission`, `Submit`, `MarkSubmitted` | `reconcile_created`, with `reconcile_submission`, `prepare` and `submit` of the provider inside |
| `BeginDispatch`, `Dispatch`, `DispatchRaises`, `EndDispatch` | `dispatch_ready`; a task no offer fits raises out of the tick |
| `LastTick`, `Crash`, `Restart` | the return of `--once`/`--until-idle`; any death of the process, with `SubmitRaises` an `OSError` of `Popen` or of the LAUNCHED record; the next `run` |
| `Workload`: `WorkloadWrites`, `RunnerRecords`, `RunnerEnds`, `RunnerDies`, `SurvivorEnds` | the command writes, rewrites or removes an output; the command has ended and `exit.json` is replaced; the runner exits after that; it is killed and its command goes on; what no runner waits for ends |
| `CreateTask`, `LeaseExpires` | a client; the clock |
| `Cancel` | `cancel` of the provider, which any caller of `LocalProvider` may use and the controller does not |
| `EventLog`: `Load`, `LoadProject`, `Transition`, `NoteOther`, `Create`, `Assign` | queries, `session.get(Project)`, `TransitionService`, `update_observation_status`, `create_task`/`create_compute_job`, a program that sets a status itself; `NoteOther` has the job row as its entity, and an observation status |
| `EventLog`: `Flush`, `Commit`, `Rollback` | the session, with `enforce_audited_state_changes` and `UNIQUE (project_id, seq)` |
| `ArtifactStore`: `Hash`, `FindBlob`, `OpenTemp`, `Copy`, `VerifyCopy`, `Replace`, `Seal`, `InsertRow`; `BlobCorrupted`, `TempExists`, `CopyMismatch` | the lines of `ingest_file` in order; its three exceptions, each of which ends the tick and the process |
| `ArtifactStore`: `SourceGone`, `CallFails`; `Rewrite`, `Rot` | the source is no file (lines 49-50, or 75 when it goes after its hash); an `OSError` or a database error at any line from 72 on; a process of the workload changes or removes the source; the disk damages a blob, at any step |
| `Placement`: `RouteTask`, `PrepareDispatch`, `CreateJob`; `PrepareSubmission`, `Launch`, `RecordLaunch` | `dispatch_ready` and `reconcile_created`, for what they do with the class of a job |
| `LogCursor`: `ReadLogs`, `LookForExit`, `Record`, `Abandon` | `_read_delta` of both files, the test of `exit.json`, `_record_observation`, a poll that raises or dies |

### Abstractions

- Tasks are COMPUTE tasks of ACTIVE projects; `not_before` has passed.
- Time is the two facts the code asks the clock for: a lease has run out, a job
  is due for a poll. Both may happen at any moment the code allows.
- A workload is arbitrary, with one exception: it leaves alone the `exit.json`
  that its runner writes (one that does not can report what it likes). The
  command of a runner and whatever it leaves behind count as one process each;
  several survivors of a key act like one. A stray has at most its `exit.json`
  and its workload to matter, so its end is not a step.
- Process ids of runners are never reused; those of controllers may be, in
  `ArtifactStore`.
- Poll times and the text of errors are left out. In `ResearchController` the
  exceptions with a step of their own are those of a poll, of `submit`, of an
  output that is gone or rewritten, of a file the validators cannot decode and of
  the router; any other I/O or database error in a phase ends the process as a
  crash does, and its cause does not persist. `ArtifactStore` has those inside
  `ingest_file` (`CallFails`).
- What the metrics validators can tell of a content is "good", "bad" or
  "garbled" (no UTF-8); of `exit.json`, exit code 0 or another.
- `EventLog` has one project and no dedupe keys: a repeated creation is caught
  by the query before it. Events about observations carry one mark, "OBSERVED",
  for all their states: no observation status (`domain/enums.py:102-107`) is an
  execution status, so the guard cannot take one for the other. Those about
  artifacts carry it too; they are about no job or task row. A lock that does
  not come free in `busy_timeout` is a `Rollback`.
- `Placement` has one provider, as the code registers one; memory is counted in
  thousandths of a GB, which is what the rounding of an offer leaves.
- In `LogCursor` a line is two halves and a value is the line it is on; JSON, and
  the keys that make a line count, are the constant `Carries`.

## 3. Runs

| Run | Instance | Shows |
|---|---|---|
| `provider` | 2 keys (symmetric), an output, any caller, 2 crashes, all faults | Every launch beyond the first costs a death of the controller in mid-work; answers are true; LAUNCHED is final. |
| `one_task` | 1 task, a checked output that is also evidence, 2 crashes, all faults but `"leftovers"`, fairness | Types; collection waits for the runner, and the command of a killed one goes on meanwhile; a collection cut off and repeated is exact, and ends; success and evidence are earned. |
| `one_task_restart` (violated) | 1 task, 1 crash | After a restart a workload's exit code may not be believed: see findings. |
| `one_task_duplicate` (violated) | 1 task, 1 crash | A task may be launched twice. |
| `one_task_zombie` (violated) | 1 task, runner killed, no validators, fairness | A killed child looks alive for ever. |
| `parallel` | 2 jobs whose commands exit with 0, 2 attempts, 1 crash, ticks ended by `--once`, fairness | Leases never touch live work; job rows follow dispatches; SUBMITTED means launched; each task is dispatched once; each READY task gets its verdict, and neither job starves the other. |
| `parallel_infeasible` (violated) | 2 tasks, the first without a provider, `--once`, fairness | The feasible task behind it is never dispatched. |
| `shared_key` | t1 and t2 on one key, t3 behind t1 and infeasible, 2 attempts, 1 crash, killed runners | Attempts bounded, dependencies respected, every move legal, also when an expired lease fails and re-queues a task; the board is implemented with its `GiveUp` step. |
| `event_log` | a controller that also reports observations of the job, a client that also assigns statuses, a task, a job, 4 events | Numbers are exact, readers miss nothing, the guard keeps assignments out, so the trail of each row leads to its status; a replay of the log gives the statuses. |
| `store` | 3 files of 2 names, 2 contents, 1 crash, 1 failing call, pids that come back, 1 rewrite or removal, damage at any step, fairness | Blobs are whole, rows exact, visible damage never recorded, litter paid for by crashes and failures; the catalogue is implemented; each file gets its row, given what `EverythingIngested` assumes. |
| `placement` | 5 tasks, 3 GPUs at and around the asked memory, 2 crashes | Placements meet what `can_run` checks, the router is exact about it, launches keep to the placement. |
| `log_cursor` | 2 lines in each of 2 files, 2 keys, 2 abandoned polls | Nothing is skipped, no old value comes back. |

**Why these bounds are enough to meet the cases.** Two crashes let the restarted
controller die as well, in the middle of what it repairs, and let a key be
launched three times. Two jobs are the least in which one selection holds more
than one row and in which one job's spawn reaps the other's zombie. One output
that may be absent, good, rejected or undecodable distinguishes every branch of
the validators. In `parallel` all commands exit with 0: what exit codes lead to
is the subject of `one_task` and `shared_key`, and nothing its properties speak
of looks at the code. In `store`, one crash and one failure are two ends of
calls, in either order, so that a call can be repeated over what both left; its
specification `MCFairSpec` fixes the first content of one file, which loses
nothing as the two contents can be exchanged throughout. `MaxAttempts = 2`
reaches both sides of the retry test; recovery of an abandoned task is reachable
only with a shared key, which is what `shared_key` is for. `MaxCrashes` bounds
only the environment; `MaxAttempts` is a parameter of the code and no bound of
the model. In `event_log`, four events are a creation and a move of the
controller with two of the client between them, and one number more for each to
collide on. Three files let two jobs share a logical name and any two files a
blob. The GPUs of `placement` are one whose offer rounds up to what a task asks
for, one just as large as asked, and a larger one. Two lines per file are the
least with a value to be replaced and a line to be cut. Only `log_cursor` has
deadlock checking turned off: the polls of a job end when it is being collected.
Everywhere else something can always go on, a new tick at least.

**Fairness.** `TickStep` and `Restart` are weakly fair: the controller is one
process that the operating system schedules, and an operator or a supervisor
runs it again. Leases expire and workloads end (`WF` of `LeaseExpires`,
`RunnerRecords`, `SurvivorEnds`): the clock advances, and the properties are
about workloads that end, those that outlive their runner included. Nothing asks
a runner to exit after its `exit.json`: `poll` does not need it. A job that
stays pollable is due in some later tick (`SF` on the selection that includes
it): `next_poll_at` is a finite time after the last poll, and each tick compares
it with the clock; weak fairness would not do because the selection is enabled
only at one point of the tick. No fairness is given to crashes, killed runners,
clients or the end of a `--once` run. In `StoreFairness` the steps inside
`ingest_file` and `Restart` are weakly fair for the same reason, and `Hash(f)`
of each file strongly: the collector goes through the files of a job in order,
and every restart begins the list again. The list gets as far as each file
because those before it have rows by then. `EverythingIngested` has two premises
that the code does not ensure, and that it needs: no stored blob is damaged
(`Undamaged`), and no controller meets a temporary file with its own pid
(`FreshPids`); TLC finds it violated without either. A file that stays removed
has no row to get. `CollectionEnds` needs that survivors end: while one goes on
rewriting an output, an `ingest_file` may raise in every tick. A job that is
COLLECTING and whose outputs have settled gets through, as every collection
lists the files anew.

## 4. Findings

1. **A restart can launch a task twice** (`one_task_duplicate`).
   `submit` calls `Popen` and then replaces RESERVED by LAUNCHED
   (`provider.py:225`). A controller that dies in between leaves a running
   process nobody knows, and the next one launches again in the same workdir.
   `IMPLEMENTATION_STATUS.md:25` says "Controller restart does not duplicate a
   Task execution." `LaunchBound`, proved, is what does hold: a second launch
   costs a crash. One consequence met while modelling: the two runners replace
   each other's `exit.json`, so a task can be SUCCEEDED while the stored
   `exit.json` says otherwise (the validators ask only that it be stored). The
   clause on `exit.json` in `SuccessIsEarned` is for keys launched once.
2. **A finished workload can be reported lost** (`one_task_restart`). `poll`
   tests `exit.json` first and the process second (`provider.py:298`). A runner
   adopted by init that writes the file and exits in between is `FAILED`,
   `INFRASTRUCTURE`, with exit code 0 on disk, and the verdict is final.
3. **A killed runner keeps its task RUNNING** (`one_task_zombie`).
   `kill(pid, 0)` succeeds on a zombie (`provider.py:315`), and nothing waits
   for the children, save that spawning some other process reaps them.
4. **One task without a provider stops all behind it** (`parallel_infeasible`).
   The router's `RuntimeError` (`router.py:40`) is caught nowhere, so every tick
   ends at the same task, before "Dispatch new active-project Compute Tasks"
   (`README.md:126`) reaches the ones behind it; the controller ends with it.

**Limits met while modelling.** These have no run of their own; each is where
a property needs the premise it has.

- The dependents of a FAILED task stay PENDING: only SUCCEEDED dependencies
  release a task (`task_readiness.py:41`) and nothing ends the others, so
  `--until-idle`, which `README.md:53` says runs "until all current work is
  terminal", ends in its `TimeoutError`. `ActiveSettles` is therefore about
  tasks that became READY. A task that names itself as a dependency has the
  same fate: it is flushed before its dependencies are looked up
  (`project_state.py:112`).
- The guard on statuses sees only the last value (`session.py:47`). A status
  assigned directly and moved on by `TransitionService` before the flush has
  its event, and the first change is committed without one. `AuditTrail` holds
  as long as no process does both (the run's
  `Services` and `Direct` are disjoint, and so they are in the proof); the
  code itself never assigns.
- A temporary file carries the pid and is opened with `"xb"` (`store.py:75`). One
  left by a crash stops each later controller with that pid at the same file (a
  container's main process always has the same one). Hence `FreshPids`.
- `chmod` follows `os.replace` (`store.py:86`) and is not repeated when the retry
  finds the blob, so a crash can leave a stored artifact writable for good.
  `LitterIsAccounted` counts such a blob as what a crash left;
  `BlobsAreWhole` does hold: its content is right when stored.
- Of the steps of `ingest_file`, only `os.replace` stands in a `try ... finally`
  (`store.py:82-85`). An error of the disk in the copy leaves the temporary file,
  and one of the database after it a blob without a row: `LitterIsAccounted`
  counts both. Damage that falls between the look at a blob and the commit of
  its row is recorded as VERIFIED; `DamageIsFound` says that only such damage is.
- The metrics validators catch `OSError` and `JSONDecodeError`
  (`validators.py:85`). A metrics file that is no UTF-8 raises
  `UnicodeDecodeError` out of `verify_completed_work`, one transaction over all
  VERIFYING tasks: their verdicts are rolled back, the tick ends before its
  dispatch, and every later tick ends at the same place (`VerifyRaises`).
  `one_task` has such files, and its safety properties hold beside them;
  `ActiveSettles` is checked with `Checked = {}`, where no file is opened.
- The command of a killed runner goes on (`runner/__main__.py:46`). A job that
  ended without an `exit.json` is collected while its workdir may still change,
  so `CollectionExact` is about jobs that ended on one, and about commands that
  leave no process behind.
- `cpu_cores` and `memory_gb` (`protocols/compute.py:42-43`) are part of every
  specification, and neither `can_run` nor the router compares them with an
  offer. `PlacementsMeetChecked` and `RouterIsExact` are about the others.
- Two tasks with one `submission_key` share a job, and a retry of either reuses
  the job that has ended. The properties on leases, jobs and dispatches are
  about tasks with a key of their own; what remains for the others
  (`AttemptsBounded`, `LegalMoves`, the board) is checked in `shared_key`.

## 5. Proofs

Proved by TLAPS for every value of the constants that satisfies the named
assumptions (`KeysAssumption`, `NamesAssumption`, `CodesAssumption`, `FaultsAssumption`,
`CrashAssumption`, `TasksAssumption`, `ArtifactsAssumption`, `RowsAssumption`,
`WritersAssumption`, `SeqAssumption`, `StoreAssumption`, `BoundsAssumption`,
`PlacementAssumption`, `LinesAssumption`), thus for any number of tasks, keys,
files, processes, GPUs, crashes and attempts:

| Theorem | States |
|---|---|
| `ProviderTypeCorrect` | the provider's type invariant |
| `LaunchAccountCorrect`, `LaunchBoundCorrect` | launches are paid for by controllers that died in mid-work |
| `LaunchedIsFinalCorrect` | a LAUNCHED record is final and ends launching |
| `AnswersCorrect` | the provider's answers are true |
| `ImplementsProvider` | `Spec => ProviderSpec` |
| `ControllerLaunchBound`, `OnlyCrashesRelaunch` | the bound for the composed system, by refinement; `SingleLaunch`, which finding 1 violates, until the first such death |
| `TypeCorrect` | `TypeOK`, for workloads that write and remove outputs at any time |
| `DependenciesCorrect` | `DependenciesRespected` |
| `SubmittedCorrect` | `SubmittedIsLaunched` |
| `LiveWorkCorrect` | `RunningHasLiveJob` and `JobsFollowDispatch` |
| `LeaseCorrect` | `LeaseSparesLiveWork` |
| `AttemptsCorrect` | `AttemptsBounded` |
| `LegalMovesCorrect` | `LegalMoves` |
| `BoardCorrect` | `ImplementsBoard` |
| `AttemptOnceCorrect`, `VerdictsFinalCorrect` | what holds on the board, transferred by the refinement |
| `CollectAfterExitCorrect`, `CollectionCorrect` | a job is collected when its runner has nothing more to record; and exactly, if it ended on its `exit.json` and commands leave no process behind |
| `SuccessCorrect`, `EvidenceCorrect` | success is earned; evidence comes from it |
| `ResultsFinalCorrect` | `ResultsAreFinal`: what an ended job reports and has stored never changes, nor does evidence |
| `ExactlyOnceUncrashed` | until a controller dies in mid-work, an ended job was launched once and its runner has nothing more to record; if it ended on its `exit.json` and commands leave no process behind, nothing of it runs and its rows are all its files |
| `SteadyExitIsBelieved` | `ExitIsBelieved`, which a restart violates (finding 2), given `[]Up`: the controller is never down; runners may be killed, workloads outlive them, and polls may raise |
| `SequenceCorrect`, `CommitOrderCorrect` | the numbers of events, for any number of writers of every kind |
| `AuditTrailCorrect` | `AuditTrail`, given `SingleController`: one process changes statuses through `TransitionService`, and it assigns none; any others may |
| `LedgerCorrect` | `ImplementsLedger`, given `SingleController` |
| `StoreTypeCorrect`, `BlobsCorrect`, `CommittedCorrect`, `VersionsCorrect`, `DamageFoundCorrect` | the store's properties, with reused pids, failing calls and damage at any step |
| `LitterCorrect` | `LitterIsAccounted` |
| `CatalogCorrect` | `ImplementsCatalog` |
| `PlacementsCorrect`, `RouterCorrect`, `LaunchesCorrect` | placement by the requirements that `can_run` checks, for every inventory and specification |
| `NothingSkippedCorrect`, `SummaryCorrect` | log cursors and progress |

The argument. `LaunchBound` is not inductive: from `launches = crashes + 1` a
launch would break it. `LaunchesAccounted` says which launches may use the last
unit (those a record, or the call about to write it, accounts for) and that the
record is RESERVED while `submit` is inside, so a `Launch` starts from a key
not accounted for and a crash, or an error of `submit`, that drops the account
raises the bound by one. `TypeOK` does not need that listed files exist:
`IngestFile` stores the content of a file that is there, and raises otherwise.
`RunningHasLiveJob` and `JobsFollowDispatch` are inductive only together: a
dispatch must find no old ended job under its key, which is what the second
says, and a lease recovery must find the job alive to leave the task, which is
the first. `LegalMoves` follows from lemmas `TaskMoves` and `JobMoves`, which
list the moves of each action, and from both invariants. `BoardCorrect` maps
each action to its step of the board; the only place that needs the invariant is
the lease recovery, whose abandoned tasks must all be `Requeueable`. What is
proved of the board alone (`TaskBoardProofs`) is then carried over.

*Collection* (`CollectionProofs`). `PollInv` follows one poll: whatever it
observes as terminal was observed of a runner with nothing more to record, and
the exit code it saw is still on disk, if the key was launched once. With it,
`IngestInv` says of a job that is collected on an exit code that `exit.json` is
stored or still on the list, and, where commands leave no process behind, that
its rows are among its files and each file is stored or still on the list: the
command had ended before its `exit.json`, so nothing can change the workdir. At
`FinishCollect` the list is empty. An ingestion that raises, like a crash,
empties the list as well, but leaves the job COLLECTING. `SuccessIsEarned` and
`EvidenceOnlyFromSuccess` need only that rows are never taken away and verdicts
are final, whatever becomes of the workdir. The same lemmas give
`ResultsAreFinal`: an ended job is nobody's turn in a collection and in no poll.
`ExactlyOnceUncrashed` puts the launch bound beside `CollectionExact` and
`CollectAfterExit` and so rids both of their premise of a single launch.
`SteadyInv` follows a workload that `poll` reports missing, in a controller that
lives on: its ended child is a zombie, thus alive to `poll`, until another
process is spawned, and `poll` spawns none between its two looks; so a process
seen missing was reaped before the look at `exit.json`, which was not there and,
with one launch, never will be.

*Event log.* `SequenceExact` alone is not inductive: a stale counter may well
be ahead of its flush. `Numbers` says the same of what every process would see,
and that a counter never exceeds `event_seq` in its own view; so a flush either
collides or continues exactly. `AuditTrail` rests on `Careful`: every row the
one controller has in memory is what its own view of the database says, and the
pending events of any other process tell only statuses it has read, so that the
guard refuses the flush of a status that it assigned (`GuardHolds`). And it
rests on `Audit`, that the trail is right for the committed rows and would be
after the flush of any process whose counter is up to date (the others
collide). That is where one controller is needed: two would each flush a move
from a status the other has already left. `IMPLEMENTATION_STATUS.md:48-49` puts
two out of scope; `SequenceCorrect` holds for them too. `LedgerCorrect` turns this
trail, which is about neighbours in a set of numbered events, into a replay of a
list from its beginning: `InOrder` is that list, the last event of a row before
any place exists when there is one at all (`Greatest`), and what it says is
where the next one starts (`TrailIsReplay`). `Greatest` is an induction over
numbers, put as the absence of a least counterexample, since the library's
induction rules take an operator as a parameter.

*Store.* `Midway` says what each step of `ingest_file` may rely on: the copy is
good at `replace`, the blob from `seal` on is good unless it was damaged since
(`late`), and the row is not there yet.
Versions are counted up from what is there, so `Numbered` says that those of a
name are `1 .. k`. From that and `VersionsExact` the rows of a name map one to
one onto `1 .. k` (`HighestIsNumber`), which is what `CatalogCorrect` needs.
`LitterIsAccounted` is not inductive: it leaves out what is in hand, so a blob
that a crash left and that this call has found again is hidden, and comes to
light at the next exception. `Paid` counts it all along: everything on disk that
would be litter, except what this very call has made. Each step but a crash or a
failing call leaves fewer such things (`Tidy`), and those two add the one
temporary file, or the one blob, of the call they cut off (`EndLitters`).

*Placement.* That the router's choice exists needs the least index of a set of
GPUs, from the well-foundedness of `<`; that it meets the specification needs
`Rounding`, the half thousandth an offer may lie. `PositionOK` carries the class
of a job from the route to the launch, `LapsesNoted` the history of its GPU.

*Log cursors.* `ViewOK` bounds what a poll has seen by what is written and
orders size before read, so what lies before the next cursor has been read.

**Only model-checked:** the liveness properties `ActiveSettles`,
`CollectionEnds` and `EverythingIngested`; liveness under fairness and ENABLED
are beyond the prover. (`AllWorkSettles` and the other properties of the
violated runs do not hold.) Every safety property, action property and
refinement of the passing runs has a theorem. `ImplementsLedger` and
`AuditTrail` are proved under `SingleController`, which the constants of
`event_log` satisfy. `MemoryOf` and the other pure operators are not recursive
and are proved about like the rest.

## 6. Plan

The order is by importance of what can go wrong.

1. Done: `Lifecycle`, `LocalProvider`, `ResearchController`, their runs and
   proofs.
2. Done: `TaskBoard`, its refinement by `ResearchController`, checked and proved.
3. Done: `EventLog`, checked and proved.
4. Done: `ArtifactStore`, checked and proved.
5. Done: `Placement`, and the tasks behind one the router refuses.
6. Done: `LogCursor`; `CollectionProofs`, with a theorem for every safety
   property of the controller.
7. Done: theorems for the litter of the store and for `AuditTrail` beside programs
   that assign statuses; `Ledger` and `Catalog`, their refinements checked and
   proved; the finality of results.
8. Done: workloads that outlive their runners and change their outputs at any
   time, runners that live on after `exit.json`, the exceptions of `submit`,
   `ingest_file` and the validators, damage at any step; the proofs redone.
9. Left: a refinement of `IngestFile` by `ArtifactStore` as a checked property;
   a run with a task that names itself as a dependency.

## 7. Not modelled

`evaluate_project_transitions` (does nothing); project and approval tables no
phase reads, and `agent_runs`, which nothing writes; the message validation of
`protocols/compute.py`, which has no state; the reuse of a runner's pid by
another process (`provider.py:311`), whose effect on `poll` is that of the zombie;
the last lines of a log, written between the read of a poll and its test of
`exit.json`, which no poll shows (no document says they are); logging,
identifiers, `init-db`, `demo` and `status`, which print or insert; the demo
workload, which `Workload` stands for.
