# A formal model of DataCourt

DataCourt audits image datasets: a user uploads a ZIP archive, a worker ingests it and audits it
stage by stage, reviewers decide the disputed cases "in court", and an export applies their
decisions as a new version of the dataset. The numerical part of the program is large, but what
makes it hard to get right is small: one PostgreSQL database, one object store without
transactions, a job queue in a table of the database, workers that may die at any statement, and
API requests that change the rows a worker is working on. This directory models that part in
TLA+, checks it with TLC and proves the main results with TLAPS.

Paths below are relative to `src/services/api/datacourt/` unless they start with `src/`.

## 1. The system

| component | state it keeps | operations |
|---|---|---|
| Job queue, `jobs.py` | rows of `jobs`: status, attempts, run_after, heartbeat_at, locked_by, cancel_requested, idempotency_key | enqueue, claim, heartbeat, complete, fail, reap_stale, request_cancel |
| Worker, `worker.py` | the job in progress, a heartbeat thread, the flag `cancelled` | run_once, _execute, _on_job_failure, drain, maintenance |
| Dispatch, `execution.py` | jobs.dispatched_at and slot; GitHub Actions runs outside | note_enqueued, dispatch after commit, maybe_redispatch, choose_slot |
| Datasets and versions, `api/routers/datasets.py`, `services/bootstrap.py` | `dataset_versions`: status, upload_id; the archive and multipart uploads in the bucket | create_version, upload parts, finalize, abort, retry-ingest, delete |
| Ingestion, `ingest/` | `dataset_files`, `samples`, classes, splits, manifest | run_ingest_job in chunks, finalize_version |
| Audit pipeline, `pipeline/runner.py`, `services/audits.py`, `api/routers/audits.py` | `audit_runs`, `audit_pipeline_steps`, ledger events | start, run stage by stage, cancel, resume, finalize |
| Stages, `pipeline/stages.py` | artifacts below the audit's prefix, the finding and model tables | load, save, delete the old rows, insert |
| Jury, `ml/jury.py` | none of its own; fills `court_cases`, `case_evidence` | reason codes, deliberate, witnesses |
| Facts, debt, gates, contracts, `pipeline/facts.py`, `ml/governance.py` | `preflight_checks`, `dataset_debt`, `contract_evaluations` | computed by stages, and anew by every request |
| Review, `services/review.py`, `api/routers/court.py` | `human_decisions`, `court_cases.status` | decide, undo, adjudicate |
| Exports, `exporting.py`, `api/routers/experiments.py` | `exports`, `export_decisions`, new `dataset_versions` | create, build, lock the decisions |
| What-if lab, `whatif/lab.py` | one row per experiment | resolve a change set, cut the sets, train |
| Ledger, `ledger.py` | `evidence_ledger`: a hash chain per organization | record, verify_chain |
| Members, `api/routers/orgs.py`, `auth.py`, `tenancy.py` | workspaces, memberships, tokens, sessions, contracts of projects | create, add, remove, delete account |
| Schema, `db/models.py`, `migrations/` | the tables, their foreign keys and CHECKs; alembic_version | upgrade, downgrade, cascades |
| Purge and retention, `services/purge.py`, `services/retention.py` | tombstone jobs, objects under a prefix | schedule, run_inline, run_purge_job, sweep |
| Object store, `storage.py` | the bucket; the cache directory of a worker, its index of sizes, the keys known to be absent | get, put, exists, delete, purge_prefix |
| Contamination, reports, diffs | one row each, written by one job | create, run |
| Numerical code, `ml/`, `benchmark/` | none of its own | pure functions |
| Web application, `src/apps/web` | none the server relies on | polls the API |

**How they interact.** There are no messages: components meet in rows. An API request writes a
domain row and a job row in one transaction; a worker claims the job, reads the domain row, and
writes it in several transactions of its own; when the handler is over, the job row is written in
yet another transaction, and a final failure is copied into the domain row in one more. The bucket
takes part in none of these transactions. Workers wake up through dispatches that may be lost, so
that a status poll or a schedule repeats them.

**What is hard.** The domain row and the job row are never written by the same transaction once a
worker is involved, so each of them may be behind the other; a worker may die between any two
commits, and another one repeats what it did; a worker that merely stalls is replaced and comes
back; jobs.complete and jobs.fail write the row by its id, whoever has it now; requests check a row
and write it later without a lock; and the object store is changed before the row that says so.

**What makes each part correct.**
Queue: a job is run by one worker at a time, at most `max_attempts` times, and is over in the end.
Audit: an audit is run once at a time whatever is cancelled and resumed, completed stages are kept,
only a complete pipeline is finalized, and every started audit settles.
Versions: an ingestion has its archive, nothing is left in the bucket, a ready version is whole and
stays ready.
Review: the status of a case is what its decisions amount to, an export applies exactly what is
settled, what it has applied is not undone, and it makes one version.
Stages: a stage that is run again replaces what it did before, and what a completed stage left
belongs to what it read.
Jury and gates: a case has a witness, one that cannot be trusted convicts nobody, and reviewing a
version does not make its verdict worse. What-if: the variants are compared on the same samples.
Ledger: the chain is linear, append-only, and what `verify_chain` reports is what was altered.
Schema: a migrated database is the declared one, and the program is never blocked out of it.
Deletion, purge, retention: what is deleted is gone with all its rows and objects and nothing else
is. Members: a workspace keeps an owner. Dispatch: a queued job gets a worker.
Cache: a process reads what it wrote.

The hazards found in the code are listed one by one, at their lines, in `PROJECT.json`, with the
properties that cover them or the reason none does.

## 2. The modules

```
JobLease            what a queue promises
   ^ refinement (TLC and TLAPS)
JobQueue  <------ AuditRun          DatasetVersion        Review        Schema <--- Stages
   |    EXTENDS      |                    |                  |                        |
   MC                MC                   MC, Proofs         MC, Proofs               MC, Proofs

Schema <--- Migration, Deletion
PlatformMC EXTENDS Migration, Deletion, Ledger, Members, ObjectCache, Purge, Retention, Dispatch,
                   WhatIf, Jury, Governance

QueueProofs     EXTENDS AuditRun (and with it JobQueue)
SchemaProofs    EXTENDS Deletion, Migration
WorkspaceProofs EXTENDS Ledger, Members
WorkerProofs    EXTENDS Purge, Retention, ObjectCache, Dispatch
RulesProofs     EXTENDS WhatIf, Jury, Governance
```

### JobQueue (`jobs.py`, `worker.py`)

State: the columns of each job row (`status`, `attempts`, `due` for `run_after <= now()`, `stale`
for a heartbeat older than the reaper's cut-off, `cancel_requested`, `locked_by`), and for each
worker where it is in `Worker._execute` (`phase`), with which job (`running`), the flag
`JobContext.cancelled` and the class of the error it is reporting. One action is one committed
transaction: `Enqueue`, `Claim`, `Heartbeat`, `Complete`, `Reap`. `jobs.fail` and
`jobs.request_cancel` read their row without a lock and write it later, so each is two actions:
`LoadForFail` keeps the columns it decides from in `seen`, `CommitFail` writes what follows from them
whatever the row says by then (and, as the session does, no column that has not changed from what
was loaded); the load of a cancellation keeps in `cancelling` what is going to be written, and its
commit writes it. Any claim, reap or completion may come between the two. `Errors` are the classes
of `classify_error` a handler may fail with. `Propagate` is `_on_job_failure`; `Crash` and `Restart`
are the process. Time is the two facts the code asks of it: `BackoffElapses` and
`HeartbeatLapses`. `MayStall` says whether a live worker can miss every heartbeat for the stale
interval; `MayCrash` whether one can die.

### JobLease

The abstract promise: a job is submitted, granted to one holder, lost, given back, granted again at
most `MaxAttempts` times in all, and closed for good. `JobQueue` implements it, with
`state <- LeaseState`, `grants <- attempts` and `holders <- LeaseHolders`, when live workers do not
stall.

### AuditRun (`pipeline/runner.py`, `services/audits.py`, `api/routers/audits.py`)

EXTENDS JobQueue: each action is a queue action together with what the same transaction, or the
handler around it, does to the audit. `StartAudit` creates audit, steps and job; `Load`,
`BeginStage`, `EndStage`, `StageRaises` and `Finalize` are the transactions of `run_audit_job`;
`Abort` (then `RecordFailure`) and `Return` end the handler with `jobs.fail` or `jobs.complete`;
`PropagateFailure` writes the audit; `LoadForCancelAudit` and `CommitCancelAudit`, `ResumeAudit` and
`ResumeAuditSameKey` (a resume within the same second finds the idempotency key of the previous one)
are the routes. A stage is one step: what it computes is left out; a stage the profile skips counts
as completed.

### DatasetVersion (`api/routers/datasets.py`, `worker.maintenance`, `ingest/pipeline.py`)

One version: `row` (status and whether upload_id is set), `archive` (one PUT or multipart; with
images, without, unreadable, or no ZIP file), `store` (the object, the open multipart upload and its
parts), `request`, the ingestion jobs with their workers, the `recorded` paths and the number of
audits started. A request is `Begin` (load and check the row), a step in the store
(`FinalizeInStore`, `AbortInStore`, `CleanUpInStore`) and a commit (`CommitUploaded`,
`CommitRetry`, `CommitFailed`); `LoseRequest` ends it anywhere before. The job is `ClaimIngest`,
`StartIngest`, `RecordChunk`, `FinishIngest`, `CompleteJob`, `FailJob`, `Propagate`, `LoseWorker`.
The queue is folded into these actions, as the lease of `JobLease`: one worker has the job, and
loses it only when it is dead. A presigned PUT is never withdrawn: `PutObject` may come at any time.

### Review (`services/review.py`, `exporting.py`)

One case: `decisions` in the order of their insertion, `case_status`, the open request of each
reviewer, the exports and the versions they make. `StatusOf` is `recompute_status`, `FinalOf` is
`final_decision`, both as functions of a set of visible decisions. A request is two steps:
`StartDecide`/`StartUndo` insert or mark a decision and compute the status from what their
transaction sees; `Commit` writes it (the status column only if it differs from the loaded value,
as the session does). An export is created with its job (`CreateExport`); `StartExport` reads the final
decisions and the next number, as every run of the job does whatever the export's status is;
`CommitExport` writes the version and the result, `CompleteExport` is `jobs.complete`.
`InterruptExport` is a worker that dies or fails anywhere before that, also behind the commit, so
that the job runs again; `FailExport` its end.

### Stages (`pipeline/stages.py`)

`Pipeline` gives every stage as the sequence of its effects in the order of its code: artifacts
loaded, tables looked at, artifacts saved, transactions that delete and insert. `BeginStage`,
`LoadArtifact`, `LookAtTables`, `SaveArtifact`, `DeleteOld`, `CommitRows`, `EndStage`, `FailStage`
carry them out; `StopRunner` is the death of the process, after which the stage starts again from
its first effect. With `MayOverlap` a second process does so while the first still works, as after
a heartbeat that was late. `Skips` says which stages the profile, the data and the contract leave
out. What an artifact or a table holds is the attempt of its stage that wrote it. `runner.py` is in
AuditRun with a stage as one step; Stages is what that step consists of.

### Schema and Migration (`db/models.py`, `migrations/`)

`Declared` is the schema the models declare: each table with the columns that refer to others by
what happens on deletion (`must` and `may`: the row falls with its target, the column may be empty
or not; `unset`: the column is emptied), its unique keys and the values of its enum columns.
Migration runs the two scripts, operation by operation (`Script`), in the transaction and under the
advisory lock of `migrations/env.py` (`Connect`, `LockThenRead`, `ApplyOperation`, `CommitMigration`,
`LoseConnection`), up and down, for several processes beside an application that enqueues jobs.

### Deletion (`api/routers/datasets.py`, `orgs.py`, `auth.py`, `services/purge.py`)

`DeleteVersion`, `DeleteDataset`, `DeleteOrg` and `DeleteAccount` remove the rows PostgreSQL takes
along the foreign keys of Schema (`Falling`), empty what `SET NULL` empties, and schedule purges of
the prefixes the code names (`VersionPrefixes`, `DatasetPrefix`, `OrgPrefix`); `RunPurge` empties
them. A request is one step here; what happens between its steps is the subject of Purge. A row
stands for all rows of its table that belong to one home (a version, dataset, project, workspace or
account). Homes of different kinds are different: all ids are UUIDs (`DeletionAssumption`).

### Purge and Retention (`services/purge.py`, `services/retention.py`, `storage.py`)

Purge follows one deleted version: `SchedulePurge` with its look for running jobs, `CommitDeletion`,
`run_inline` (`StartInline` to `CompleteInline`), the job (`ClaimPurge`, `CompletePurge`,
`PurgeFails`) and under both the pages of `purge_prefix` (`ListPage`, `DeletePage`), while a worker
that does not know of the deletion writes (`ClaimWriter`, `WriteObject`, `WriterEnds`; with
`StallWriter` its heartbeat is older than the look counts). `SweepDue` is the fixed wait of the job:
it ends whatever the writer does. `outrun` keeps whether some writer escaped it (claimed behind the
look, stalled under it, or still writing when it ended), `old` what was stored when the deletion
was committed. Retention has `StartSweep`, which selects what has expired, `SweepArchive` and
`EndSweep`, which commits, rolls back or dies; `ExpireArchive` is time, `LoosenRetention` the
workspace that clears or lengthens `retention_days`, at any moment.

### Ledger (`ledger.py`)

`record` statement by statement: `AcquireLock`, `ReadPrevious`, `InsertEntry`, and the end of the
transaction, `CommitTx`, `RollbackTx`, with numbers that a roll back loses; `Tamper` alters a
committed row behind the program's back. `Intact` is what `verify_chain` computes, for any `Hash`.

### Members (`api/routers/orgs.py`, `auth.py`, `services/bootstrap.py`, `tenancy.py`)

`CreateOrg`, `AddMember`, `CreateToken`, `RevokeToken`, `DissolveOrg`; removal of a member and
deletion of an account as a check and a commit (`CheckRemoval`/`CommitRemoval`,
`CountOtherOwners`/`CommitAccountDeletion`); `ReadActive`, `NumberContract`, `CommitContract` for
the numbered versions of a contract.

### ObjectCache (`storage.py`, CachingObjectStore)

Threads of one process, the store, the directory and the index. `StartCall` begins a get, a put of
an object (`put_file`), a put of a stream (`put_stream`, which leaves index and absent keys alone),
an exists or a delete; `AskStore`, `ReplaceFile`, `Admit`, `Forget`, `UnlinkFile`, `NoteAbsent` are
its steps, one for each call to the store, rename or section under the lock. `WrittenElsewhere`,
`StoreFails` and `AbsenceExpires` are the world outside. `NewProcess` starts with an empty index
over the files that are in the directory (`inherited`: they are served, and in no account);
`NewMachine` starts with an empty directory.

### Dispatch (`execution.py`, `worker.py`, `datacourt-worker.yml`)

The commit hooks (`EnqueueJob`, `CommitEnqueue`, `RollbackEnqueue`, `DispatchCommitted`), the polls
(`PollStamp`, `PollDispatch`), the schedule (`ScheduleRun`), concurrency groups with at most one
active and one waiting run (`StartRun`), and the drain loop (`CheckQueue`, `ClaimJob`, `EndJob`,
`LookAgain`, `IdleOut`, `BudgetOver`, `HandOver`, `RunDies`). A budget is fresh, short or out.

### WhatIf, Jury, Governance (`whatif/lab.py`, `ml/jury.py`, `pipeline/facts.py`, `ml/governance.py`)

WhatIf applies the actions of a change set in any order (`RemoveSamples` to `MoveLeakageOutOfEval`),
takes back what is protected (`Resolve`) and cuts the sets (`CutSets`). Jury measures one sample
signal by signal (`Measure`), and `Hear` takes the first of `Rules` that matches and calls the
witnesses; a measurement is the range of the default thresholds it falls in. The action and the
hypothesis of the label stage are measured last: any that the measurements before them, those of
unreliable witnesses included, leave possible (`Consistent`). Governance computes
debt, gate and contract from the cases while they are decided, disputed, reopened and resolved
(`DecideCase` to `ResolveCase`), gates overridden, contracts replaced and audits repeated.

### PlatformMC

The parts from Migration to Governance share no variables, so one run checks
them side by side: `part` is chosen once, the others rest. It costs no states (the sum of the parts,
not the product) and keeps their instances in one place.

### Proof and MC modules

`*MC` holds the values of the constants for TLC. `*Proofs` holds the theorems about the module it is
named after; the others are about several: the queue and the audit on it, the database as a whole,
what a workspace keeps, what workers share beside the queue, and what decides by fixed rules.

## 3. The runs

| run | question | result |
|---|---|---|
| `queue_stalls` | Does the queue keep its attempt limit and settle every job, with workers that crash, stall and come back late? | yes |
| `queue_cancel` | Does a cancelled job end? | **no** |
| `audit_resume` | Do crashes, retries, cancellations and resumes, in any order, keep the audit run once at a time, its stages, its completeness and its record, and does the queue below it implement `JobLease`? | yes, outside the window of a claim |
| `audit_live` | Does every audit settle while no process dies, and has it a job until then? | yes |
| `audit_lost` | Does it settle when a worker may die? | **no** |
| `version_serial` | Are archive, bucket, row and files of a version in step, with lost requests, dying workers and early retries? | yes, one request at a time |
| `review_serial` | Do status and exports follow the decisions, also when an export is built again? | yes, if requests do not overlap each other or an export |
| `review_overlap` | ... if two requests on a case overlap? | **no** |
| `review_rerun` | ... if a worker dies behind the export's last commit? | **no** |
| `stages_rerun` | Do stages that are run again, also beside a slower process, replace what they left, find their inputs, and leave results of one attempt? | yes (rows may double only where two processes overlapped) |
| `platform` | Do migration, deletion, ledger, members, cache, purge, retention, dispatch, what-if, jury and governance keep their rules? | yes, under the assumptions named below |
| `dispatch_live` | Does every queued job get done, whatever dispatch, attempt or run is lost? | yes |

The properties are stated, each with the code it is about, at the end of each module. What they
say beyond the obvious: `VerifyFindsTampering` is an equivalence (nothing altered is missed, nothing
intact reported); `ReviewNeverWorsens` compares a gate before and after a review; `NothingOrphaned`
and `NoLeftovers` speak of rows and objects at once; `OwnWritesSeen` relates what a thread will be
answered to what its process has written.

Type invariants are not among the runs' properties: they are proved (section 5).

### Bounds, and why they are enough

* `queue_stalls`: three workers, one job, 2 attempts. Two of the workers may be late on the job at
  once, each with the row it has loaded; rows do not interact. Two attempts are the first number
  with a retry that is also the last attempt. `queue_cancel` needs two workers and no stall. Of the
  error classes, one that is retried and one that is not stand for the others; all of them are in
  the proofs.
* `audit_resume`: two workers, two jobs (an audit resumed once), two attempts, two stages: a
  completed stage before one that fails. Workers and jobs are interchangeable and only safety is
  checked, so their symmetry is used. The `audit_live` run has 3 attempts, as in the code.
* `version_serial`: two parts, three files, three jobs (the first and two retries), three attempts
  as in the code; all archives. One request at a time is what `RequestsOverlap = FALSE` admits, so
  that one request slot is no further restriction. `Jobs` bounds the number of retries.
* `review_serial`: two reviewers, one of them an admin, three decisions with two keys besides
  unsure and escalate, one export that runs twice. Three decisions are a decision, one that
  disagrees and a third that replaces or adjudicates; a second export adds nothing to a case whose
  lock the first one has set, save the race for a version number that the guard of `CommitExport`
  decides.
* `stages_rerun`: the real sequence of stages, two processes, one stage run again, which may be any;
  an audit that trains and evaluates, and one without training but with a contract: between them
  every stage runs, and those that need a trained model are skipped.
* `platform`, by part. Migration: the real scripts and two migrators, one to hold the lock and one
  to find the result. Deletion: two workspaces of different owners, one of them co-owned, a dataset
  with two versions beside one with a single version: every deletion leaves something of the same
  kind. Ledger: two workspaces, two sessions, four numbers: a chain of three beside an interleaved
  one, with a number lost. Members: three accounts (an owner, a second one, a guest), two requests.
  Cache: two threads, two keys, room for either but not for both, two writes besides the streams,
  the second one too large to keep. Purge: three objects with pages of two (the last page is short),
  two attempts. Retention: two archives, two sweepers. Dispatch: two jobs, one too long for a worn
  budget, one slot and the schedule. What-if: seven samples of two classes, some in both the sets a
  rule removes and the ones it keeps. Jury: three signals out of the ordinary, one more than the
  rule that looks for two witnesses. Governance: three cases, two audits, thresholds as in the code.
* `dispatch_live`: a long job and one that only another job enqueues, one slot beside the schedule,
  one fault (a dispatch lost, an attempt failed, a run dead) at any moment.
* Every other bound is a constant of its module (`MaxDecisions`, `MaxRuns`, `NumStages`, `MaxSeq`,
  `MaxWrites`, `MaxContracts`, `MaxAudits`, `MaxReruns`). Runs with `CHECK_DEADLOCK FALSE` are of
  systems that stop: an audit that is over, a version that is ready, a case with no decisions left,
  a workspace deleted.

The runs that pass hold under named assumptions. Each constant that is FALSE there admits something
the code does not prevent; section 4 says what breaks with it. They are `MayStall` (a live worker
misses every heartbeat), `MayCancelClaimed`, `RequestsOverlap`, `ReviewDuringExport`,
`MayFailWhenReady`, `MayOverwrite` and `MayInterleave`. The run `queue_stalls` has `MayStall` TRUE:
that jobs settle needs no such assumption, and the attempt limit is stated for both cases. Without
stalls it is the limit of the row. With them a worker that stalls between the two halves of
`jobs.fail` may hand out a last attempt again, and the limit is exceeded by less than the number of
workers, and by less than the limit itself.

### Fairness

**Queue and audits.** Weak fairness only. A due job is claimed (`ClaimJob`: workers poll in
`run_forever` and `drain`, and a dispatch, a poll of the status page or the schedule starts one); a
handler ends (`HandlerEnds`: every job has a time limit enforced by `JobContext`); a worker
that has begun to record its failure commits it and propagates it while it is alive; a dead worker is replaced; backoffs end; without a
live worker the heartbeat grows stale; the reaper runs in every worker and on status polls. Nothing
is assumed of users: `Enqueue`, a cancellation (either half of it) and `ResumeAudit` may never come. No
fairness is assumed of a handler's success: it may fail at every attempt, and jobs settle because
attempts are bounded.

**Dispatch.** Weak fairness of the schedule of the workflow, of time (`BecomesDue`, `GoesStale`) and
of each step of a run. Strong fairness of `IdleOut`, because a run looks again and again and the
action is enabled only after each look; the code keeps `idle_since` until the run has had a job, so
that a run that never finds one does stop. Nothing is assumed of clients that poll: they may close
the page. That a dispatch arrives is not assumed either, only that faults are finitely many.

## 4. Where the code disagrees with what it says

Each of these is a run that TLC refutes; `PROJECT.json` quotes the line that is contradicted.

1. **A cancelled job may stay queued for ever** (`queue_cancel`). A running job whose cancellation
   is requested and that then fails with a retryable error is re-queued with its flag; no claim
   takes a row with the flag, and nothing else moves it.
2. **A lost worker leaves its audit running for ever** (`audit_lost`). `reap_stale` fails the job of
   a worker that died on its last attempt, and a worker may die between `jobs.fail` and
   `_on_job_failure`. In both cases the audit says running, cannot be resumed, and keeps new audits
   of its version away. The same step leaves a version ingesting.
3. **Two decisions that overlap leave a wrong status** (`review_overlap`). Each request computes the
   status from decisions that do not include the other's; the lock of the ledger comes too late.
4. **An export that is repeated makes a second version** (`review_rerun`). `run_export_job` does not
   look whether it has already completed.

What the assumptions of the passing runs are worth: with the constant TRUE, TLC refutes the property.

* `MayStall` breaks all that `audit_resume` says of one run at a time, and the limit of
  `max_attempts`: see the attempt limit in section 3.
* `MayCancelClaimed` breaks `StoppedAuditIsIdle` and `CompletedStagesKept`. Until the handler's
  first commit the audit says queued; a cancellation marks it at once, it can be resumed while the
  first worker goes on, and two workers run it.
* `ReviewDuringExport` breaks `ExportedDecisionStands`. Only completed exports lock decisions; one
  that is being built does not.
* `RequestsOverlap` in DatasetVersion, with two requests, breaks `IngestionHasArchive`,
  `ReadyIsWhole` and `ReadyIsFinal`. Two finalizes, or a finalize and an abort or the clean-up,
  overwrite each other's status: a version can be queued for ingestion without its archive, or set
  back from ready to uploaded.
* `MayFailWhenReady` breaks `ReadyIsFinal`: a late `_on_job_failure` fails a version that is ready,
  if the only query of a repeated job or `jobs.complete` raises on the last attempt.
* `MayOverwrite` breaks `EveryOrgOwned`: `add_member` sets the role of an existing member, the last
  owner included (`api/routers/orgs.py:109`), which removal refuses (`:162`).
* `MayInterleave` breaks it too: two removals each count the owner the other one removes.

Where a property makes an exception, the code does not keep it there:

* `NoLeftovers` excepts what a writer stores that was `outrun`. `purge.schedule` looks for running
  jobs before the deletion commits and believes heartbeats; a job of the version that is claimed in
  between, or whose worker is stalled, is not waited for; and the wait is fixed (`purge.py:87`: the
  stale interval and five minutes) where a job may take hours. What such a writer stores after the
  purge stays. Everything stored before the deletion goes in any case.
* `ArchivesMatchRows` excepts rows that were `overtaken`: a sweep has deleted the archive, and
  before the row is marked (or after a roll back) the workspace clears or lengthens its retention
  (`orgs.py:95`). No later sweep selects the row, which goes on naming a deleted archive.
* `OwnWritesSeen` excepts keys whose last write was `bypassed`: `put_stream` does not take the key
  out of the keys known to be absent, and a write too large for the cache leaves the file of the
  previous one in place. The process goes on answering the one or the other.
* `AccountingExact` excepts files that are `inherited`. A new process indexes nothing of what it
  finds in the directory (`storage.py:692`): those files count for nothing and are evicted by
  nothing.
* `WeakWitnessOnlyShields` lets an unreliable witness decide whether a sample is taken for rare, since
  the label stage does not ask for reliability.

Seen while modelling, without a run:

* An escalated case is marked disputed, yet an export applies the decision of the other reviewers
  if they agree (`services/review.py:48`): `FinalIffSettled` therefore excludes escalation.
* Two resumes within one second: the second finds the job of the first by its key. If that job is
  over, the audit waits as queued for ever. The step is `ResumeAuditSameKey`; safety holds with it
  (`audit_resume`), `UnfinishedAuditHasJob` is checked without cancellations.
* A version without valid images is failed before its job is over. If the worker then dies, the
  reaper re-queues that job, and retry-ingest adds a second one beside it (`MayRetryEarly`). The
  run admits it and the properties hold; the theorems do not exclude it either, because such a
  version never becomes ready.
* retry-ingest is documented for formats that have become supported (`datasets.py:351`), but files
  that were recorded as rejected count as recorded and are not inspected again (`pipeline.py:146`).
* `stages.py` says that each stage clears its own outputs. `contract_evaluations` are only added:
  an audit whose contract stage is run again has two (`Appended` in Stages names the table).
* The docstring of the cache says that it lives for one worker process; its files outlive it.
* The text of a weak witness says that it "is not counted" (`jury.py:237`). It produces no code and
  convicts nobody, but it has gone into the action and the hypothesis of the label stage, and with
  less weight into the suspicion that decides whether a case is opened.
* The rule on unlearnable samples spares those that may be rare. With the severities as they are
  none is both: severity high excludes the action (below 0.6, `labels.py:148`) and outscores the
  hypothesis.
* `facts.py` says that resolved cases no longer count; `leakage_high_count` counts every finding,
  so a contract on it cannot be met by review. `ReviewNeverWorsens` is about the facts that follow
  the cases.
* Capping in `rebalance` may discard samples that `preserve_rare` keeps elsewhere (`MayCap`).
* `src/docs/METHODOLOGY.md:191` opens a case for any sample with a quality, duplicate or other
  finding; `stage_cases` looks only at quality findings of medium and high severity, adds samples of
  harmful influence, and drops those whose verdict is KEEP (`Candidate`, `LeftOut` in Jury).

## 5. What is proved

TLAPS proves the following for all values of the constants that satisfy the named ASSUMEs of each
module: any sets of jobs, workers, files, parts and reviewers, any `MaxAttempts` and `NumStages`.

**QueueProofs.** *The queue*: `TypeCorrect`; `AttemptsStayBounded`, with the limit of the row if
live workers do not stall, and with the wider one if they do; `LockMatchesUnlessStalled`,
`ExclusiveExecution` and `QueueImplementsLease` if live workers do not stall. The attempt limit is
not inductive alone: the claim does not look at it, so the invariant also says that a queued row has
an attempt left; with stalls, that from the last attempt on the claims made or already decided, by
workers late in `jobs.fail` too, stay below the wider limit (`CountInv`). Exclusive
execution needs that a worker in a handler still owns its row (`ExecutorOwnsRow`), since complete
and fail write without a condition. The refinement is one step simulation per action under these
invariants.

*The audit*: `AuditRunsOnQueue`: the audit's specification implies the queue's, so that every
theorem about the queue holds under it. `AuditTypeCorrect`. If live workers do not stall and no
cancellation hits a claimed job: `OneRunAtATime`, `StoppedIsIdle`, `AllStagesDone`, `StagesKept`,
`RecordedAtMostOncePerJob`. The invariant has these parts: types and where a worker is
(`AuditTypeInv`); a job has one worker until it has reported, and a failure that is being reported
stands (`HolderInv`); only the job the audit names can still run, and a stopped audit has none
(`LiveInv`); the stages behind a worker are complete (`StageInv`); no more completions are recorded
than jobs were made, and fewer while the audit is not completed and a job of it can still run
(`RecordInv`). `LiveInv` is the one that matters: a resume is allowed by the audit's status only,
and must find no job left. `NoAuditLeftBehind` holds where no worker stalls or dies and nobody
cancels. It needs besides that a running job has a worker whose heart beats, and that a handler
about to return leaves a completed audit (`JobInv`).

**DatasetVersionProofs.** `VersionTypeCorrect` in every deployment. With requests that do not
overlap: `ArchiveStays` and `UploadsAreClosed`. If besides no job of a ready version raises:
`ReadyMeansWhole`, `ReadyStays`. The invariant relates what an open request has loaded to the row
(`RequestInv`), says what a queued, a starting and a failing job know of row and archive
(`IngestInv`), that of an archive with images one job at a time is alive and its worker's list of
files is what is not recorded (`ImageInv`), and that a failure still to be reported belongs to a
version that cannot be ready by then (`StatusInv`). An early retry is admitted: two jobs meet only
over an archive without images.

**ReviewProofs.** `ReviewTypeCorrect`; `FinalWhenSettled` (the two classifications of decisions
agree, for any reviewers and any interleaving); `StatusFollowsDecisions` if requests do not overlap;
`AppliedDecisionsStand` if none overlaps an export, however often exports are built
again. That the latest decision of a set exists is derived from the well-foundedness of `<` on
the naturals.

**StagesProofs.** For any number of processes and reruns and any kind of audit: `LoadsNeverFail`,
`RowsComeFromOneRun`, `StagesBelongTogether`, and the types (`StagesSettle`). The proof has two
layers. The first is about the text of the stages: `Proper` says of one effect that it reads what
earlier stages write, writes what belongs to its stage, and clears what it fills again or what later
stages fill, and each of the sixteen stages is a list of proper effects. The second is about the steps
and uses nothing else of the stages: artifacts do not vanish (`ArtifactInv`), a stage that runs has
the stages before it behind it as long as no two processes met (`OrderInv`), a transaction deletes
what its table holds (`RowsInv`), and the effects a running stage has had so far are still what it
made, from what it read (`WholeInv`).

**RulesProofs.** `ExperimentsAreFair`, for any samples, findings and change sets.
`WeakWitnessesOnlyShield` and `NoSignalAloneConvicts`, for any sample and any combination of
measurements: the proofs go through the rules of the jury in their order, each with what its
precondition says of the witnesses. The first compares the case with that of the same sample
measured otherwise by its unreliable witnesses, and labelled accordingly: all rules are the same but
the one for rare samples and the last one (`RulesThatStay`), the one on unlearnable samples because
the label stage takes none of them for rare. `ReviewIsMonotone`, for any number of cases, any
findings that do not follow from them and any thresholds: debt, gate and contracts are sums and
comparisons over the open cases, so that the lemmas are about their cardinalities.

**SchemaProofs.** *Deletion*, for the schema as it is declared and any versions, datasets, projects,
workspaces and accounts: `SurvivorsStayWhole`, `NothingIsOrphaned`, `OtherVersionsStay`. Of the
tables the proof uses what `Shape` says of each: its references lead to fewer and fewer tables
(`Ordered`), so that what a row stands on can be followed by induction on six levels
(`TableInduction`, `RowInduction`; the cycles of the schema are all SET NULL), they lead outward,
from version to dataset to project to workspace (`Outward`), and every table has the one that ties
it to its level (`Anchored`). From this follows what a row stands on: its home and whatever the home
lies in (`SupportReaches`), nothing else (`SupportStaysHome`), and an account only if the row names
it (`SupportNames`). The invariant says that whatever a row stands on is there (`RowsInv`), and that
a place in the bucket is in use or in a purge job, never both (`ObjectsInv`).

*Migrations*, for any migrators and any purges enqueued beside them: `HeadMatchesModels`, that is
`HeadIsDeclared`. The proof has two layers. The first runs the four scripts: a `Route` is a list of
operations each of which finds what it asks for, and a script `Leads` from one database to another
if it is a route between them. For revision 0001 the tables are numbered in the order they are
created (`Rank`); every table refers only to tables before it, so that after n operations the
database is `Grown(n)`, and the seventeen parts of the script, which take up one stretch of numbers
each (`Segment`), join into one route. Its downgrade drops them in the reverse order, from the top.
Revision 0002 exchanges the CHECK of the job types and adds columns: narrowing the CHECK on the way
down is where rows of the removed type matter. The second layer is about processes: what is
committed is the `Ideal` database of the revision (`CommittedInv`), and an open transaction, which
has read the revision under the lock, is somewhere on the route of its script from there to its
target (`WorkInv`). That a purge is enqueued while a downgrade has deleted the others is excluded by
the table lock the narrowed CHECK takes.

**WorkspaceProofs.** *Ledger*, for any workspaces, sessions, contents and hash function:
`LedgerVerifies` and `LedgerAppendOnly`. The invariant (`LedgerInvariant`) says that a number is given
once, that the open rows of a session come behind every committed row of their workspace and nobody
else has any there, that each row was linked to its predecessor when it was inserted, and that a row
which differs from its hash was altered. It rests on the advisory lock: without it a session's `prev`
may not be the newest entry when it inserts. *Members*, for any workspaces, accounts and requests:
`OwnersStay`, if `add_member` changes no role and removals do not interleave (at most one request has
checked and not committed, and what it has checked still holds); `NewestCounts` without restriction
(contracts are numbered without a gap, because the unique key refuses a number twice, and the newest
one is the active one).

**WorkerProofs.** *Purge*: `NothingLeftOver`, for any objects, page size, number of attempts and writer:
nothing of what was stored before the deletion is left, and nothing at all unless a writer was
outrun. Its invariant follows the loop of `purge_prefix` (what a finished or truncated page still
leaves) and says that a writer which still writes while the purge is under way has been counted in
`outrun`. *Retention*: `SweepsMatchRows` for any archives and sweepers, and a retention loosened at any
moment. *ObjectCache*, for any keys, sizes and threads, through any number of processes:
`CacheAnswersTruly` (a key that no call is about to settle is the same in cache and store, and each
call knows what it has done so far: `CoherenceInv`) and `CacheAccountIsExact` (every key is accounted
for once, and a file that is not is about to be admitted or removed or was inherited: `LruInv`,
`FileInv`). *Dispatch*: `WakeupsStay`, for any jobs, slots and number of
faults: a due job that no fault has struck has a run coming. It is not inductive alone: a job waits
only after a failed attempt and one without a run was left by a fault (`RowKept`), and a run whose
budget is worn has had a job (`RunKept`), which is what the hand-over asks for
(`WornRunsHandOver`).

**Assumptions.** Apart from the named ASSUMEs, which only say what kind of values the constants are, a
theorem's restrictions are in its statement.

**Only model-checked.** Liveness (`JobSettles`, `AuditSettles`, `JobsGetDone`): fairness and ENABLED
are outside the prover. Every other property of a passing run is stated by a theorem.

## 6. What is abstracted

* A transaction is atomic, save where another may come between what it reads and what it
  writes: `jobs.fail`, `request_cancel`, the decisions, exports, removals and contracts. `cancel_audit`
  reads the audit and its job in one step, and one cancellation of a job is open at a time (a further
  one replaces it). A commit whose answer is lost is not modelled.
* `claim` takes any due row: priority, preferred job and time budget are left out, so what is shown
  holds for every order.
* Wording, progress, events, statistics, and everything a stage, an image or an archive computes.
* A review request that is lost before its commit leaves no trace and is not a step; notes and
  evidence snapshots are left out.
* In Review, the lease of an export job is folded into its runs: one worker has it, which does not
  stall.
* In ObjectCache, one process at a time has the directory, and a hit reads the file in the step that
  finds it.
* In Purge, one writer at a time; a second attempt of a job whose worker stalled is not followed.
* In Ledger, a payload is what the hash is computed from; its way through JSONB and the timestamps
  of the database is taken to give back the same.
* In DatasetVersion, retries within one second of each other, cancellation of ingestion, and sample
  indices, classes and splits.
* In Stages, what is in an artifact or a row besides the attempt that wrote it; in Deletion, one
  row of each table for each home; in Dispatch, which of several slots is the least busy.
* In Jury, the numbers behind a measurement. Density, attributes and the gap between two classes,
  which the label stage also looks at, are not kept, so that it may give any action and hypothesis the
  measurements do not rule out; in Governance, findings other than cases and leakage
  (one given background), and contract rules other than upper bounds.

## 7. Not modelled, and why

| part | reason |
|---|---|
| Archive validation and image decoding | pure functions of bytes that tests reach; what they answer is `Files` and the kinds of archive of DatasetVersion |
| Numerical algorithms | floating-point arrays, out of TLC's reach; the ranges of their results are inputs of Jury and Governance |
| Contamination checks, reports, version diffs | one job that replaces its own row or files, with the behaviour of a stage of Stages; the contents are matching or formatting |
| Explanations, blame, counterfactuals, budget | read-only computations on scores |
| Views and read-only routes | queries and their JSON |
| Benchmark and demo | offline evaluation and demo data |
| Configuration, logging, command-line checks | no state that others depend on |
| Web application | pages that poll; the polls that matter are actions of Dispatch |

Of the parts that are modelled, sign-up and passwords, the order in which the queue prefers due
jobs, and two audits of one version at once are the ones left out that have states of their own.
