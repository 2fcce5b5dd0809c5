# Content automation: a TLA+ model of its background work

The repository is a TypeScript monorepo: a Next.js web application (`apps/web`),
a worker process (`apps/worker`) and shared packages (`packages/db`, `domain`,
`queue`, `integrations`, `config`, `observability`). Users upload or import
Instagram videos, have them analysed by a model, let the worker synchronise
posts and metrics, and get statistics and a content strategy from them. Nearly
everything that is hard happens between processes that share one PostgreSQL
database: web requests, handler slots, dispatchers, reconcilers and timers.
This directory holds TLA+ modules of that part and of the rules it applies, TLC
configurations that check them, and TLAPS proofs.

## 1. Inventory

State is PostgreSQL rows unless said otherwise. "Hard" names what a test hardly
reaches; `PROJECT.json` lists each hazard at its line.

| Component | State | Operations | Interacts with | Hard | Must hold |
| --- | --- | --- | --- | --- | --- |
| Job queue and outbox dispatch (`background-jobs.ts`, `queue.ts`) | `background_job`, `job_outbox`, the pg-boss delivery | enqueue, lease rows, publish, mark, release | execution through deliveries; reconciliation | crash between publish and mark, two dispatchers, overrun leases | a queued job is deliverable; status and row agree |
| Job execution (`job-execution.ts`) | job, `job_attempt`, lease, the handler's result | load, check result, claim, guard, heartbeat, stage, commit success or failure, recover a lease | handlers, gate, reconciliation, operations | expired leases of live attempts, cancellation races, worker death | one active attempt, budget, results that match attempts |
| Job reconciliation (`job-reconciliation.ts`) | the same rows, plus what a scan read | recover leases, requeue retries and stranded deliveries, recreate outbox rows, repair or flag results | everything above | scans that are stale when applied | healthy leases are left alone, every job settles |
| Job operations (`job-operations.ts`) | the same rows | cancel, manual retry | execution | accepted requests racing commits | cancellation is final, bounded attempts |
| Concurrency gate (`concurrency.ts`) | counters and a queue in memory | acquire, drain, release, abort | handlers that call a provider | re-entrant drains, aborts racing grants | exact counters, limits, no lost waiter |
| Uploads and assets (`video-upload.ts`, `asset-*-handler.ts`, `s3-adapter.ts`) | `video_upload_intent`, `video_asset`, provider uploads and objects | initiate, complete, repeat, abort, expire, validate, purge | job pipeline, object storage | provider effects that no transaction covers | bytes and rows agree, decisions stand, nothing stays for ever |
| Analytics runs (`analytics-runs.ts`, `recalculate-handler.ts`, `analytics-scheduler.ts`) | dirty marker, `account_analytics_runs`, run statistics | mark, sweep, recalculate, activate, fail | job pipeline, snapshots, analyses | changes during a run, two workers, keys that outlive jobs | one complete published set, never backwards, no change forgotten |
| Feature statistics (`feature-statistics.ts`, `analytics-statistics.ts`) | `account_feature_statistics`, the set of a run | read inputs, compare, classify, reuse or store, publish | analytics runs, strategy | rows reused by fingerprint, small groups at the thresholds | a published set is about the posts the run read; no strong class rests on one post |
| Measurements (`analytics-metrics.ts`, `analytics-cohorts.ts`) | none | derive a metric, select a window and a snapshot, drop collaborator copies | statistics | order of rows, missing values, duplicates | a value is one measurement of one video at a comparable age |
| Video analysis (`analysis-run-handler.ts`, `post-analysis.ts`) | `analysis_job`, provider file, current analysis | request, upload, generate, repair once, publish, delete the file | Gemini, assets, analytics | unfenced stage and file writes, leaked files | one analysis a request, files released |
| Strategy generation (`strategy-*.ts`) | `strategy_generation`, manifest, current strategy | request, regenerate, stage, repair, publish, fail | analytics runs, Gemini | late attempts undoing a result, evidence that changes between judging and freezing | finished stays finished; a frozen manifest can be answered |
| Instagram synchronisation (`sync-account-handler.ts`, `instagram-media.ts`, schedulers) | `sync_run`, cursor, posts, snapshots, comments | start, commit page, complete, fail, sweep, capture, import comments | token, analytics, pipeline | a RUNNING run is a lock; late attempts move cursors; captures run late | cursors never pass what is not stored; runs end with their jobs |
| Connection and tokens (`instagram-connection.ts`, `instagram-token.ts`) | account, credential, the sealed state of the browser | authorise, connect, disconnect, refresh, require reauthorisation | synchronisation | refresh racing reconnection and disconnection, lost commits | one usable token, never an older one |
| Media import (`instagram-media-import.ts`, `media-import-handler.ts`) | the job, the object, the asset | request, read, stream, record, validate, purge | uploads, storage | two attempts streaming at once | one object, and the asset is it |
| Chat (`chat-turn.ts`, `chat-sessions.ts`, `chat-context.ts`) | session, messages | ask, answer, rename, delete, read | Gemini, strategies | two turns at once, strategies published meanwhile | order, citations of the strategy that was read |
| Access (`auth.ts`, `workspace-members.ts`, `auth-options.ts`) | users, subjects, session versions, the token | sign in, grant, change status, request, sign out | all | status changes between any two reads | only current sessions are admitted |
| Retry policy (`job-retry.ts`) | none | decide | execution | hints, jitter and horizon at their edges | at least what the provider asked, within a day and the budget |
| Browser upload session (`upload-client.ts`, `video-upload.tsx`) | a closure in the browser | start, pause, resume, cancel, complete | upload routes, storage | buttons between any two answers | a completion lists every part |
| Worker process (`worker/src/index.ts`, `queue/src/worker.ts`) | flags, timers, subscriptions | start, unwind, signal, shut down | everything in the worker | start-up and shutdown of one process at once | nothing uses the database after it is disconnected |

Not state machines: the read models, the user interface, configuration and
observability.

## 2. Plan

Modelled, in this order, because everything else is a job: the job pipeline with
its abstract contract and its first proofs; the concurrency gate, with a full
proof; uploads and assets; analytics runs; then the handlers and commands of
every other component, and the rules they apply.

Section 5 says what is proved: every safety invariant, every action property and
both refinements that the runs check. The liveness properties are what is left to
TLC, and stay there.

Worth modelling if the code grows: trends, and the pooled scope of statistics
together with the runs that publish it.

## 3. Modules

```
JobState                 rows and shared definitions
  JobDispatch            background-jobs.ts, queue.ts; pg-boss is external
  JobExecution           runIdempotentJobHandler and what it calls
  JobReconciliation      recoverExpiredBackgroundJobLease, reconcileBackgroundJobs
  JobOperations          cancelBackgroundJob, retryBackgroundJob
    JobPipeline          their composition, properties, fairness, two refinements
      JobPipelineProofs     types, attempts, budgets
        JobOutcomeProofs    results, repairs, leases, refinements
      MCJobPipeline
JobContract              what a job promises, without leases or deliveries
ConcurrencyGate          concurrency.ts
  ConcurrencyGateProofs, MCConcurrencyGate
VideoUpload              web and worker sides, with the object storage
  VideoUploadProofs, MCVideoUpload
AnalyticsRuns            marker, sweep, handler, publication
  AnalyticsRunsProofs, MCAnalyticsRuns
HandlerJobs              what a handler sees of the pipeline, which JobPipeline refines
  InstagramSync          sync_runs, cursors, media          (InstagramRules)
  PostSnapshots          captures by age                    (InstagramRules)
  PostComments           comment pages                      (InstagramRules)
  InstagramConnection    accounts, credentials, tokens      (CredentialRules)
  MediaImport            import of a source video           (MediaRules)
ProviderAnswers          calls of the rules on what a provider answers
    InstagramProofs                                         (both)
    MCInstagram          one of these per behaviour
HandlerJobs
  AnalysisRun            analysis.run                       (GeminiRules)
  StrategyGeneration     strategy.generate                  (StrategyRules)
FeatureStatistics        the test of a group, and what runs store and reuse
MetricRules              derived metrics and cohorts, and calls of them
AnalysisContract         the validator of an analysis, and a call of it
ChatTurn, WorkspaceAccess, UploadClient, WorkerLifecycle
RetryPolicy              chains of decideJobRetry
    ContentProofs                                           (the three groups above)
    MCContent            one of these per behaviour
NullValue                the one constant Null
```

A module named `...Rules` is pure: operators that translate the functions of
`packages/domain` and of the clients, without state. Where a property is about
the functions themselves, a small specification calls them: `ProviderAnswers`,
`MetricRules` and `AnalysisContract` have one variable each, the last call, and
the inputs that may come are constants of any size.

### Job pipeline

One record per row. Time is abstracted to the comparisons the code makes:
`leaseExpired`, `retryDue`, `due`, `aged` are raised by a step of the clock and
lowered by the write that moves the timestamp. A lease identifier is fresh per
claim and is carried by the attempt, so the attempt number names it; 0 is null.
A transaction that reads a row and updates it under its version is one step.
Where the code does *not* recheck what it read (a guard before a stage write, a
scan before a flag, a result check before a claim) reading and writing are two
actions with the value kept in the process.

A pg-boss delivery of a job is absent, `Created`, or active with a worker. The
singleton key makes publishing a second one a no-op while one exists. An active
delivery of a dead worker goes away by expiry, with its handler possibly still
running; a created one may be purged.

`Workers`, `Dispatchers` and `Reconcilers` are slots that do one thing at a time;
two slots stand for two concurrent loops, in one process or in two.
`LegacyJobs` start QUEUED without an outbox row, the state `repairMissingOutbox`
exists for. `InspectedJobs` have a result inspector. `SideResultJobs` have a
`resultExists` that others can make true, as `asset.cleanup` has.

`JobContract` has only state, attempts used and granted, the request to cancel,
and whether a result was committed. `JobPipeline` implements it under the
mapping `Contract`. Upwards there is `HandlerRow`, what a handler's module sees of
a job: its state with waiting for a retry folded into QUEUED, its attempt, the
request to cancel, and whether a lease of it ever expired. `HandlersSeeTheirJobs`
says that the pipeline changes that only by `JobMove`, the steps `HandlerJobs`
offers: a recovery that settles a request cancels, an attempt granted by hand is
not retried automatically. So what is shown of a handler over `HandlerJobs` is
shown over jobs as the pipeline runs them.

### Concurrency gate

JavaScript runs one callback at a time, so the turn is the atomic unit, except
that `drain` is a loop whose iterations are kept apart (`index`), and nothing
else runs while `index # 0`. An abort signal fires between turns and its
listener may run later; a permit may be released twice (`Unreleased` is the
flag that makes the second call harmless).

### Uploads and assets

`upload` and `object` are the provider's state, `intent` and `asset` the rows,
and each `await` of the web handlers is a step, because another request, a sweep
or a death may come there. Size is abstracted to "declared" or "other". The
three kinds of job (validation, cleanup, purge) are reduced to their state;
`FailedCleanup` is what remains of a cleanup job that used up its attempts: its
key carries the day, so that a later sweep enqueues another.

### Analytics runs

Time is the number of input changes so far; the marker, the snapshots and the
analyses are the changes that produced them. An account has one post. A run is
the inputs it read, the families expected and stored, and the change at which it
started. The job is what the pipeline guarantees of it. The commit is two steps,
because its transaction reads the previous run before it writes; the job row is
locked in between. The window (`analyticsDueAt`) only delays the sweep, so a
sweep may come at any time after the marker. A sweep may stop between two jobs;
a pooled key is that of any set of due accounts, as accounts fall due one by
one.

### Handlers and commands

The modules from here on are single components. `HandlerJobs` gives those that
are jobs what the pipeline leaves for a handler to see (`HandlersSeeTheirJobs`):
a row, the attempt that holds the lease, a commit that checks it, and a failure
settled by its class; waiting, the outbox and the delivery are one state. Every `await` at which
another attempt, request or timer may come in is a step, and a write that checks
no lease in the code checks none here.

- **`InstagramSync`.** Time is a day, and a medium is named by the day it was
  published, so the media edge is a descending walk and a cursor is the last
  medium of a page. Keys are those of the code (bootstrap, scheduled by day,
  manual by minute, here one a day). `OpenRun` takes the one RUNNING row a trigger may have; `CommitPage` checks the
  run and not the lease. `known` is a ghost: the media the account had when the
  run was created.
- **`PostSnapshots`, `PostComments`.** One post. Ages are real seconds around
  the edges of buckets and windows; a capture is filed by the age at which it is
  taken. Comments are read from the top, page by page, and upserted.
- **`InstagramConnection`.** Accounts, credentials, the sealed cookie, one-time
  codes, and the provider's view of which tokens work. A refresh is a call to
  the provider and a later commit; between them come connections,
  disconnections, other attempts and lost leases.
- **`MediaImport`.** One post and one job for ever, since its key is the post.
  The object key depends on the job, which is what `OneImportedObject` rests on.
- **`AnalysisRun`.** One request per asset; the finally block is a step of its
  own. `leaked` records that an attempt died or was refused the deletion.
- **`FeatureStatistics`.** One metric and one feature; posts are measured and
  analysed at any time, and runs of one scope follow one another. Medians,
  thresholds, sensitivity and classes are computed (with the thresholds scaled
  down); the interval, a floating-point estimate, is a choice
  over its outcomes.
- **`StrategyGeneration`.** Judging a request and freezing its evidence are two
  reads. `StrategyRules` ranks the candidates, computes the manifest with its caps
  and token budget, and judges answers; the model's answer is one of a few whole
  answers (`PlainAnswers`). A manifest with nothing in it fails the job for good
  (`RefuseEmptyManifest`) and leaves the generation QUEUED.
- **`ChatTurn`.** A turn counts, appends its question, assembles a context
  within its budget, asks at most twice and appends the answer. Manifests of two
  strategies use the same keys for different statistics, as the positions in the
  code do.
- **`WorkspaceAccess`.** Sign-in is a read and a bind; a request is the `jwt`
  callback and one more read; status changes and time come between any two.
- **`RetryPolicy`.** Milliseconds since the job was created, with the delays,
  caps, budgets and horizon of the code. Jitter is its two ends.
- **`UploadClient`.** The closure's variables, and for each run loop the await
  it stands at. One session; a second one is not followed.
- **`WorkerLifecycle`.** `start()` and `shutDown()` as two asynchronous
  functions of one process. What `pg-boss` does on `stop` is external.
- **`ProviderAnswers`, `MetricRules`, `AnalysisContract`.** A step calls one rule
  with one of the inputs that may come, and the call stays in the state (`heard`,
  `ruleCall`, `judgedAnalysis`); an invariant says of the result what a reference
  definition does: insight groups, probes, redirects, credentials, token answers,
  comment threads; snapshot rows in every order, derived metrics, windows,
  collaborator copies; the sections of an analysis.

`MCInstagram` and `MCContent` put these components side by side. They share no
row that the instances reach, so a behaviour is that of one component (its
`scene`), and a run explores the union, not the product, of their states.

## 4. Runs

| Run | Bounds | Shows |
| --- | --- | --- |
| `pipeline_safety` | 1 job, 2 workers, 1 dispatcher, 1 reconciler, 2 attempts (3 after a grant), 1 fault | `AttemptsAccounted` (exclusive attempts, budget), results that match attempts, healthy leases left alone, refinement of `JobContract`, and that handlers see only their moves |
| `pipeline_repair` | 1 worker, 2 dispatchers, 1 attempt (2 after a grant), a result inspector, results made by others, 1 fault | `RepairsAreSound`: repairs and flags from stale scans never undo a cancellation; `dispatchStatus` and the outbox row agree |
| `pipeline_live` | a legacy job, 1 attempt (2 after a grant), 1 fault | every job settles; an accepted cancellation takes effect |
| `upload_safety` | 2 uploads for 1 post, 2 requests, 1 fault | `UploadsConsistent` (assets have their bytes, one pending upload a post, purged means released), decisions stand |
| `upload_live` | 1 upload, 1 request, 2 faults | reservations close; rejected videos lose their bytes |
| `gate` | 3 calls, 2 providers (limits 1 and 2), global limit 2 | `GateIsExact` (counters, limits, queue), no idle capacity, every waiting call granted or rejected |
| `runs_safety` | 2 accounts and the pool, 2 workers, 3 changes, 2 attempts, 1 fault | `RunsConsistent` (one complete ACTIVE run a scope, one recalculation an account), never taken away |
| `runs_account` | 1 account with an analysed post, 2 workers, 3 changes, 1 attempt (2 after a retry by hand), 1 fault, 1 command | publications advance, dirty accounts are recalculated |
| `instagram` | 2 slots, 2 attempts, 2 days, pages of 1, 2 pages, 3 comments; 2 provider accounts, 3 tokens, 2 connections; 1 to 3 faults a component | `NoMediaSkipped`, `RunsEndWithTheirJobs`, `CapturesFiledByAge`, `CommentsImported`, `OneUsableToken`, `TokensAdvance`, `OneImportedObject`, `AnswersAreReadAsGiven` |
| `content` | 2 slots, turns, browsers and loops; 2 assets, 3 posts of 2 accounts, 2 runs, 2 calculations and generations, 3 messages, 2 addresses and a stranger, 8 attempts of a chain, 3 parts, 2 queues and 2 schedulers | the 14 properties of the components of `MCContent` |

The other two runs, `lost_change` and `misattributed_citation`, are below.

Why the bounds are enough: jobs share no row, so one job with two of each
process that races over it has every interleaving there is; two attempts and a
grant, or one and a grant, reach both ends of the budget, with an automatic retry
within it and none beyond it (`pipeline_safety`, 1.3 million states, is the
largest run for that reason); a fault is a death, a failed call, an
overrun lease or a lost delivery at *any* step, and two of them matter only
where recovery itself is at work (`upload_live`, where a cleanup uses up its
attempts and its successor fails too). Uploads interact through the post they
are for, hence two for one post. Three calls on two providers give a saturated
provider, one with room, and a full gate with a call waiting; what is proved of
the gate (section 5) is for any number of them. Measuring an account takes an
analysis and a snapshot: in `runs_safety` both happen during the behaviour, in
`runs_account` the analysis came before, so that each of the two changes can be
published. A handler's module needs two slots, one attempt that is late and one that
replaced it, and a fault for the lease to expire; a third adds no pair of steps
that two do not have. Two pages, two age buckets, two strategies and two
accounts are the least with a first and a last of each; the inputs of the rules
are enumerated whole over bounded sets, snapshots in every order among them, and
what is proved of the rules (section 5) is for inputs of any number and length.
The limits of the code that are large numbers (messages of a conversation,
questions an hour, posts and tokens of a manifest, sample thresholds) are scaled
down to what two requests reach, as constants; those whose value matters (retry
delays, ages, durations) are the code's. Bounds on faults, changes and commands
are constants in the guards (`FaultBudget`, `MaxChanges`, `OperatorBudget`,
`AttemptLimit`, and `SyncFaults`, `MaxStatusChanges` and the like). Deadlock is not
checked where a bounded behaviour really ends; the gate is checked for it.

### Where a document says otherwise

These runs state what a comment or document says and TLC refutes it; the
counterexample is what the code does.

| Run | Statement | What happens |
| --- | --- | --- |
| `lost_change` | a change during a run leaves the account dirty (`analytics-runs.ts:170`) | `markAnalyticsDirty` never moves a marker that is set, so activation clears it |
| `misattributed_citation` | "an id that no longer resolves is rendered as a citation without a link" (`chat-store.ts:66-75`) | keys are positions that every manifest uses again, so an old citation resolves to another statistic of the new strategy |

Seen while modelling and not given a run. Of the pipeline
(`docs/technical/background-jobs.md`):

- line 110 says a delivery that finds its result succeeds; `job-execution.ts:500`
  throws before the claim, so a job whose result somebody else made waits for an
  inspector to repair it;
- line 132 says a manual retry grants exactly one attempt;
  `job-operations.ts:257` keeps all that were not used (`RetryBackgroundJob`);
- line 128 says the guard settles a request before another effect; one accepted
  between the guard and the stage write is seen one effect later
  (`GuardPasses`, `RecordBackgroundJobStage`);
- `flagAmbiguousJob` (`job-reconciliation.ts:485`) flags a job that was retried
  and has succeeded since the scan;
- `repairCommittedResult` (`job-reconciliation.ts:440`) takes QUEUED to
  SUCCEEDED, which is not in the transition table (`job-lifecycle.ts:25`), and
  cancels the outbox row without the dispatch status (`RepairedJob`);
- lines 58-62 say the delivery ID is stored, which `queue.ts:170-185` does not
  do; line 75 says shutdown "returns unfinished leases", and
  `job-execution.ts:622` leaves them to expire;
- `job-reconciliation.ts:138` takes the delivery expiry for the end of every
  message; a created one lives until its retention ends.

Of uploads: a retried completion resolves to the asset
(`video-upload.ts:331-332`) except between closing the intent and creating the
asset (390-396), or after a death there; no sweep selects an asset whose validation was never enqueued or
failed for good, so it stays PENDING_VALIDATION; bytes of a completion with
another size, or whose intent an abort or expiry closed meanwhile, are released
by nobody; a multipart upload reserved by a request that dies before it inserts
the intent is in no row, and `listAbandonedUploads` has no caller.

Of analytics runs: activation compares the fingerprint a run was started with
with itself (`analytics-runs.ts:196`), so `INPUTS_CHANGED` cannot be raised. For
the pooled scope nothing orders two runs of different keys, so an older one may
replace a newer one; the source claims nothing else.

Of statistics: the correction for multiple testing never rejects anything,
because its family has only comparisons whose value is at most 0.05, and the
last of them need only be within the rate, 0.1 (`feature-statistics.ts:245-272`); the confidence stored with an interval may be
that of another one (399-401 against `analytics-statistics.ts:478-498`); a reused
row keeps a class that depended on a count the fingerprint leaves out (337-342
against 143-150); a collaborator's post is compared with its own copy in
cohorts (`db/analytics-cohorts.ts:129-190`, which the deduplication of
`analytics-cohorts.ts:471-478` is for); the "recent" cohort takes 21 rows before
it removes copies; a bootstrap depends on the order of its rows.

Of analyses: an older request may become the current analysis after a newer one
(`post-analysis.ts:261`); a failed deletion of the provider file is swallowed
(`analysis-run-handler.ts:530`); a file without a URI makes the request one
without a video (`http-client.ts:184-190`); a section is compared only with the
one before it, with a tolerance of 0.25 s (`analysis-contract.ts:734`), so what
is coherent is stated for whole seconds, which the prompt asks for.

Of strategies: `recordStrategyStage` (`strategy-generation.ts:200`) takes a
published generation back to PROCESSING when a late attempt reaches it, and a
pooled one is then no longer shown, although line 228 says a late failure never
retracts one; a strategy that failed cannot be requested again over the same
manifest without regenerating; the posts of a statistic are not offered beside it
(`strategy-request.ts:371`), and a claim must cite a post
(`strategy-contract.ts:536`), so a pattern may be offered that no claim can use; over the token budget the data-quality entries go
first; `selection.trimmed` is read by nobody. A category that does not fit the
budget is dropped whole, and thirty dossiers at their caps, about 4,700 tokens
each, exceed its 120,000: a scope whose run has no statistics then freezes an empty
manifest, its job fails with `STRATEGY_MANIFEST_EMPTY`
(`strategy-generate-handler.ts:199`) and the generation row stays QUEUED with
nobody to close it. `ManifestsAreAnswerable` therefore speaks of manifests with
something in them, and of those whose mode was judged on the run that was frozen;
the two reads may differ.

Of chat: of two questions in one session the first may lose its answer to the
unique sequence; the hourly limit and the 200 messages are counted before the
question is appended (`chat-turn.ts:242`), so two turns pass them together.

Of synchronisation: a late attempt may fail the run a healthy one is paging; a
run whose last attempt lost its lease stays RUNNING and refuses later runs of its
trigger, which is why `RunsEndWithTheirJobs` excepts it; a capture that misses
its window is stored but never compared (`instagram-scheduling.ts:82-93`); the
incremental horizon is 14 days, so an account that is away longer has a gap.

Of media imports: the key is the post, so after a rejected import or a failure
for good only an operator's retry runs it again; the handler does not ask again
whether the post has a source by now.

Of the retry policy: an operator's retry of a job older than a day gets no
automatic retries, since the horizon counts from its creation.

Of access: `setInternalUserStatus` has no caller in the applications; the
binding of a subject at the first sign-in is a read and a write, decided by the
unique index.

Of the worker: a signal during start-up runs `shutDown` to its end, and `start()`
then goes on to subscribe, arm its timers and listen
(`worker/src/index.ts:294-388`), so `ShutdownDrains` is stated for a worker that
is up or has failed to start; a stop that throws skips the stops after it.

Of the browser's session: a cancel while an upload is being reserved leaves the
phase at "uploading" with no loop and an intent that only expires; a fetch that
throws in the reservation or the completion leaves the phase there; an abort
answered late shows a completed upload as not started; an earlier session of the
component reports into the same snapshot.

Of connections: reauthorisation overwrites a reconnection that came first
(`instagram-token.ts:218`, where the refresh at 183-190 is conditional), and a
disconnection and a reconnection may interleave (`instagram-account.ts:166-180`);
`OneUsableToken` holds through both.
The bootstrap key is the account, so a reconnection starts none. `instagram-connection.ts:327-328` says the bootstrap
synchronisation commits with the connection, and line 364 opens another
transaction.

### Fairness

Weak fairness for what a loop or a timer brings about by itself: the reconciler's
repairs, clocks, expiries, the steps of a handler, a dispatcher or a request that
has begun. Strong fairness where a step is enabled again and again but not
continuously, because a slot is busy with something else: taking an outbox row,
receiving a delivery, claiming a queued job, scanning a candidate, and the
callbacks of the gate, which the event loop runs again and again. Of the
analytics runs it is enough that *some* due key is enqueued and *some* queued job
claimed: a key is enqueued once and a job claimed as often as it has attempts, so
none can be passed over for ever. Nobody is assumed to upload, cancel,
retry or change anything. Faults are finite; without that no job need ever
settle. A handler that is not interrupted is assumed to
return or throw, which its timeouts justify.

## 5. Proofs

TLAPS checks these for every value of the constants that the named assumptions
allow. Each theorem of the form `Spec => []Inv` goes by an inductive invariant
that implies `Inv`, one lemma per action, and TLC has checked every one of those
invariants on a run before it was proved. Where a property is about what a rule
computes, the invariant is short and the work is in the lemmas about the rule.

| Module | Inductive invariant | Theorems (property) |
| --- | --- | --- |
| `JobPipelineProofs` | `Typed`, `Core` | `TypeCorrect`, `CoreInvariant`, `AttemptsStayAccounted` (`AttemptsAccounted`) |
| `JobOutcomeProofs` | `Results`, `Repairs` on top of it, `GrantsAreForOneAttempt` | `ResultsAreCommittedOnce` (`ResultMatchesAttempt`), `RepairsNeverConflict` (`RepairsAreSound`), `HealthyLeasesAreKept` (`NeverStealsHealthyLease`), `PipelineImplementsContract` (`ImplementsContract`), `HandlersSeeOnlyTheirMoves` (`HandlersSeeTheirJobs`) |
| `ConcurrencyGateProofs` | `GateInv`, `PassedAreUngrantable` | `GateInvariant`, `CountersAreExact`, `LimitsHold`, `NoLostWaiter`, `GateExact` (`GateIsExact`), `CapacityIsUsed` (`NoIdleCapacity`) |
| `VideoUploadProofs` | `Consistent` | `UploadsStayConsistent` (`UploadsConsistent`), `DecisionsAreFinal` (`DecisionsStand`) |
| `AnalyticsRunsProofs` | `Consistent` | `RunsStayConsistent` (`RunsConsistent`), `PublishedScopesKeepASet` (`PublishedScopesStayPublished`), `AccountPublicationsNeverGoBack` (`AccountPublicationsAdvance`) |
| `InstagramProofs` | `RunsFollowTheEdge`, `LeasesSound`, `CommentsSound`, `ConnectionSound`, `ImportSound`, `HeardIsGiven` | one for each of `NoMediaSkipped`, `RunsEndWithTheirJobs`, `CapturesFiledByAge`, `CommentsImported`, `OneUsableToken`, `TokensAdvance`, `OneImportedObject`; `AnswersStayAsGiven` (`AnswersAreReadAsGiven`) |
| `ContentProofs` | `AccessSound`, `ClientSound`, `AnalysisSound`, `StatisticsSound`, `StrongSound`, `WorkerSound`, `RetrySound`, `ChatSound`, `StrategySound`, `EvidenceSound`, `Judged`, `CallsAreGiven` | one for each of `AdmittedSessionsAreCurrent`, `UploadsAreWhole`, `AnalysedOnce`, `FilesReleased`, `PublishedContributorsAreCurrent`, `ShutdownDrains`, `AutomaticRetriesStayInBounds`, `TranscriptInOrder`, `CitedFromItsStrategy`, `ResultsAreKept`; `StrongClassesHoldUp` (`StrongClassesSurviveLeaveOneOut`), `ManifestsCanBeAnswered` (`ManifestsAreAnswerable`), `AnalysesAreJudged` (`AcceptedAnalysesAreCoherent`) with `AcceptedSectionsAreInOrder`, `MeasurementsStayComparable` (`MeasurementsAreComparable`) |

Why the invariants are what they are:

- **Pipeline.** `TypeOK` is not inductive: what an actor remembers decides what it
  writes, so `Typed` adds what each program counter implies. `OneActiveAttempt`
  is not either: a claim numbers its attempt from `attemptCount`, so no attempt
  beyond the count may exist (`AbsentJobsAreNew` for jobs not enqueued yet), and
  a late process must hold only a lease that was once given out
  (`LeasesRemembered`).
- **Outcomes.** A commit succeeds only with the lease that its attempt still
  holds, and a settled attempt is never written again, hence
  `ResultMatchesAttempt`. For repairs two facts are added: a job and its outbox
  row are made together, and a dispatch status is CANCELLED only where somebody
  asked. `NeverStealsHealthyLease` and the refinement assume
  `NoForeignInspection`, that no job has both an inspector and a result made by
  others. The code justifies it: the worker gives `createOutboxReconciler` no
  inspector (`worker/src/index.ts:280`), and its default finds every job
  UNSUPPORTED (`outbox-reconciler.ts:48`). Without it a repair may settle a job
  whose handler is alive, which `RepairsNeverConflict` allows for.
  `PipelineImplementsContract` is the refinement theorem: initial states map to
  initial states, and every action of the pipeline to one of the contract for one
  job, or to a stutter. `HandlersSeeOnlyTheirMoves` is the other refinement, with
  the same assumption: the budget of a job at work is the default, or ends with
  the attempt at work, so what a handler calls its last attempt is the last one.
- **Gate.** Counters change with cardinalities of sets from which one call is
  added or removed; two lemmas say by how much. `NoIdleCapacity` speaks of the
  end of a turn, so its invariant speaks of the calls the loop has passed: they
  could not be granted, and nothing in the rest of the turn makes room for them.
- **Uploads.** Nothing in the database ties a request to the upload it completes.
  `Consistent` follows an intent through the requests that serve it: the provider
  completes an upload once, so one request may record it, and a cleaner deletes
  only what belongs to a rejected asset.
- **Analytics runs.** A run belongs to the worker that started it and stays
  BUILDING until its commit (`WorkersPlaced`); what the commit read as the
  previous runs is of its own scope. Order for an account is
  `AccountJobsSerialised`, that the marker names one job that may commit, and
  `NotOvertaken`, that nobody publishes there meanwhile. The pooled scope has
  neither, and nothing is proved of its order.
- **Instagram.** What a maintainer writes was read long before: the same version
  and still ACTIVE mean the same token, and any other token to be stored was
  issued later. What a cursor has passed is stored, said of the run and of each
  attempt for itself, since late attempts move it. `RunsEndWithTheirJobs` needs
  that an attempt whose lease was never lost is the only one of its job.
- **Content and workspace.** A session version is the number of status changes
  plus one, so equal versions mean no change in between. While a loop is at work
  Resume is not offered, and the parts before the one it stands at are in the map.
  Every provider file is some attempt's responsibility. Rows of statistics are
  determined by their fingerprints. A turn that has asked keeps its question
  where it put it, so the next position is the end of the conversation or taken.
  A result of a strategy is stored by the transaction that settles its job.
- **What statistics rest on.** A sorted list is determined by how often each value
  occurs in it, so leaving out a post is leaving out a place, whichever post has
  the value. `StrongSound` says of every stored and every pending row what the
  sensitivity test of `calculateFeatureStatistic` established of its groups.
- **Measurements.** `sortBy` is stable: what comes first is least, and among equals
  first in the rows, and rows of one video differ in their identifier, so the
  snapshot does not depend on the order of the rows. Of copies of one post one is
  kept, so no two of a cohort are the same video.
- **Provider answers.** The four groups of a Reel partition its metrics, so of each
  metric one group speaks, and the last accepted item of it decides; a search for
  a download ends at its first hop that does not redirect; what is streamed is a
  running sum that only grows.
- **Strategies and their evidence.** Candidates are totally ordered by category,
  score and reference, so every rank is taken once; what is taken keeps the first
  of them and no record twice; the token budget leaves a beginning. Statistics
  rank before posts and posts before coverage, so the first item is one a claim
  may cite in the mode the request was judged for, and the answer that cites it
  with the required limitations passes every rule, whatever was recommended
  before. `EvidenceSound` ties this to the interleavings: a generation never
  changes its frozen fields, and if the run that was judged is still the active
  one, its evidence fits the mode.

The assumptions are those named in the modules that declare the constants, and
every run evaluates them: bounds are naturals, limits and page sizes positive,
sequences of schedulers, times and manifests are sequences, `Null` is no integer
(`NullAssumption`; it stands for SQL's null and is compared with amounts), and
`Calls` and `Posts` are finite, since their cardinalities are taken. None bounds
the number of processes. Those of the rules say what the columns and the parsers
in front of them guarantee: metric values are integers (`StatisticsAssumption`),
evidence sets are finite, their rows have identifiers and a class that items may
have (`EvidenceAssumption`), caps are positive (`RetrievalAssumption`), snapshot
rows of one video differ and counts are naturals (`MeasurementAssumption`), a
proposed analysis has sections or none and a probed duration is in whole seconds
(`ValidationAssumption`), and answers have the shape their schemas require
(`AnswersAssumption`). Changes of representation that made proofs possible say
the same of the code: `StrategyGeneration` keeps of a result the set of
fingerprints of its recommendations, which is all that is read of it later (`{}`
while there is none); candidates are ranked by how many come before them; lists
are sorted by stating where each element goes; and loops, such as the retrieval
or the context of a chat turn, are recursive functions over their steps.

Induction is at hand in one form: the library's theorems take an operator, which
these provers cannot instantiate, but a well-founded relation has minimal
elements of every *set* (`WFMin`), from which `LeastNatural` and `InductiveSet`
follow. The proofs about rules use it throughout: for the sections of an analysis,
of which the validator compares each with the one before it; for sorts, sums,
redirects and what a retrieval has taken so far.

Only model-checked: liveness (`EveryJobSettles`, `CancellationTakesEffect`,
`UploadsSettle`, `EveryCallSettles`, `DirtyAccountsRecalculated`), as fairness and
`ENABLED` are beyond this prover, and the two refuted statements of section 4,
whose counterexamples are behaviours.

## 6. Not modelled

Row locks inside a transaction (one that PostgreSQL aborts is a failed step),
isolation anomalies other than those described, authorisation, auditing and rate
limits of commands other than those named, HTTP, JSON schemas and prompts, the
bytes of videos, floating-point estimates (permutation tests, bootstrap
intervals) other than as a choice over their outcomes, the cipher of credentials,
trends, the health endpoint, a second upload session in one browser, read models,
pages, configuration and observability. The statistics and the runs that publish
them are separate behaviours. `PROJECT.json` gives the reason for each component.

A few branches are modelled because the code has them although no behaviour
reaches them: the missing credential of `LoadCredential`, the adoption of a
stored result in `ClaimImport` and `ClaimAnalysis`, and in `ClaimStrategy`.
