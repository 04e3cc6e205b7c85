# CherukadAi in TLA+

TLA+ models of the CherukadAi backend (`backend/app`), the TLC runs that check them on small instances and the
TLAPS proofs of what matters most. Paths below are relative to the repository; `PROJECT.json` maps every definition
to the lines it models.

## 1. The system

FastAPI handlers and Celery workers share PostgreSQL (through SQLAlchemy sessions), Redis (broker, sessions, rate
limits) and a directory of files. A session belongs to one request or one task; nothing takes a lock, and no
isolation level is set (`backend/app/infrastructure/db/session.py`), so what keeps concurrent requests apart is READ
COMMITTED and a handful of unique constraints.

| Part | State | Operations | Talks to | Hard behaviours | What makes it correct |
|---|---|---|---|---|---|
| Interior design API (`modules/interior_design/api`, `application.py`) | projects, assets, jobs, versions | create project, upload original, generate, save version | storage, Celery | commit before publish, out-of-order uploads | tenancy of a job, no job dropped, newest photo used |
| Interior design worker (`worker.py`) | job status, status rows, versions | `process_job` | broker, AI provider, storage | crashes, repeated deliveries, overlapping runs, a failed flush | numbered versions, results behind COMPLETED, every job ends |
| Asset storage (`infrastructure/storage.py`) | files | save upload, save generated, read | file system | refusal half-way, files without rows | no row without its file |
| Workflow engine (`modules/workflows`) | workflows, versions, executions | create, version, validate, approve, publish, roll back, archive, execute | handlers of steps | stale reads, lost updates | review before publication and execution |
| Workflow graphs (`domain/validation.py`) | the search's stack and marks | validate, order | engine | cycles, unknown keys | the order respects every dependency |
| Setup (`identity/application/setup_super_admin.py`) | completion marker, admins | `POST /identity/setup` | session store | concurrent first requests, death half-way | exactly one admin, never closed without one |
| Login, lockout, rate limit (`identity/application/login.py`, `rate_limiter.py`) | failed attempts, lock, counters | log in | Redis, session store | lost increments, INCR without EXPIRE, an event in one store and a session in another | guessing is bounded, nobody shut out for good, every session logged |
| Sessions (`session_store.py`, `authenticate.py`, `logout.py`) | session records | create, resolve, revoke | Redis, users | sessions outliving their user's state | an account is looked at on every request |
| Organisations and users (`modules/organisations`, `permissions`) | organisations, users, roles | create, edit, status changes, password resets and changes | sessions | stale reads behind status and lock changes | tenants stay apart, a stale write undoes nothing |
| Feature wiring (`modules/feature_wiring`) | wirings and snapshots | create, configure, enable, disable, publish, roll back | AI catalogue | concurrent edits of one version | complete history |
| AI registry (`modules/ai/api`) | products, features, agents, models | create, update, activate, deactivate, version | the orchestrator reads it | two editors of one item, a rename into a taken code | a code names one item, an edit keeps the columns it did not touch |
| AI orchestration and providers (`modules/ai_orchestration`, `modules/ai`) | execution records | execute feature | organisations, wiring, registry, provider | six reads in six queries, retries, timeouts, death after the provider did its work | one record that tells the outcome, nothing closed is used |
| Placeholders (agents, audit, features, files, projects, usage, users) | none | a marker request | - | - | - |
| Frontend | what the API answered | pages | API | - | decides nothing |

`hazards` in `PROJECT.json` lists what is hard to test, at the line where it bites.

## 2. What is modelled

All modules share two facts about the database. A transaction's writes become visible at its commit; an INSERT that
meets the uncommitted row of another transaction under the same unique key waits, and fails if that row is
committed. And SQLAlchemy's UPDATE names the columns whose new value differs from the one that was read, so a handler
that decided on stale data overwrites some columns and leaves others: the operator `Column(seen, new, stored)`.

### DesignJobs
The studio from upload to finished design. A request is one HTTP call and creates at most one `AIJob`, so it names
its job; a worker runs one task at a time; the broker is a count of messages per job. Actions follow the awaits of
the code: `BeginUpload`, `RejectUpload`, `StoreUpload`, `CommitJob` and `Publish` are `upload_original`;
`BeginGenerate`, `CommitJob` and `Publish` are `generate_design`; `Receive`, `Start`, then `CompleteAnalysis`, or
`SaveGenerated`, `ReadPrevious`, `InsertVersion` and `CompleteGeneration` are `_run`, with `FailRun` for its `except`
branch. `VersionConflict` is the path the code did not intend: the flush fails on
`UniqueConstraint(project_id, version_number)`, SQLAlchemy rolls the transaction back and accepts nothing but a
rollback, and the `except` branch uses that session. `RequestDies` and `WorkerDies` end a process anywhere;
`ReceiveCopy` delivers a message and keeps it. The configuration sets no `acks_late`, so an ordinary crash loses the
message; a copy appears when a prefetched message outlives Redis' visibility timeout, or when a publish that did
reach the broker is retried.

`abandoned`, `faults` and `redeliveries` are history: they let a property say "unless a fault stopped it".

### JobOutcomes
What the endpoints that show jobs and versions promise, without broker, workers or transactions: a job goes QUEUED,
PROCESSING and then COMPLETED or FAILED, a completed design appends to its project's history in that same step, and
only a job that is handed out once more can change after it has ended. A message that is delivered again is one more
run; a run appends at most one version. `DesignJobs!ImplementsOutcomes` is the refinement: `state <- status`,
`history <- DesignHistory` (which run of which job made each version, in number order), `extra <- ExtraRuns` (the runs
that second deliveries brought), `repeats <- redeliveries`.

### WorkflowLifecycle
Lifecycle of workflows and versions. A handler reads the workflow (`Begin...`), reads a version (`Pick...`) and
commits; any other handler may commit in between. `request` holds what was read. Dates are a set of the stamps
present. `Abort` is a check that fails, a failed commit, or a client that leaves. An execution is its committed row:
the steps of `execute` run inside one transaction and are not visible before it commits.

### WorkflowExecution
One definition from its proposal to the end of an execution, seen from inside the calls that `WorkflowLifecycle` takes
as single steps. The graph is any set of keys with any dependencies, known or not, plus a flag for the checks on keys
and types. `CheckSteps`, `VisitNext`, `VisitDependency`, `Return` and `Accept` are `validate_graph`: `path` is the
stack of its recursion, `visited` its second set. A definition lists steps and dependencies in an order of its own, so
the search visits them in any order. `StartRound`, `Place` and `StartRun` are `topological_order` and the execution
row; `StartStep`, `StepUnhandled`, `StepSucceeds`, `StepRaises` and `FinishRun` are the loop of `execute`; `Commit`
belongs to its HTTP handler and `Lose` to everything that rolls its one transaction back. `execute` searches the graph
again, as the code does. An engine may have handlers for any of the step types; the engine that the API builds has
none (`api/routes.py:148`), so deployed executions end in `StepUnhandled` at their first step. Results are the keys of
the steps they come from.

### SuperAdminSetup
`POST /identity/setup` as its stages: the marker is read, the admins are read, input is judged, the marker is
inserted, marker and admin are committed, a session is opened. A request can die at every stage.

### FeatureWiring
Wirings and their snapshots. A handler reads the row (`Begin...`, with what it is going to write) and commits row
and snapshot, or is refused by `UniqueConstraint(wiring_id, version)`. `rollback_wiring` reads the snapshot after the
row; snapshots never change, and one that is newer than the row read makes the commit fail, so the two reads are one
step.

### AccountAccess
Both sign-ins, sessions, and what administrators and users do to user rows. `Begin`, `Increment`, `SetExpiry`,
`Refuse`, `Verify`, `Record` and `Open` are `Login.execute` (admins; the address is counted, then the e-mail) and
`organisation_login` (users; no rate limiter, an event for each outcome). `Resolve` and `Authenticate` are the session
lookup and the check of the account behind it; then a request logs out, creates a user, or reads a user's row
(`ReadUser`) and commits what it decided (`WriteUser`). `Die` ends a sign-in between any two commands. `LockEnds`,
`WindowEnds` and `SessionEnds` are time: dates are reduced to what the code asks of them, a lock that is absent, ahead
or past, a counter with or without an expiry. A password is right or wrong. Users are named by organisation and
address, so the comparison of organisations in `authenticate` always agrees. An address nobody has changes no state
after the rate limiter. `opened` and `guesses` are history. The in-memory limiter and session store of local runs are
left out. `MayDo` is `require_permission` followed by `_target_organisation`, over the catalogue of permissions.

### AIRegistry and AIExecution
`AIRegistry` is the four tables of the AI catalogue with the routes they share; a handler reads an item (`Begin...`)
and commits (`Commit`), or a unique constraint refuses. `AIExecution` extends it with organisations, wirings and one
execution per request, read row by row in the order of the code: `ReadOrganisation` and `ReadWiring` are `authorize`,
`ReadFeature` and `ReadProduct` `_resolve_feature`, `ReadAgent` and `ReadModel` the lookups of `execute`, `Call` one
round of the retry loop, `Store` the record and the answer. Meanwhile `Administer` changes anything. A configuration
is a function from the keys the orchestrator looks at; `{**a, **b}` is `Merged`. A call ends with content, with a
failure that may pass, without answer in time, with a refusal, or with nothing usable; `worked` says whether the
provider did the work anyway. Configurations are stored unchecked, and the id of a configured workflow is looked at
only when the record is written (`orchestrator.py:186`): one that is no UUID (`BadId`) makes `Store` fail after the
provider's work, and the request ends `unfiled`, without record and answer. Where the code looks items up by id or by
code, the model has codes alone, and the prompt, which may come from workflow or agent, is the agent's. `closed` is
history: what has been off ever since the request began.

### AIAnswers
What the caller and the audit see of an execution, without catalogue, wirings or processes: a question is open; a
provider is called, again only after a failure that may pass and as often as allowed; then an answer and a record that
says the same appear in one step. A question ends without a record only if it was refused before its first call, if
its last call brought nothing, if it was lost, or if it fits no record. Whether it fits is settled before its first
call (`Misfit`), although it shows only at the end (`Unfile`): an edit made meanwhile changes nothing about it.
`AIExecution!ImplementsAnswers` is the refinement: `state <- Shown`, `calls <- attempts`, `work <- served`.

### Proof modules
`DesignJobsProofs`, `DesignJobsDataProofs` (on top of it), `WorkflowLifecycleProofs`, `WorkflowExecutionProofs`,
`SuperAdminSetupProofs`, `FeatureWiringProofs`, `AccountAccessProofs` and `AIExecutionProofs` extend the modules they
prove about. Definitions marked "Mutant" are plausible bugs: substituted for the definition after them, each makes TLC
find a property violated. Initial states are the tables as the migrations create them.

## 3. Runs

| Run | Bounds | Shows |
|---|---|---|
| `design_jobs` | 2 organisations with a project each, 3 requests, 2 workers, 1 fault, 1 redelivery | the safety properties of the studio; the newest status row is the status, also of a job that runs twice at once; versions beyond a job's first are second deliveries; refinement of `JobOutcomes` |
| `design_settle` | 1 project, 3 requests, 2 workers, 1 fault, no redelivery, fair | sources only get newer; every job ends, or a fault or conflict stopped it |
| `design_retry` | 1 project, 2 requests, 1 redelivery, no fault | **violation**: a job can add two versions |
| `design_conflict` | 1 project, 3 requests, nothing fails | **violation**: a job can stay PROCESSING for ever |
| `workflow_lifecycle` | 1 workflow, 2 versions, 2 handlers | numbering, review gate, pointer, executions, stamps |
| `workflow_immutable` | 1 workflow, 2 versions, 1 handler | **violation**: a published version can be un-published by validate |
| `workflow_execution` | every definition of 1 to 3 steps, every set of handlers, fair | verdict, order, inputs, records, an end |
| `super_admin_setup` | 4 requests, fair | one admin, no lock-out, everyone answered |
| `feature_wiring` | 2 wirings, 2 configurations, 2 handlers, versions up to 3 | complete, growing history |
| `feature_wiring_switch` | 1 wiring, 1 handler | **violation**: enable and disable are always refused |
| `account_access` | 1 admin, 1 user in each of 2 organisations, 2 sign-ins and 1 request at a time; 3 sign-ins, 2 requests, 1 fault; limits of 2 | guessing bounded, sessions logged, no more stuck counters than faults, stale writes harmless, tenancy |
| `ai_execution` | 2 products, 1 feature, 1 agent, 2 models with a code each of 2, 3 configurations, one with an id that is no UUID, 1 request, 2 editors, 2 changes, 1 retry, 1 fault | registry sound under edits, records true, nothing closed used; refinement of `AIAnswers` |

Why the bounds are enough: a conflict of numbers or columns needs two actors and one row; three requests give an
upload and two generations that race, or two photos and a generation; two workers overlap, and a third could only repeat
the role of one of them; one fault and one redelivery occur at every step, also together. Two versions give a
workflow a current and an earlier version to roll back to. Three steps give cycles of every length up to three, a step
that is reached along two paths, a round of several keys and a key whose depth and name disagree. Two sign-ins overlap
on one account and three fill a counter past its limit; larger instances of `AccountAccess` (a limit of 3, three
handlers) agree but take too long to repeat every time. Two changes during an execution rename one item into the place
of another or switch something off and on; one retry gives a failure before a success. That a source is not older
than the one an earlier generation used needs two photos and two generations, one request more than
`design_settle` has: the proof covers it. Counters (faults, redeliveries, versions) are capped in
guards and are constants. Where the proofs apply they remove the bounds altogether.

`CHECK_DEADLOCK FALSE` stands where requests are used up and the system rightly stops; users owe nothing.

### Fairness
`DesignJobs!FairSpec`: weak fairness for a handler that has begun (its awaits return; Starlette runs it to the end)
and for a worker (Celery takes the next message; the provider call is bounded by the client's timeout and retry
count). None for users, faults or redeliveries. `SuperAdminSetup!FairSpec`: weak fairness for a request that has
passed its first check; PostgreSQL wakes a waiting insert when the other transaction ends.
`WorkflowExecution!FairSpec`: weak fairness for a call that has begun, whose handlers return or raise. Weak fairness
suffices: what a worker or handler waits for stays enabled until it is taken.

### What the violations show
1. `RetryIsIdempotent`: `_run` never looks at the status it loads, so a repeated message repeats the work. How often is
   bounded: `ExtraVersionsAreRepeats`, and the theorem `NoRepeatNoDuplicate`.
2. `FailedRunsAreMarked`: the loser of a version-number race is never marked failed; by `LeftForGood` nothing ever
   takes such a job up again, and GET `/jobs/{id}` answers PROCESSING for ever.
3. `PublishedIsImmutable`: `validate_version` accepts any status, so a published version becomes `validated`; the
   workflow still says `published`, and executing it fails.
4. `SwitchingWorks`: `_change_status` writes a snapshot under a version that already has one. By
   `NothingIsEverEnabled` no other route makes up for it: a wiring is `disabled` from its creation on, so `authorize`
   refuses every AI execution until somebody edits the table.

## 4. Proofs

Every theorem is of the unbounded specification: any sets of requests, workers, handlers, projects, organisations,
users, items; any bounds. The assumptions are those of the modules: `OrgOf` is a function, null is no request, bounds
are naturals; limits are at least 1, there are finitely many handlers and roles are known ones (`AccountAccess`);
tables and accounts do not share members, and the catalogue starts well-formed (`AIRegistry`, `AIExecution`).

* **Studio, numbers and jobs.** `TypeCorrect`, `VersionsInOrder`, `NoJobDropped` from `Inductive`. Distinct numbers
  are not inductive on their own: a worker that has inserted but not committed must already exclude others. `IInv`
  adds that an inserted number is taken by no committed version and by no other inserting worker of the project, and
  that the predecessor of a number a worker holds is committed (numbers come from committed versions, which never
  disappear). For dropped jobs it adds that a job has a row exactly from its handler's commit on, and that a worker's
  task is of such a job.
* **Studio, data.** `Backed` stands next to `IInv`: what a handler has stored, drafted or is about to commit is in its
  own organisation's tenant and backed by a file, and so is what a worker holds between saving an image and
  committing the version. From it `RowsHaveFiles`, `NoStrayUploads`, `CompletedMeansDelivered`, `TenantKept`,
  `HistoryAppendOnly` and `SourcesOnlyAdvance` (a generation takes the newest committed photo of
  its project, and committed photos stay).
* **Studio, what is lost and what is repeated.** `LeftForGood`, an action property on top of `IInv`: a job with a row
  that is in no handler, message or worker never comes back, and its status, log and output stay. For the rest, jobs
  are told apart by whether a message of theirs was delivered twice. `Once` is per job and holds while it was not: the
  job is in one place, its handler, the broker or one worker, and the place tells its status. For every other job
  `Agree`: its newest row is its status, or a run of it is between its two commits, or was stopped there; the two
  together are `LogTells`. `Handed`
  numbers the runs of every job: a task is one of those handed out, and no two tasks or versions are of the same run.
  `Counted`: the runs beyond each job's first form a finite set of `redeliveries` members. Since a version beyond a
  job's first can be charged to such a run, `RepeatsAreBounded` (at most `redeliveries` versions more than jobs that
  have one) and `NoRepeatNoDuplicate` (without a second delivery, two versions are of two jobs).
* **Studio, refinement.** `Dense` says that the versions are finitely many and numbered from 1 to their count, so a
  commit appends at the end. With `Once` and `Counted`, `Implements`: for any number of redeliveries every step of
  `DesignJobs` is a step of `JobOutcomes` or a stutter.
* **Workflow lifecycle.** `TypeCorrect`, `Contiguous`, `ApprovedFirst`, `PointerSound`, `OnlyReviewedRuns` and
  `ReviewNeverUndone`. The strengthening speaks about stale reads: a version that was read as `approved` is still
  stamped when the handler commits, because stamps only grow; a pointer that was read is still a published number.
  That is why these survive lost updates of the status columns, which do happen.
* **Workflow execution.** `TypeCorrect`, `VerdictsRight`, `StoredNeverRefused`, `Topological`, `InputsSeen` and
  `OutcomesExplained`, for every graph over any set of keys. Acyclic means that no set of steps has all its members
  waiting for each other ("trap"), which needs no induction over paths. The search is sound because the visited keys
  are closed under dependencies and contain no trap: a key that returns has all its dependencies visited, so a trap
  through it would leave one without it. It is complete because the path is a chain of dependencies, so meeting a key
  of the path closes a cycle. Keys that are never ready would be a trap, so an accepted graph can be ordered. The
  records follow the order, so each step's context holds the results of its predecessors, among them its dependencies.
  `OrderReproducible`: the rounds rank the keys, in round n come the keys whose deepest dependency came in round n - 1
  (`Ranks`), and ranks solve the equation that defines `Depth`. A function on an acyclic graph is determined by that
  equation: the least rank at which two solutions differ would need a smaller one. `CallsAreShort` is the safety half
  of `EveryCallEnds`: in a definition of n steps, finite as a JSON list is, a call begins with `Left` = 7 n + 6 and each
  of its steps lowers it. `SuccessNeedsHandlers`: with the handlers that the API gives its engine, none, no execution
  succeeds and none leaves the record of a step.
* **Setup.** `ExactlyOneAdmin`, `NeverClosedEmpty`, `SessionsBacked`: at most one request is between inserting the
  marker and committing it, and none is once a marker is committed.
* **Feature wiring.** `CompleteHistory` and `HistoryKept`: what a handler is about to write carries the version it
  read or the next one; if the version is free, it is the successor of the row, and then the row is what it read.
  `SwitchesAreRefused`: a handler that keeps the version it read meets the snapshot of that version.
  `NothingIsEverEnabled`: rows and snapshots are all off, and whoever is about to write something else keeps the version.
* **Account access.** `TypeCorrect`, `GuessingIsBounded`, `CountersExpire`, `TenancyKept`, `StaleWritesHarmless`,
  `SessionsLogged`. For guessing, `Paced`: increments get lost, so the counter says little about the guesses taken;
  but what is left of the bound covers what each handler, from the counter it has read or would read, can still let in
  (`Ahead`, counted by handler). For counters, `Paid`: only the death of a sign-in between INCR and EXPIRE adds a
  stuck one, and each such death adds to `faults`, so there are never more than faults. For tenancy and stale writes,
  `Decided`: a sign-in that goes on to write has seen an active account that was not locked, and a request that goes
  on to write may administer the user or is the user's own; rows are never removed. For sessions, `Accounted`
  balances, per user, the sessions opened with the successes logged, the sign-ins between the two, and the deaths
  there.
* **AI registry and execution.** `TypeCorrect`, `OneItemPerCode`, `EditsAreKept`: an editor holds a row it has read,
  and the unique constraints look at the committed rows. `NothingClosedIsUsed` rests on `Checked`: what a request has
  found in use was, at some moment since it began, not off, so it is not in `closed`. `RecordsAreTrue` and
  `WorkLeavesRecord` rest on `Logs`, which relates a request's step, its attempts, whether a provider worked for it,
  its record and its answer; a request that is to be stored has no call left that could still help, and one that ended
  unfiled had an id that is no UUID. With it
  `Implements`: every step is a step of `AIAnswers` or a stutter, whatever is edited meanwhile.

Type correctness is proved of every module with proofs, as part of its invariant. Model-checked only: the liveness
properties `JobsSettle`, `EveryCallEnds` and `RequestsAnswered`; liveness under fairness and ENABLED are out of the
prover's reach. Every other property of a passing run is a theorem. Induction over data is out of reach as well; where
an argument needs one, it is by the least counterexample (`LeastNumber`), and a recursive function such as `Depth` is
used through its equation, after a solution has been shown to exist. No proved module uses a RECURSIVE operator.

## 5. What is left

1. `AIExecution` reads a wiring's row; composing it with the snapshots and handlers of `FeatureWiring` would let
   publishing and rolling back race with an execution in one model.
2. Creating and editing an organisation.

## 6. Not modelled

* Contents of files, prompts, answers, names, passwords and hashes; formatting and logging; reads that change nothing;
  HTTP's back-off delays; the in-memory limiter and session store of local runs; Row-Level Security
  (`get_tenant_db_session` has no caller); schema migrations; the Celery connection pool across event loops (a matter
  of the driver); the placeholder modules and the frontend.
* Creating and editing organisations. `create_organisation` with an administrator passes `permissions_json`, which
  `OrganisationUserModel` does not declare, so that branch raises `TypeError`
  (`modules/organisations/api/routes.py:66`).
* The interior-design worker's own use of `AIExecutionService`: it calls the provider without writing an execution
  record, and `DesignJobs` has the call as one step with an outcome.
* A PATCH that sets a configuration to null.
* Python's recursion limit: `visit` (`workflows/domain/validation.py:52`) recurses once per step of a chain, so a legal
  chain of about a thousand steps raises `RecursionError` instead of being accepted. `VerdictIsRight` speaks of
  definitions within the limit.

Behaviours the models have that a reader may not expect:

* A session outlives a changed password and the suspension of its organisation; only a disabled account is turned
  away (`identity/application/authenticate.py:32`). Suspension does stop AI executions.
* An administrator's demand to change the password can be lost to a change that was under way.
* Two edits of one agent or model can both go from version n to n+1 (`modules/ai/api/routes.py:186`); the other
  columns are kept (`EditsKeepOthers`).
* Through the API no wiring is ever enabled and no workflow execution succeeds (`NothingIsEverEnabled`,
  `SuccessNeedsHandlers`); the models let wirings be edited and engines have handlers all the same.
* The record of a workflow step that raised keeps the status `running`; the execution is marked failed
  (`workflows/application/engine.py:168`).
* An answer of the provider without content, or that is not JSON, leaves no record, although the provider did the
  work; nor does a call whose process dies, nor one under a workflow whose id is no UUID (`orchestrator.py:186`).
  `ARCHITECTURE.md:228` speaks of every provider call; `WorkIsRecorded` states what is left of that, and names these
  exceptions.
