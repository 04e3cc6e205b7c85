------------------------------ MODULE DesignJobs ------------------------------
(***************************************************************************)
(* The Interior Design studio: the API handlers that store an upload or ask *)
(* for a design, the Celery broker between them, and the workers that run  *)
(* process_job (backend/app/modules/interior_design).  API requests,       *)
(* workers and the broker interleave at every await of the code; every DB   *)
(* transaction is private until it commits.                                *)
(*                                                                         *)
(* A request creates at most one AIJob row, so a request names its job, and *)
(* an uploaded original is named by the request that uploaded it.          *)
(***************************************************************************)
EXTENDS Naturals, FiniteSets, Sequences

CONSTANTS
    Orgs,             \* organisations
    Projects,         \* (organisation, name) pairs a project row can have
    OrgOf,            \* the organisation of each project
    Requests,         \* upload and generate requests, one AIJob row each at most
    Workers,          \* Celery worker processes
    NoRequest,        \* null
    MaxFaults,        \* bound: process deaths, failed commits, failed publishes
    MaxRedeliveries   \* bound: messages the broker delivers a second time

ASSUME OrgOfType == OrgOf \in [Projects -> Orgs]
ASSUME NoRequestIsNull == NoRequest \notin Requests
ASSUME BoundsAreNat == MaxFaults \in Nat /\ MaxRedeliveries \in Nat

VARIABLES
    projects,      \* rows of interior_design_projects
    stage,         \* how far the handler of a request has got
    draft,         \* what the handler is about to insert
    stamped,       \* originals in the order of their created_at
    files,         \* keys present under the storage root
    assets,        \* keys of the committed interior_design_assets rows
    status,        \* AIJob.status, ABSENT while there is no row
    log,           \* AIJobStatus rows of a job, oldest first
    output,        \* AIJob.output_data: the asset the result describes
    versions,      \* committed interior_design_versions rows
    queue,         \* messages in the broker, a count per job
    runs,          \* times the broker has handed a job to a worker
    wk,            \* the task each worker is running
    abandoned,     \* history: jobs a fault or a version conflict stopped
    faults,        \* history: faults so far
    redeliveries   \* history: second deliveries so far

apiVars    == <<projects, stage, draft, stamped>>
jobVars    == <<status, log, output>>
storeVars  == <<files, assets, versions>>
brokerVars == <<queue, runs, redeliveries>>
faultVars  == <<abandoned, faults>>
vars == <<apiVars, jobVars, storeVars, brokerVars, wk, faultVars>>

(***************************************************************************)
(* Rows and keys.                                                          *)
(***************************************************************************)
Kinds    == {"ANALYSIS", "GENERATION"}
Terminal == {"COMPLETED", "FAILED"}
Statuses == {"ABSENT", "QUEUED", "PROCESSING"} \cup Terminal

\* uuid4 keys: an upload's under originals/, one per run of a job under generated/.
OriginalKey(r)     == [folder |-> "originals", job |-> r, run |-> 0]
GeneratedKey(r, n) == [folder |-> "generated", job |-> r, run |-> n]
NoKey              == [folder |-> "none", job |-> NoRequest, run |-> 0]
Keys == [folder : {"originals", "generated"}, job : Requests, run : Nat]

Drafts  == [kind : Kinds, org : Orgs, project : Projects, source : Requests]
NoDraft == [kind |-> "NONE"]

Versions == [project : Projects, number : Nat \ {0}, job : Requests, run : Nat,
             source : Requests, saved : BOOLEAN]
VersionsOf(p) == {v \in versions : v.project = p}

Tasks == [at : {"idle", "loaded", "running", "saved", "numbered", "inserted"},
          job : Requests \cup {NoRequest}, seen : Statuses, run : Nat, number : Nat]
NoTask == [at |-> "idle", job |-> NoRequest, seen |-> "ABSENT", run |-> 0, number |-> 0]

\* Mutant: the query of owned_project without its organisation filter.
OwnedByAnyone(o, p) == p \in projects

\* owned_project: the project row exists and belongs to the caller's organisation.
OwnedProject(o, p) == p \in projects /\ OrgOf[p] = o

\* Committed originals of a project, and "r was created after s".
Originals(p) ==
    {r \in Requests : OriginalKey(r) \in assets /\ draft[r].project = p}
CreatedAfter(r, s) ==
    \E i, j \in DOMAIN stamped : i > j /\ stamped[i] = r /\ stamped[j] = s

\* The row and the file a run reads its image from.
SourceReadable(r) ==
    OriginalKey(draft[r].source) \in assets \cap files

Init ==
    /\ projects = {}
    /\ stage = [r \in Requests |-> "idle"]
    /\ draft = [r \in Requests |-> NoDraft]
    /\ stamped = <<>>
    /\ files = {} /\ assets = {} /\ versions = {}
    /\ status = [r \in Requests |-> "ABSENT"]
    /\ log = [r \in Requests |-> <<>>]
    /\ output = [r \in Requests |-> NoKey]
    /\ queue = [r \in Requests |-> 0]
    /\ runs = [r \in Requests |-> 0]
    /\ wk = [w \in Workers |-> NoTask]
    /\ abandoned = {} /\ faults = 0 /\ redeliveries = 0

-------------------------------------------------------------------------------
(***************************************************************************)
(* API handlers.                                                           *)
(***************************************************************************)

\* POST /projects.  A name taken in the organisation fails on the unique index.
CreateProject(o, p) ==
    /\ p \notin projects
    /\ OrgOf[p] = o
    /\ projects' = projects \cup {p}
    /\ UNCHANGED <<stage, draft, stamped, jobVars, storeVars, brokerVars, wk, faultVars>>

\* POST /projects/{id}/original, up to the open file of save_upload.
BeginUpload(r, o, p) ==
    /\ stage[r] = "idle"
    /\ OwnedProject(o, p)
    /\ stage' = [stage EXCEPT ![r] = "storing"]
    /\ draft' = [draft EXCEPT ![r] =
                    [kind |-> "ANALYSIS", org |-> o, project |-> p, source |-> r]]
    /\ files' = files \cup {OriginalKey(r)}
    /\ UNCHANGED <<projects, stamped, assets, versions, jobVars, brokerVars, wk, faultVars>>

\* Mutant: save_upload without its unlink.
RejectUploadKeepingFile(r) ==
    /\ stage[r] = "storing"
    /\ stage' = [stage EXCEPT ![r] = "closed"]
    /\ UNCHANGED <<projects, draft, stamped, jobVars, storeVars, brokerVars, wk, faultVars>>

\* save_upload refuses the type or the size, or the read fails: the file is unlinked.
RejectUpload(r) ==
    /\ stage[r] = "storing"
    /\ stage' = [stage EXCEPT ![r] = "closed"]
    /\ files' = files \ {OriginalKey(r)}
    /\ UNCHANGED <<projects, draft, stamped, assets, versions, jobVars, brokerVars,
                   wk, faultVars>>

\* The file is complete and the asset row is built with its created_at.
StoreUpload(r) ==
    /\ stage[r] = "storing"
    /\ stage' = [stage EXCEPT ![r] = "ready"]
    /\ stamped' = Append(stamped, r)
    /\ UNCHANGED <<projects, draft, jobVars, storeVars, brokerVars, wk, faultVars>>

\* Mutant: order_by(created_at) ascending.
BeginGenerateFromOldest(r, o, p) ==
    /\ stage[r] = "idle"
    /\ OwnedProject(o, p)
    /\ \E s \in Originals(p) :
          /\ \A t \in Originals(p) : ~CreatedAfter(s, t)
          /\ draft' = [draft EXCEPT ![r] =
                          [kind |-> "GENERATION", org |-> o, project |-> p, source |-> s]]
    /\ stage' = [stage EXCEPT ![r] = "ready"]
    /\ UNCHANGED <<projects, stamped, jobVars, storeVars, brokerVars, wk, faultVars>>

\* POST /projects/{id}/generate: the newest committed original is the source.
BeginGenerate(r, o, p) ==
    /\ stage[r] = "idle"
    /\ OwnedProject(o, p)
    /\ \E s \in Originals(p) :
          /\ \A t \in Originals(p) : ~CreatedAfter(t, s)
          /\ draft' = [draft EXCEPT ![r] =
                          [kind |-> "GENERATION", org |-> o, project |-> p, source |-> s]]
    /\ stage' = [stage EXCEPT ![r] = "ready"]
    /\ UNCHANGED <<projects, stamped, jobVars, storeVars, brokerVars, wk, faultVars>>

\* The transaction of either handler: asset row of an upload, job row, first status row.
CommitJob(r) ==
    /\ stage[r] = "ready"
    /\ stage' = [stage EXCEPT ![r] = "committed"]
    /\ assets' = IF draft[r].kind = "ANALYSIS" THEN assets \cup {OriginalKey(r)} ELSE assets
    /\ status' = [status EXCEPT ![r] = "QUEUED"]
    /\ log' = [log EXCEPT ![r] = Append(@, "QUEUED")]
    /\ UNCHANGED <<projects, draft, stamped, files, versions, output, brokerVars,
                   wk, faultVars>>

\* Mutant: a handler that swallows the error of delay.
PublishUnsent(r) ==
    /\ stage[r] = "committed"
    /\ stage' = [stage EXCEPT ![r] = "closed"]
    /\ UNCHANGED <<projects, draft, stamped, jobVars, storeVars, brokerVars, wk, faultVars>>

\* process_job.delay, after the commit.
Publish(r) ==
    /\ stage[r] = "committed"
    /\ stage' = [stage EXCEPT ![r] = "closed"]
    /\ queue' = [queue EXCEPT ![r] = @ + 1]
    /\ UNCHANGED <<projects, draft, stamped, jobVars, storeVars, runs, redeliveries,
                   wk, faultVars>>

\* Mutant: saving one version of a project clears the flag of the others.
SaveVersionAlone(o, v) ==
    /\ v \in versions
    /\ OrgOf[v.project] = o
    /\ versions' = {[u EXCEPT !.saved = IF u.project = v.project THEN u = v ELSE @] :
                       u \in versions}
    /\ UNCHANGED <<apiVars, files, assets, jobVars, brokerVars, wk, faultVars>>

\* POST /versions/{id}/save.
SaveVersion(o, v) ==
    /\ v \in versions
    /\ OrgOf[v.project] = o
    /\ versions' = (versions \ {v}) \cup {[v EXCEPT !.saved = TRUE]}
    /\ UNCHANGED <<apiVars, files, assets, jobVars, brokerVars, wk, faultVars>>

\* The API process dies, the commit fails or the broker refuses the message: the
\* handler ends where it is and nothing undoes what it already did.
RequestDies(r) ==
    /\ faults < MaxFaults
    /\ stage[r] \in {"storing", "ready", "committed"}
    /\ stage' = [stage EXCEPT ![r] = "closed"]
    /\ abandoned' = abandoned \cup {r}
    /\ faults' = faults + 1
    /\ UNCHANGED <<projects, draft, stamped, jobVars, storeVars, brokerVars, wk>>

-------------------------------------------------------------------------------
(***************************************************************************)
(* The worker: _run, one action per stretch between awaits that matter.     *)
(***************************************************************************)

\* Celery acknowledges on receipt; _run loads the row and returns if there is none.
Load(w, r) ==
    /\ runs' = [runs EXCEPT ![r] = @ + 1]
    /\ wk' = IF status[r] = "ABSENT" THEN wk
             ELSE [wk EXCEPT ![w] = [at |-> "loaded", job |-> r, seen |-> status[r],
                                     run |-> runs[r] + 1, number |-> 0]]

\* Mutant: task_acks_late with a visibility timeout shorter than a run, so that the broker
\* hands every message out once more.
ReceiveUnacknowledged(w, r) ==
    /\ wk[w].at = "idle"
    /\ queue[r] > 0
    /\ queue' = [queue EXCEPT ![r] = IF runs[r] = 0 THEN @ ELSE @ - 1]
    /\ Load(w, r)
    /\ UNCHANGED <<apiVars, jobVars, storeVars, redeliveries, faultVars>>

Receive(w, r) ==
    /\ wk[w].at = "idle"
    /\ queue[r] > 0
    /\ queue' = [queue EXCEPT ![r] = @ - 1]
    /\ Load(w, r)
    /\ UNCHANGED <<apiVars, jobVars, storeVars, redeliveries, faultVars>>

\* The broker hands the message out and keeps it (visibility timeout, publish retry).
ReceiveCopy(w, r) ==
    /\ redeliveries < MaxRedeliveries
    /\ wk[w].at = "idle"
    /\ queue[r] > 0
    /\ redeliveries' = redeliveries + 1
    /\ Load(w, r)
    /\ UNCHANGED <<apiVars, jobVars, storeVars, queue, faultVars>>

\* Mutant: the first commit without its AIJobStatus row.
StartUnlogged(w) ==
    LET r == wk[w].job IN
    /\ wk[w].at = "loaded"
    /\ status' = IF wk[w].seen = "PROCESSING" THEN status
                 ELSE [status EXCEPT ![r] = "PROCESSING"]
    /\ wk' = [wk EXCEPT ![w].at = "running", ![w].seen = "PROCESSING"]
    /\ UNCHANGED <<apiVars, storeVars, log, output, brokerVars, faultVars>>

\* First commit.  The UPDATE carries the columns that differ from the loaded row, so
\* a run that loaded PROCESSING leaves the status column as it finds it.
Start(w) ==
    LET r == wk[w].job IN
    /\ wk[w].at = "loaded"
    /\ status' = IF wk[w].seen = "PROCESSING" THEN status
                 ELSE [status EXCEPT ![r] = "PROCESSING"]
    /\ log' = [log EXCEPT ![r] = Append(@, "PROCESSING")]
    /\ wk' = [wk EXCEPT ![w].at = "running", ![w].seen = "PROCESSING"]
    /\ UNCHANGED <<apiVars, storeVars, output, brokerVars, faultVars>>

\* Mutant: a job that another run has ended keeps that end.
FinishOnce(w, outcome) ==
    LET r == wk[w].job IN
    /\ status' = IF status[r] \in Terminal THEN status ELSE [status EXCEPT ![r] = outcome]
    /\ log' = [log EXCEPT ![r] = Append(@, outcome)]
    /\ wk' = [wk EXCEPT ![w] = NoTask]

\* The last commit of a run: status, its row, and the task is over.
Finish(w, outcome) ==
    LET r == wk[w].job IN
    /\ status' = [status EXCEPT ![r] = outcome]
    /\ log' = [log EXCEPT ![r] = Append(@, outcome)]
    /\ wk' = [wk EXCEPT ![w] = NoTask]

\* An analysis succeeds: the output describes the source image.
CompleteAnalysis(w) ==
    LET r == wk[w].job IN
    /\ wk[w].at = "running"
    /\ draft[r].kind = "ANALYSIS"
    /\ SourceReadable(r)
    /\ output' = [output EXCEPT ![r] = OriginalKey(draft[r].source)]
    /\ Finish(w, "COMPLETED")
    /\ UNCHANGED <<apiVars, storeVars, brokerVars, faultVars>>

\* Mutant: the except clause names too few exceptions.
FailRunUncaught(w) ==
    /\ wk[w].at = "running"
    /\ wk' = [wk EXCEPT ![w] = NoTask]
    /\ UNCHANGED <<apiVars, jobVars, storeVars, brokerVars, faultVars>>

\* The except branch: no source, no file, provider failure, no or bad image; or a
\* write of save_generated that fails and leaves its file behind.
FailRun(w) ==
    LET r == wk[w].job IN
    /\ wk[w].at = "running"
    /\ \/ files' = files
       \/ /\ draft[r].kind = "GENERATION" /\ SourceReadable(r)
          /\ files' = files \cup {GeneratedKey(r, wk[w].run)}
    /\ Finish(w, "FAILED")
    /\ UNCHANGED <<apiVars, assets, versions, output, brokerVars, faultVars>>

\* Mutant: the rows are written first and the file after the commit.
SaveGeneratedLate(w) ==
    LET r == wk[w].job IN
    /\ wk[w].at = "running"
    /\ draft[r].kind = "GENERATION"
    /\ SourceReadable(r)
    /\ wk' = [wk EXCEPT ![w].at = "saved"]
    /\ UNCHANGED <<apiVars, jobVars, storeVars, brokerVars, faultVars>>

\* A generation's image is decoded and written; its asset row is flushed, not committed.
SaveGenerated(w) ==
    LET r == wk[w].job IN
    /\ wk[w].at = "running"
    /\ draft[r].kind = "GENERATION"
    /\ SourceReadable(r)
    /\ files' = files \cup {GeneratedKey(r, wk[w].run)}
    /\ wk' = [wk EXCEPT ![w].at = "saved"]
    /\ UNCHANGED <<apiVars, jobVars, assets, versions, brokerVars, faultVars>>

\* previous.version_number + 1 if previous else 1, from the committed versions.
ReadPrevious(w) ==
    LET taken == VersionsOf(draft[wk[w].job].project) IN
    /\ wk[w].at = "saved"
    /\ \/ /\ taken = {}
          /\ wk' = [wk EXCEPT ![w].at = "numbered", ![w].number = 1]
       \/ \E previous \in taken :
             /\ \A v \in taken : v.number <= previous.number
             /\ wk' = [wk EXCEPT ![w].at = "numbered",
                                 ![w].number = previous.number + 1]
    /\ UNCHANGED <<apiVars, jobVars, storeVars, brokerVars, faultVars>>

\* Mutant: a migration without the unique constraint.
NumberNeverTaken(w) == FALSE

\* UniqueConstraint(project_id, version_number), against committed rows, and against
\* the row another open transaction has inserted, which makes this one wait.
NumberTaken(w) ==
    \E v \in VersionsOf(draft[wk[w].job].project) : v.number = wk[w].number
NumberPending(w) ==
    \E u \in Workers \ {w} :
        /\ wk[u].at = "inserted"
        /\ draft[wk[u].job].project = draft[wk[w].job].project
        /\ wk[u].number = wk[w].number

\* The row this run is about to commit.
NewVersion(w) ==
    LET r == wk[w].job IN
    [project |-> draft[r].project, number |-> wk[w].number, job |-> r,
     run |-> wk[w].run, source |-> draft[r].source, saved |-> FALSE]

\* Mutant: the version row is committed on its own, ahead of the job.
InsertVersionCommitted(w) ==
    /\ wk[w].at = "numbered"
    /\ ~NumberTaken(w) /\ ~NumberPending(w)
    /\ versions' = versions \cup {NewVersion(w)}
    /\ wk' = [wk EXCEPT ![w].at = "inserted"]
    /\ UNCHANGED <<apiVars, jobVars, files, assets, brokerVars, faultVars>>

InsertVersion(w) ==
    /\ wk[w].at = "numbered"
    /\ ~NumberTaken(w) /\ ~NumberPending(w)
    /\ wk' = [wk EXCEPT ![w].at = "inserted"]
    /\ UNCHANGED <<apiVars, jobVars, storeVars, brokerVars, faultVars>>

\* Mutant: a duplicate number is read as "this job is already done".
VersionConflictIgnored(w) ==
    /\ wk[w].at = "numbered"
    /\ NumberTaken(w)
    /\ Finish(w, "COMPLETED")
    /\ UNCHANGED <<apiVars, storeVars, output, brokerVars, faultVars>>

\* The flush fails on the index and takes the transaction with it.  The except branch
\* then uses a session that only accepts a rollback, so its own commit raises too:
\* nothing more of this run is written.
VersionConflict(w) ==
    /\ wk[w].at = "numbered"
    /\ NumberTaken(w)
    /\ wk' = [wk EXCEPT ![w] = NoTask]
    /\ abandoned' = abandoned \cup {wk[w].job}
    /\ UNCHANGED <<apiVars, jobVars, storeVars, brokerVars, faults>>

CompleteGeneration(w) ==
    LET r == wk[w].job IN
    /\ wk[w].at = "inserted"
    /\ versions' = versions \cup {NewVersion(w)}
    /\ assets' = assets \cup {GeneratedKey(r, wk[w].run)}
    /\ output' = [output EXCEPT ![r] = GeneratedKey(r, wk[w].run)]
    /\ Finish(w, "COMPLETED")
    /\ UNCHANGED <<apiVars, files, brokerVars, faultVars>>

\* The worker process dies; the open transaction and the acknowledged message are lost.
WorkerDies(w) ==
    /\ faults < MaxFaults
    /\ wk[w].at # "idle"
    /\ wk' = [wk EXCEPT ![w] = NoTask]
    /\ abandoned' = abandoned \cup {wk[w].job}
    /\ faults' = faults + 1
    /\ UNCHANGED <<apiVars, jobVars, storeVars, brokerVars>>

-------------------------------------------------------------------------------
RequestStep(r) == RejectUpload(r) \/ StoreUpload(r) \/ CommitJob(r) \/ Publish(r)

WorkerStep(w) ==
    \/ \E r \in Requests : Receive(w, r)
    \/ Start(w) \/ CompleteAnalysis(w) \/ FailRun(w) \/ SaveGenerated(w)
    \/ ReadPrevious(w) \/ InsertVersion(w) \/ VersionConflict(w)
    \/ CompleteGeneration(w)

Next ==
    \/ \E o \in Orgs, p \in Projects : CreateProject(o, p)
    \/ \E r \in Requests, o \in Orgs, p \in Projects :
          BeginUpload(r, o, p) \/ BeginGenerate(r, o, p)
    \/ \E r \in Requests : RequestStep(r) \/ RequestDies(r)
    \/ \E o \in Orgs : \E v \in versions : SaveVersion(o, v)
    \/ \E w \in Workers : WorkerStep(w) \/ WorkerDies(w)
    \/ \E w \in Workers, r \in Requests : ReceiveCopy(w, r)

Spec == Init /\ [][Next]_vars

\* A handler that began runs to its end, and an idle worker takes messages; the AI
\* call is bounded by the client's timeout and retries.  Users owe nothing.
FairSpec ==
    /\ Spec
    /\ \A r \in Requests : WF_vars(RequestStep(r))
    /\ \A w \in Workers : WF_vars(WorkerStep(w))

-------------------------------------------------------------------------------
(***************************************************************************)
(* Properties.                                                             *)
(***************************************************************************)

\* Every variable holds a value of its type.
TypeOK ==
    /\ projects \subseteq Projects
    /\ stage \in [Requests -> {"idle", "storing", "ready", "committed", "closed"}]
    /\ draft \in [Requests -> Drafts \cup {NoDraft}]
    /\ stamped \in Seq(Requests)
    /\ files \subseteq Keys /\ assets \subseteq Keys /\ versions \subseteq Versions
    /\ status \in [Requests -> Statuses]
    /\ log \in [Requests -> Seq(Statuses)]
    /\ output \in [Requests -> Keys \cup {NoKey}]
    /\ queue \in [Requests -> Nat] /\ runs \in [Requests -> Nat]
    /\ wk \in [Workers -> Tasks]
    /\ abandoned \subseteq Requests /\ faults \in Nat /\ redeliveries \in Nat

\* However the runs of a project overlap, crash or repeat, its committed versions are
\* numbered 1, 2, 3, ...: no number twice, none skipped.
VersionsNumberedInOrder ==
    /\ \A u, v \in versions : u.project = v.project /\ u.number = v.number => u = v
    /\ \A v \in versions : v.number > 1 =>
          \E u \in versions : u.project = v.project /\ u.number = v.number - 1

\* A row never outlives what it points at: an asset row has its file, a version has the
\* rows of its generated asset and of its source.
RowsAreBacked ==
    /\ assets \subseteq files
    /\ \A v \in versions : {GeneratedKey(v.job, v.run), OriginalKey(v.source)} \subseteq assets

\* A job the user sees COMPLETED has a committed result of its own kind, also when a
\* second run of the job failed, repeated or was lost in between.
CompletedJobsDeliver ==
    \A r \in Requests : status[r] = "COMPLETED" =>
        IF draft[r].kind = "ANALYSIS"
        THEN output[r] = OriginalKey(r) /\ output[r] \in assets
        ELSE \E v \in versions : v.job = r /\ output[r] = GeneratedKey(r, v.run)

\* Everything made for a request stays in the organisation of the caller: the project,
\* the image the run reads, and the version it adds.
WorkStaysInTenant ==
    /\ \A r \in Requests : status[r] # "ABSENT" =>
          /\ OrgOf[draft[r].project] = draft[r].org
          /\ draft[draft[r].source].project = draft[r].project
    /\ \A v \in versions : v.project = draft[v.job].project

\* What can still bring a job to an end: its handler, a message, or a worker.
Carried(r) ==
    \/ stage[r] = "committed"
    \/ queue[r] > 0
    \/ \E w \in Workers : wk[w].job = r

\* No hand-over between API, broker and worker drops a job: one that is neither finished
\* nor carried any more was stopped by a fault or a version conflict.
OnlyFaultsStrandJobs ==
    \A r \in Requests :
        status[r] \in {"QUEUED", "PROCESSING"} => Carried(r) \/ r \in abandoned

\* save_upload leaves no file behind that neither a row nor a running handler accounts for.
UploadsAreAccountedFor ==
    \A r \in Requests : OriginalKey(r) \in files =>
        OriginalKey(r) \in assets \/ stage[r] \in {"storing", "ready"} \/ r \in abandoned

\* The runs a job has had, or will have, beyond its first.
ExtraRuns == [r \in Requests |-> IF runs[r] + queue[r] > 1 THEN runs[r] + queue[r] - 1 ELSE 0]

\* Status rows and status never part.  The rows of a job that was delivered once retell its
\* life; and of any job, however often and in whatever order its runs overlapped, the newest
\* row is the status again as soon as no run is between its two commits, unless a fault or
\* a version conflict stopped one there.
LifeCycles == {<<>>, <<"QUEUED">>, <<"QUEUED", "PROCESSING">>} \cup
              {<<"QUEUED", "PROCESSING", t>> : t \in Terminal}
Newest(r) == IF log[r] = <<>> THEN "ABSENT" ELSE log[r][Len(log[r])]
Between(r) == \E w \in Workers : wk[w].job = r /\ wk[w].at # "loaded"
LogTellsStatus ==
    \A r \in Requests :
        /\ ExtraRuns[r] = 0 => log[r] \in LifeCycles /\ status[r] = Newest(r)
        /\ status[r] = Newest(r) \/ Between(r) \/ r \in abandoned

\* A second delivery is the only way to a second version of a job, and costs one at most:
\* there are as many versions as jobs that have one, and no more on top than repeats.
ExtraVersionsAreRepeats ==
    Cardinality(versions) <= Cardinality({v.job : v \in versions}) + redeliveries

\* The history of a project is append-only: a committed version keeps its number, its
\* job, its run and its source, and once saved it stays saved.
VersionHistoryKept ==
    [][\A v \in versions : \E u \in versions' :
          /\ [u EXCEPT !.saved = v.saved] = v
          /\ v.saved => u.saved]_vars

\* Designs never fall back to an older photo: whatever order uploads commit in, the source
\* of a new generation is not older than the one an earlier generation of the project used,
\* nor than a photo of it whose analysis the user can already see.
SourcesAdvance ==
    [][\A r, s \in Requests :
          /\ draft[r] = NoDraft /\ draft'[r] # NoDraft /\ draft'[r].kind = "GENERATION"
          /\ draft[s] # NoDraft /\ draft[s].project = draft'[r].project
          /\ draft[s].kind = "GENERATION" \/ status[s] # "ABSENT"
          => ~CreatedAfter(draft[s].source, draft'[r].source)]_vars

\* Every job that has a row ends COMPLETED or FAILED, unless a fault or a version
\* conflict stops it.
JobsSettle ==
    \A r \in Requests :
        status[r] # "ABSENT" ~> (status[r] \in Terminal \/ r \in abandoned)

\* Celery tasks are "safe to retry (checked via DB state before re-executing a step)"
\* (ARCHITECTURE.md:303): a job adds one version at most.
RetryIsIdempotent ==
    \A u, v \in versions : u.job = v.job => u = v

\* A run that fails is "marked failed" (ARCHITECTURE.md:304): while no process has died,
\* a job in PROCESSING has a worker or a message that will end it.
FailedRunsAreMarked ==
    faults = 0 => \A r \in Requests : status[r] = "PROCESSING" => Carried(r)

\* The versions of a project in the order of their numbers, as the runs behind them.
DesignHistory ==
    [p \in Projects |->
        [n \in 1 .. Cardinality(VersionsOf(p)) |->
            LET v == CHOOSE v \in VersionsOf(p) : v.number = n IN [job |-> v.job, run |-> v.run]]]

\* All of this machinery looks to the user like JobOutcomes: a run of a job adds one
\* version to one history at most, and only a second delivery changes a job that ended.
Outcomes == INSTANCE JobOutcomes
              WITH Jobs <- Requests, MaxRepeats <- MaxRedeliveries, state <- status,
                   history <- DesignHistory, extra <- ExtraRuns, repeats <- redeliveries
ImplementsOutcomes == Outcomes!Spec
===============================================================================
