------------------------- MODULE DesignJobsDataProofs -------------------------
(***************************************************************************)
(* What the rows and files of the studio promise each other, proved on top *)
(* of the invariant of DesignJobsProofs: files behind rows, results behind *)
(* COMPLETED, tenancy, and the history of a project; what a second delivery *)
(* of a message costs; and that the studio implements JobOutcomes.          *)
(***************************************************************************)
EXTENDS DesignJobsProofs, FiniteSetTheorems, SequenceTheorems

\* A handler works on an upload's file exactly while its row is still to come, and the
\* row of an original appears with its job.
Uploads ==
    \A r \in Requests :
        /\ OriginalKey(r) \in assets <=> status[r] # "ABSENT" /\ draft[r].kind = "ANALYSIS"
        /\ OriginalKey(r) \in files => draft[r].kind = "ANALYSIS"
        /\ stage[r] = "storing" => draft[r].kind = "ANALYSIS"
        /\ stage[r] \in {"storing", "ready"} /\ draft[r].kind = "ANALYSIS"
              => OriginalKey(r) \in files

\* What a handler drafts belongs to the caller, and reads a committed image of its project.
Drafted ==
    \A r \in Requests : draft[r] # NoDraft =>
        /\ OrgOf[draft[r].project] = draft[r].org
        /\ draft[r].kind = "ANALYSIS" => draft[r].source = r
        /\ draft[r].kind = "GENERATION" =>
              /\ OriginalKey(draft[r].source) \in assets
              /\ draft[draft[r].source].project = draft[r].project

\* A run that has saved an image left it on disk.
ImagesSaved ==
    \A w \in Workers : wk[w].at \in {"saved", "numbered", "inserted"} =>
        /\ draft[wk[w].job].kind = "GENERATION"
        /\ GeneratedKey(wk[w].job, wk[w].run) \in files

\* A version was drafted by its job.
VersionsDrafted ==
    \A v \in versions :
        draft[v.job] # NoDraft /\ v.project = draft[v.job].project

Backed ==
    /\ Uploads /\ Drafted /\ ImagesSaved /\ VersionsDrafted
    /\ RowsAreBacked /\ UploadsAreAccountedFor /\ CompletedJobsDeliver

Sound == TypeOK /\ Wired /\ NumbersClaimed

\* Keys tell originals and images, and the requests behind originals, apart.
LEMMA KeysDiffer ==
  /\ \A r, s : OriginalKey(r) = OriginalKey(s) => r = s
  /\ \A r, s, n : OriginalKey(r) # GeneratedKey(s, n)
  BY DEF OriginalKey, GeneratedKey

\* A step leaves uploads and drafts alone: so do creating a project, saving a version,
\* and every step of a worker, which adds images and their rows only.
Apart ==
    /\ stage' = stage /\ draft' = draft /\ abandoned \subseteq abandoned'
    /\ assets \subseteq assets' /\ files \subseteq files'
    /\ \A r \in Requests : /\ OriginalKey(r) \in assets' => OriginalKey(r) \in assets
                           /\ OriginalKey(r) \in files' => OriginalKey(r) \in files
                           /\ status'[r] = "ABSENT" <=> status[r] = "ABSENT"

LEMMA WorkersApart ==
  ASSUME Sound, NEW w \in Workers,
         WorkerStep(w) \/ WorkerDies(w) \/ \E r \in Requests : ReceiveCopy(w, r)
  PROVE  Apart
<1> USE DEF apiVars, jobVars, storeVars, brokerVars, faultVars
<1>1. CASE \E r \in Requests : Receive(w, r) \/ ReceiveCopy(w, r)
  BY <1>1 DEF Apart, Receive, ReceiveCopy
<1>2. CASE Start(w)
  <2>1. \A r \in Requests : status'[r] = "ABSENT" <=> status[r] = "ABSENT"
    BY <1>2 DEF Sound, TypeOK, Wired, Start
  <2>2. QED
    BY <1>2, <2>1 DEF Apart, Start
<1>3. CASE CompleteAnalysis(w) \/ FailRun(w) \/ CompleteGeneration(w)
  <2>1. \A r \in Requests : status'[r] = "ABSENT" <=> status[r] = "ABSENT"
    BY <1>3 DEF Sound, TypeOK, Wired, CompleteAnalysis, FailRun, CompleteGeneration, Finish
  <2>2. UNCHANGED <<stage, draft, abandoned>>
    BY <1>3 DEF CompleteAnalysis, FailRun, CompleteGeneration
  <2>3. \A r \in Requests : /\ OriginalKey(r) \in assets' => OriginalKey(r) \in assets
                            /\ OriginalKey(r) \in files' => OriginalKey(r) \in files
    BY <1>3, KeysDiffer DEF CompleteAnalysis, FailRun, CompleteGeneration
  <2>4. assets \subseteq assets' /\ files \subseteq files'
    BY <1>3 DEF CompleteAnalysis, FailRun, CompleteGeneration
  <2>5. QED
    BY <2>1, <2>2, <2>3, <2>4 DEF Apart
<1>4. CASE SaveGenerated(w)
  BY <1>4, KeysDiffer DEF Apart, SaveGenerated
<1>5. CASE ReadPrevious(w) \/ InsertVersion(w) \/ VersionConflict(w) \/ WorkerDies(w)
  BY <1>5 DEF Apart, ReadPrevious, InsertVersion, VersionConflict, WorkerDies
<1>6. QED
  BY <1>1, <1>2, <1>3, <1>4, <1>5 DEF WorkerStep

\* Such steps keep what uploads and drafts promise.
LEMMA ApartKeeps ==
  ASSUME Sound, Uploads, Drafted, UploadsAreAccountedFor, Apart
  PROVE  Uploads' /\ Drafted' /\ UploadsAreAccountedFor'
<1>1. Uploads' /\ UploadsAreAccountedFor'
  BY DEF Uploads, UploadsAreAccountedFor, Apart
<1>2. Drafted'
  BY DEF Drafted, Apart
<1>3. QED
  BY <1>1, <1>2

\* A draft reads a request, and a row stands for a draft.
LEMMA DraftsRead ==
  ASSUME Sound
  PROVE  /\ \A r \in Requests : draft[r] # NoDraft =>
               draft[r] \in Drafts /\ draft[r].source \in Requests
         /\ \A r \in Requests : draft[r].kind = "ANALYSIS" => draft[r] # NoDraft
  BY DEF Sound, TypeOK, Drafts, NoDraft

\* A handler that begins keeps them.
LEMMA BeginKeeps ==
  ASSUME Sound, Uploads, Drafted, UploadsAreAccountedFor,
         NEW r \in Requests, NEW o \in Orgs, NEW p \in Projects,
         BeginUpload(r, o, p) \/ BeginGenerate(r, o, p)
  PROVE  Uploads' /\ Drafted' /\ UploadsAreAccountedFor'
<1> USE DEF apiVars, jobVars, storeVars, brokerVars, faultVars
<1>1. draft[r] = NoDraft /\ status[r] = "ABSENT" /\ draft[r].kind = "NONE"
  BY DEF Sound, Wired, BeginUpload, BeginGenerate, NoDraft
<1>2. OriginalKey(r) \notin assets
  BY <1>1 DEF Uploads
<1>3. UNCHANGED <<assets, status, abandoned>>
  BY DEF BeginUpload, BeginGenerate
<1>4. \A s \in Requests \ {r} : draft'[s] = draft[s] /\ stage'[s] = stage[s]
  BY DEF Sound, TypeOK, BeginUpload, BeginGenerate
<1>5. CASE BeginUpload(r, o, p)
  <2>1. /\ stage'[r] = "storing" /\ files' = files \cup {OriginalKey(r)}
        /\ draft'[r] = [kind |-> "ANALYSIS", org |-> o, project |-> p, source |-> r]
    BY <1>5 DEF Sound, TypeOK, BeginUpload
  <2>2. OrgOf[p] = o
    BY <1>5 DEF BeginUpload, OwnedProject
  <2>3. draft'[r].kind = "ANALYSIS" /\ draft'[r].org = o /\ draft'[r].project = p
        /\ draft'[r].source = r
    BY <2>1
  <2>4. Uploads' /\ UploadsAreAccountedFor'
    BY <1>1, <1>2, <1>3, <1>4, <2>1, <2>3, KeysDiffer DEF Uploads, UploadsAreAccountedFor
  <2>5. Drafted'
    <3>1. \A s \in Requests : draft[s] # NoDraft /\ draft[s].kind = "GENERATION" =>
             draft[s].source # r
      BY <1>2 DEF Drafted
    <3>2. QED
      BY <1>1, <1>3, <1>4, <2>2, <2>3, <3>1, DraftsRead DEF Drafted
  <2>6. QED
    BY <2>4, <2>5
<1>6. CASE BeginGenerate(r, o, p)
  <2>1. PICK s \in Originals(p) :
           draft' = [draft EXCEPT ![r] =
                       [kind |-> "GENERATION", org |-> o, project |-> p, source |-> s]]
    BY <1>6 DEF BeginGenerate
  <2>2. stage'[r] = "ready" /\ files' = files
    BY <1>6 DEF Sound, TypeOK, BeginGenerate
  <2>3. draft'[r].kind = "GENERATION" /\ draft'[r].org = o /\ draft'[r].project = p
        /\ draft'[r].source = s
    BY <2>1 DEF Sound, TypeOK
  <2>4. OrgOf[p] = o /\ s \in Requests /\ OriginalKey(s) \in assets /\ draft[s].project = p
    BY <1>6, <2>1 DEF BeginGenerate, OwnedProject, Originals
  <2>5. s # r
    BY <1>2, <2>4
  <2>6. OriginalKey(r) \notin files
    BY <1>1 DEF Uploads
  <2>7. Uploads' /\ UploadsAreAccountedFor'
    BY <1>1, <1>2, <1>3, <1>4, <2>2, <2>3, <2>6 DEF Uploads, UploadsAreAccountedFor
  <2>8. Drafted'
    <3>1. \A q \in Requests : draft[q] # NoDraft /\ draft[q].kind = "GENERATION" =>
             draft[q].source # r
      BY <1>2 DEF Drafted
    <3>2. QED
      BY <1>1, <1>3, <1>4, <2>3, <2>4, <2>5, <3>1, DraftsRead DEF Drafted
  <2>9. QED
    BY <2>7, <2>8
<1>7. QED
  BY <1>5, <1>6

\* And so does one that goes on, or dies.
LEMMA HandlerKeeps ==
  ASSUME Sound, Uploads, Drafted, UploadsAreAccountedFor,
         NEW r \in Requests, RequestStep(r) \/ RequestDies(r)
  PROVE  Uploads' /\ Drafted' /\ UploadsAreAccountedFor'
<1> USE DEF apiVars, jobVars, storeVars, brokerVars, faultVars
<1>1. draft' = draft /\ assets \subseteq assets' /\ abandoned \subseteq abandoned'
  BY DEF RequestStep, RejectUpload, StoreUpload, CommitJob, Publish, RequestDies
<1>2. Drafted'
  BY <1>1 DEF Drafted
<1>3. \A s \in Requests \ {r} : stage'[s] = stage[s] /\ status'[s] = status[s]
  BY DEF Sound, TypeOK, RequestStep, RejectUpload, StoreUpload, CommitJob, Publish, RequestDies
<1>4. CASE RejectUpload(r)
  <2>1. stage[r] = "storing" /\ stage'[r] = "closed" /\ files' = files \ {OriginalKey(r)}
    BY <1>4 DEF Sound, TypeOK, RejectUpload
  <2>2. assets' = assets /\ status' = status
    BY <1>4 DEF RejectUpload
  <2>3. QED
    BY <1>1, <1>2, <1>3, <2>1, <2>2, KeysDiffer DEF Uploads, UploadsAreAccountedFor
<1>5. CASE StoreUpload(r) \/ Publish(r) \/ RequestDies(r)
  <2>1. UNCHANGED <<assets, files, status>>
    BY <1>5 DEF StoreUpload, Publish, RequestDies
  <2>2. \/ stage[r] = "storing" /\ stage'[r] = "ready"
        \/ stage[r] = "committed" /\ stage'[r] = "closed"
        \/ stage'[r] = "closed" /\ r \in abandoned'
    BY <1>5 DEF Sound, TypeOK, StoreUpload, Publish, RequestDies
  <2>3. QED
    BY <1>1, <1>2, <1>3, <2>1, <2>2 DEF Uploads, UploadsAreAccountedFor
<1>6. CASE CommitJob(r)
  <2>1. /\ stage[r] = "ready" /\ stage'[r] = "committed" /\ files' = files
        /\ status'[r] = "QUEUED" /\ status[r] = "ABSENT"
    BY <1>6 DEF Sound, TypeOK, Wired, CommitJob
  <2>2. assets' = IF draft[r].kind = "ANALYSIS" THEN assets \cup {OriginalKey(r)} ELSE assets
    BY <1>6 DEF CommitJob
  <2>3. QED
    BY <1>1, <1>2, <1>3, <2>1, <2>2, KeysDiffer DEF Uploads, UploadsAreAccountedFor
<1>7. QED
  BY <1>4, <1>5, <1>6 DEF RequestStep

\* Every step keeps what uploads and drafts promise.
LEMMA UploadsStep ==
  ASSUME Sound, Uploads, Drafted, UploadsAreAccountedFor, [Next]_vars
  PROVE  Uploads' /\ Drafted' /\ UploadsAreAccountedFor'
<1> USE DEF apiVars, jobVars, storeVars, brokerVars, faultVars
<1>1. CASE UNCHANGED vars
  BY <1>1, ApartKeeps DEF Apart, vars
<1>2. ASSUME NEW o \in Orgs, NEW p \in Projects, CreateProject(o, p) PROVE Apart
  BY <1>2 DEF Apart, CreateProject
<1>3. ASSUME NEW o \in Orgs, NEW v \in versions, SaveVersion(o, v) PROVE Apart
  BY <1>3 DEF Apart, SaveVersion
<1>4. QED
  BY <1>1, <1>2, <1>3, WorkersApart, ApartKeeps, BeginKeeps, HandlerKeeps DEF Next

\* Committed versions stay, one may be marked saved, and only a finished generation adds one.
LEMMA VersionsMove ==
  ASSUME [Next]_vars
  PROVE  \/ versions' = versions
         \/ \E v \in versions : versions' = (versions \ {v}) \cup {[v EXCEPT !.saved = TRUE]}
         \/ \E w \in Workers : CompleteGeneration(w)
<1> USE DEF apiVars, jobVars, storeVars, brokerVars, faultVars
<1>1. CASE \E o \in Orgs : \E v \in versions : SaveVersion(o, v)
  BY <1>1 DEF SaveVersion
<1>2. CASE \E w \in Workers : CompleteGeneration(w)
  BY <1>2
<1>3. QED
  BY <1>1, <1>2 DEF Next, vars, RequestStep, WorkerStep, CreateProject, BeginUpload,
     BeginGenerate, RejectUpload, StoreUpload, CommitJob, Publish, RequestDies, Receive,
     ReceiveCopy, Start, CompleteAnalysis, FailRun, SaveGenerated, ReadPrevious,
     InsertVersion, VersionConflict, WorkerDies

\* Two rows of the same version, the first one read earlier.
Same(v, u) ==
    /\ u.project = v.project /\ u.number = v.number /\ u.job = v.job
    /\ u.run = v.run /\ u.source = v.source
    /\ v.saved => u.saved

LEMMA VersionsPersist ==
  ASSUME Sound, [Next]_vars
  PROVE  /\ \A v \in versions : \E u \in versions' : Same(v, u)
         /\ \A u \in versions' : \/ \E v \in versions : Same(v, u)
                                 \/ \E w \in Workers : CompleteGeneration(w) /\ u = NewVersion(w)
<1>1. \A v \in versions : Same(v, v) /\ Same(v, [v EXCEPT !.saved = TRUE])
  <2> SUFFICES ASSUME NEW v \in versions PROVE Same(v, v) /\ Same(v, [v EXCEPT !.saved = TRUE])
    OBVIOUS
  <2>1. v \in Versions
    BY DEF Sound, TypeOK
  <2>2. QED
    BY <2>1 DEF Same, Versions
<1>2. CASE versions' = versions
  BY <1>1, <1>2
<1>3. CASE \E v \in versions : versions' = (versions \ {v}) \cup {[v EXCEPT !.saved = TRUE]}
  <2>1. PICK v \in versions : versions' = (versions \ {v}) \cup {[v EXCEPT !.saved = TRUE]}
    BY <1>3
  <2>2. QED
    BY <1>1, <2>1
<1>4. ASSUME NEW w \in Workers, CompleteGeneration(w)
      PROVE  /\ \A v \in versions : \E u \in versions' : Same(v, u)
             /\ \A u \in versions' : (\E v \in versions : Same(v, u)) \/ u = NewVersion(w)
  BY <1>1, <1>4 DEF CompleteGeneration
<1>5. QED
  BY <1>2, <1>3, <1>4, VersionsMove

\* The version a run is about to commit is the one its job drafted, from an image whose
\* row is committed.
LEMMA NewVersionDrafted ==
  ASSUME Sound, Drafted, ImagesSaved, NEW w \in Workers, wk[w].at = "inserted"
  PROVE  LET r == wk[w].job
         IN  /\ r \in Requests /\ draft[r] # NoDraft /\ draft[r].kind = "GENERATION"
             /\ NewVersion(w).project = draft[r].project
             /\ NewVersion(w).job = r /\ NewVersion(w).run = wk[w].run
             /\ OriginalKey(NewVersion(w).source) \in assets
             /\ GeneratedKey(r, wk[w].run) \in files
<1>1. wk[w].job \in Requests /\ draft[wk[w].job] # NoDraft
  BY DEF Sound, Wired
<1>2. draft[wk[w].job].kind = "GENERATION" /\ GeneratedKey(wk[w].job, wk[w].run) \in files
  BY DEF ImagesSaved
<1>3. OriginalKey(draft[wk[w].job].source) \in assets
  BY <1>1, <1>2 DEF Drafted
<1>4. QED
  BY <1>1, <1>2, <1>3 DEF NewVersion

LEMMA VersionsDraftedStep ==
  ASSUME Sound, Drafted, ImagesSaved, VersionsDrafted, [Next]_vars
  PROVE  VersionsDrafted'
<1> SUFFICES ASSUME NEW u \in versions'
             PROVE  draft'[u.job] # NoDraft /\ u.project = draft'[u.job].project
  BY DEF VersionsDrafted
<1>1. \A r \in Requests : draft[r] # NoDraft => draft'[r] = draft[r]
  BY DraftsKept DEF Sound
<1>2. CASE \E v \in versions : Same(v, u)
  <2>1. PICK v \in versions : Same(v, u)
    BY <1>2
  <2>2. v.job \in Requests
    BY DEF Sound, TypeOK, Versions
  <2>3. QED
    BY <1>1, <2>1, <2>2 DEF Same, VersionsDrafted
<1>3. ASSUME NEW w \in Workers, CompleteGeneration(w), u = NewVersion(w)
      PROVE  draft'[u.job] # NoDraft /\ u.project = draft'[u.job].project
  BY <1>1, <1>3, NewVersionDrafted DEF CompleteGeneration
<1>4. QED
  BY <1>2, <1>3, VersionsPersist

\* Rows of assets stay; a row appears with a file that is on disk; a file goes only with
\* an upload that has no row.
LEMMA AssetsBacked ==
  ASSUME Sound, Uploads, ImagesSaved, assets \subseteq files, [Next]_vars
  PROVE  /\ assets \subseteq assets' /\ assets' \subseteq files'
         /\ \A k \in files : k.folder = "generated" => k \in files'
<1> USE DEF apiVars, jobVars, storeVars, brokerVars, faultVars
<1> DEFINE Good == /\ assets \subseteq assets' /\ assets' \subseteq files'
                   /\ \A k \in files : k.folder = "generated" => k \in files'
<1>1. CASE assets' = assets /\ files \subseteq files'
  BY <1>1
<1>2. ASSUME NEW r \in Requests, RejectUpload(r) PROVE Good
  <2>1. OriginalKey(r) \notin assets
    BY <1>2 DEF Sound, Wired, Uploads, RejectUpload
  <2>2. OriginalKey(r).folder = "originals"
    BY DEF OriginalKey
  <2>3. QED
    BY <1>2, <2>1, <2>2 DEF RejectUpload
<1>3. ASSUME NEW r \in Requests, CommitJob(r) PROVE Good
  <2>1. draft[r].kind = "ANALYSIS" => OriginalKey(r) \in files
    BY <1>3 DEF Uploads, CommitJob
  <2>2. QED
    BY <1>3, <2>1 DEF CommitJob
<1>4. ASSUME NEW w \in Workers, CompleteGeneration(w) PROVE Good
  <2>1. GeneratedKey(wk[w].job, wk[w].run) \in files
    BY <1>4 DEF ImagesSaved, CompleteGeneration
  <2>2. QED
    BY <1>4, <2>1 DEF CompleteGeneration
<1>5. CASE \E w \in Workers : SaveGenerated(w) \/ FailRun(w)
  BY <1>1, <1>5 DEF SaveGenerated, FailRun
<1>6. CASE \E r \in Requests, o \in Orgs, p \in Projects : BeginUpload(r, o, p)
  BY <1>1, <1>6 DEF BeginUpload
<1>7. CASE UNCHANGED <<assets, files>>
  BY <1>1, <1>7
<1>8. QED
  BY <1>2, <1>3, <1>4, <1>5, <1>6, <1>7 DEF Next, vars, RequestStep, WorkerStep, CreateProject,
     BeginGenerate, StoreUpload, Publish, RequestDies, SaveVersion, Receive, ReceiveCopy,
     Start, CompleteAnalysis, ReadPrevious, InsertVersion, VersionConflict, WorkerDies

LEMMA RowsStep ==
  ASSUME Sound, Uploads, Drafted, ImagesSaved, RowsAreBacked, [Next]_vars
  PROVE  RowsAreBacked'
<1>1. assets \subseteq assets' /\ assets' \subseteq files'
  BY AssetsBacked DEF RowsAreBacked
<1>2. ASSUME NEW u \in versions'
      PROVE  {GeneratedKey(u.job, u.run), OriginalKey(u.source)} \subseteq assets'
  <2>1. ASSUME NEW v \in versions, Same(v, u)
        PROVE  {GeneratedKey(u.job, u.run), OriginalKey(u.source)} \subseteq assets'
    BY <1>1, <2>1 DEF Same, RowsAreBacked
  <2>2. ASSUME NEW w \in Workers, CompleteGeneration(w), u = NewVersion(w)
        PROVE  {GeneratedKey(u.job, u.run), OriginalKey(u.source)} \subseteq assets'
    BY <1>1, <2>2, NewVersionDrafted DEF CompleteGeneration
  <2>3. QED
    BY <2>1, <2>2, VersionsPersist
<1>3. QED
  BY <1>1, <1>2 DEF RowsAreBacked

\* A run that moves on keeps its job and its number; it saves its image before the rest.
LEMMA ImagesStep ==
  ASSUME Sound, Uploads, ImagesSaved, assets \subseteq files, [Next]_vars
  PROVE  ImagesSaved'
<1> USE DEF apiVars, jobVars, storeVars, brokerVars, faultVars
<1> DEFINE Saved(u) == wk[u].at \in {"saved", "numbered", "inserted"}
<1> SUFFICES ASSUME NEW u \in Workers, wk'[u].at \in {"saved", "numbered", "inserted"}
             PROVE  /\ draft'[wk'[u].job].kind = "GENERATION"
                    /\ GeneratedKey(wk'[u].job, wk'[u].run) \in files'
  BY DEF ImagesSaved
<1>1. ASSUME Saved(u), wk'[u].job = wk[u].job, wk'[u].run = wk[u].run
      PROVE  /\ draft'[wk'[u].job].kind = "GENERATION"
             /\ GeneratedKey(wk'[u].job, wk'[u].run) \in files'
  <2>1. wk[u].job \in Requests /\ draft[wk[u].job] # NoDraft
    BY <1>1 DEF Sound, Wired
  <2>2. draft'[wk[u].job] = draft[wk[u].job]
    BY <2>1, DraftsKept DEF Sound
  <2>3. GeneratedKey(wk[u].job, wk[u].run).folder = "generated"
    BY DEF GeneratedKey
  <2>4. QED
    BY <1>1, <2>2, <2>3, AssetsBacked DEF ImagesSaved
<1>2. CASE SaveGenerated(u)
  <2>1. wk'[u].job = wk[u].job /\ wk'[u].run = wk[u].run
    BY <1>2 DEF Sound, TypeOK, Tasks, SaveGenerated
  <2>2. QED
    BY <1>2, <2>1 DEF SaveGenerated
<1>3. CASE wk'[u] = wk[u]
  BY <1>1, <1>3
<1>4. CASE ReadPrevious(u)
  <2>1. PICK n : wk' = [wk EXCEPT ![u].at = "numbered", ![u].number = n]
    BY <1>4 DEF ReadPrevious
  <2>2. wk'[u].job = wk[u].job /\ wk'[u].run = wk[u].run
    BY <2>1 DEF Sound, TypeOK, Tasks
  <2>3. QED
    BY <1>1, <1>4, <2>2 DEF ReadPrevious
<1>5. CASE InsertVersion(u)
  <2>1. wk'[u].job = wk[u].job /\ wk'[u].run = wk[u].run
    BY <1>5 DEF Sound, TypeOK, Tasks, InsertVersion
  <2>2. QED
    BY <1>1, <1>5, <2>1 DEF InsertVersion
<1>6. ASSUME NEW t, t.at \notin {"saved", "numbered", "inserted"}, wk' = [wk EXCEPT ![u] = t]
      PROVE  FALSE
  BY <1>6 DEF Sound, TypeOK
<1>7. ASSUME CompleteAnalysis(u) \/ FailRun(u) \/ VersionConflict(u) \/ CompleteGeneration(u)
             \/ WorkerDies(u)
      PROVE  FALSE
  BY <1>6, <1>7 DEF CompleteAnalysis, FailRun, VersionConflict, CompleteGeneration, WorkerDies,
     Finish, NoTask
<1>8. ASSUME Start(u) PROVE FALSE
  BY <1>8 DEF Sound, TypeOK, Tasks, Start
<1>9. ASSUME NEW r \in Requests, Receive(u, r) \/ ReceiveCopy(u, r) PROVE wk'[u] = wk[u]
  BY <1>6, <1>9 DEF Receive, ReceiveCopy, Load
<1>10. ASSUME NEW w \in Workers \ {u},
              WorkerStep(w) \/ WorkerDies(w) \/ \E r \in Requests : ReceiveCopy(w, r)
       PROVE  wk'[u] = wk[u]
  BY <1>10 DEF Sound, TypeOK, WorkerStep, WorkerDies, Receive, ReceiveCopy, Load, Start,
     CompleteAnalysis, FailRun, SaveGenerated, ReadPrevious, InsertVersion, VersionConflict,
     CompleteGeneration, Finish
<1>11. CASE \E r \in Requests : ReceiveCopy(u, r)
  BY <1>3, <1>9, <1>11
<1>12. CASE WorkerStep(u) \/ WorkerDies(u)
  BY <1>2, <1>3, <1>4, <1>5, <1>7, <1>8, <1>9, <1>12 DEF WorkerStep
<1>13. CASE wk' = wk
  BY <1>3, <1>13
<1>14. CASE \E w \in Workers \ {u} :
              WorkerStep(w) \/ WorkerDies(w) \/ \E r \in Requests : ReceiveCopy(w, r)
  BY <1>3, <1>10, <1>14
<1>15. QED
  BY <1>11, <1>12, <1>13, <1>14 DEF Next, vars, RequestStep, CreateProject, BeginUpload,
     BeginGenerate, RejectUpload, StoreUpload, CommitJob, Publish, RequestDies, SaveVersion

\* COMPLETED is written together with the result it promises.
LEMMA CompletedStep ==
  ASSUME Sound, Uploads, Drafted, ImagesSaved, RowsAreBacked, CompletedJobsDeliver, [Next]_vars
  PROVE  CompletedJobsDeliver'
<1> USE DEF apiVars, jobVars, storeVars, brokerVars, faultVars
<1> SUFFICES ASSUME NEW r \in Requests, status'[r] = "COMPLETED"
             PROVE  IF draft'[r].kind = "ANALYSIS"
                    THEN output'[r] = OriginalKey(r) /\ output'[r] \in assets'
                    ELSE \E u \in versions' : u.job = r /\ output'[r] = GeneratedKey(r, u.run)
  BY DEF CompletedJobsDeliver
<1>1. CASE status[r] = "COMPLETED" /\ output'[r] = output[r]
  <2>1. draft'[r] = draft[r]
    BY <1>1, DraftsKept DEF Sound, Wired
  <2>2. assets \subseteq assets'
    BY AssetsBacked DEF RowsAreBacked
  <2>3. \A v \in versions : \E u \in versions' : u.job = v.job /\ u.run = v.run
    BY VersionsPersist DEF Same
  <2>4. QED
    BY <1>1, <2>1, <2>2, <2>3 DEF CompletedJobsDeliver
<1>2. ASSUME NEW w \in Workers, CompleteAnalysis(w), wk[w].job = r
      PROVE  draft'[r].kind = "ANALYSIS" /\ output'[r] = OriginalKey(r) /\ output'[r] \in assets'
  <2>1. draft'[r].kind = "ANALYSIS" /\ draft[r] # NoDraft /\ draft[r].kind = "ANALYSIS"
    BY <1>2 DEF CompleteAnalysis, NoDraft
  <2>2. draft[r].source = r
    BY <2>1 DEF Drafted
  <2>3. output'[r] = OriginalKey(r) /\ OriginalKey(r) \in assets'
    BY <1>2, <2>2 DEF Sound, TypeOK, CompleteAnalysis, SourceReadable
  <2>4. QED
    BY <2>1, <2>3
<1>3. ASSUME NEW w \in Workers, CompleteGeneration(w), wk[w].job = r
      PROVE  /\ draft'[r].kind # "ANALYSIS"
             /\ \E u \in versions' : u.job = r /\ output'[r] = GeneratedKey(r, u.run)
  <2>1. draft'[r].kind = "GENERATION"
    BY <1>3, NewVersionDrafted DEF CompleteGeneration
  <2>2. NewVersion(w) \in versions' /\ NewVersion(w).job = r /\ NewVersion(w).run = wk[w].run
    BY <1>3, NewVersionDrafted DEF CompleteGeneration
  <2>3. output'[r] = GeneratedKey(r, wk[w].run)
    BY <1>3 DEF Sound, TypeOK, CompleteGeneration
  <2>4. QED
    BY <2>1, <2>2, <2>3
<1>4. ASSUME NEW w \in Workers, CompleteAnalysis(w) \/ CompleteGeneration(w), wk[w].job # r
      PROVE  status[r] = "COMPLETED" /\ output'[r] = output[r]
  BY <1>4 DEF Sound, TypeOK, CompleteAnalysis, CompleteGeneration, Finish
<1>5. ASSUME NEW w \in Workers, Start(w) \/ FailRun(w)
      PROVE  status[r] = "COMPLETED" /\ output'[r] = output[r]
  BY <1>5 DEF Sound, TypeOK, Start, FailRun, Finish
<1>6. ASSUME NEW s \in Requests, CommitJob(s)
      PROVE  status[r] = "COMPLETED" /\ output'[r] = output[r]
  BY <1>6 DEF Sound, TypeOK, CommitJob
<1>7. CASE UNCHANGED <<status, output>>
  BY <1>1, <1>7
<1>8. QED
  BY <1>1, <1>2, <1>3, <1>4, <1>5, <1>6, <1>7 DEF Next, vars, RequestStep, WorkerStep,
     CreateProject, BeginUpload, BeginGenerate, RejectUpload, StoreUpload, Publish,
     RequestDies, SaveVersion, Receive, ReceiveCopy, SaveGenerated, ReadPrevious,
     InsertVersion, VersionConflict, WorkerDies

-------------------------------------------------------------------------------
(***************************************************************************)
(* The theorems.                                                           *)
(***************************************************************************)

\* What rows, files, drafts and runs promise each other is inductive, next to IInv.
THEOREM DataInductive == Spec => []Backed
<1>1. Init => Backed
  <2> SUFFICES ASSUME Init PROVE Backed
    OBVIOUS
  <2>1. Uploads /\ Drafted /\ VersionsDrafted /\ RowsAreBacked /\ UploadsAreAccountedFor
    BY DEF Init, Uploads, Drafted, VersionsDrafted, RowsAreBacked, UploadsAreAccountedFor, NoDraft
  <2>2. ImagesSaved /\ CompletedJobsDeliver
    BY DEF Init, ImagesSaved, CompletedJobsDeliver, NoTask
  <2>3. QED
    BY <2>1, <2>2 DEF Backed
<1>2. IInv /\ Backed /\ [Next]_vars => Backed'
  <2> SUFFICES ASSUME IInv, Backed, [Next]_vars PROVE Backed'
    OBVIOUS
  <2>1. Sound /\ assets \subseteq files
    BY DEF IInv, Sound, Backed, RowsAreBacked
  <2>2. Uploads' /\ Drafted' /\ UploadsAreAccountedFor'
    BY <2>1, UploadsStep DEF Backed
  <2>3. ImagesSaved' /\ VersionsDrafted'
    BY <2>1, ImagesStep, VersionsDraftedStep DEF Backed
  <2>4. RowsAreBacked' /\ CompletedJobsDeliver'
    BY <2>1, RowsStep, CompletedStep DEF Backed
  <2>5. QED
    BY <2>2, <2>3, <2>4 DEF Backed
<1>3. QED
  BY <1>1, <1>2, Inductive, PTL DEF Spec

\* Asset rows have their files, and versions the rows of both their images.
THEOREM RowsHaveFiles == Spec => []RowsAreBacked
  BY DataInductive, PTL DEF Backed

\* An upload's file without a row has a running handler or a fault behind it.
THEOREM NoStrayUploads == Spec => []UploadsAreAccountedFor
  BY DataInductive, PTL DEF Backed

\* COMPLETED means a committed result, whatever other runs of the job did.
THEOREM CompletedMeansDelivered == Spec => []CompletedJobsDeliver
  BY DataInductive, PTL DEF Backed

\* Jobs, the images they read and the versions they add stay in the caller's organisation.
THEOREM TenantKept == Spec => []WorkStaysInTenant
<1>1. IInv /\ Backed => WorkStaysInTenant
  <2> SUFFICES ASSUME IInv, Backed PROVE WorkStaysInTenant
    OBVIOUS
  <2>1. ASSUME NEW r \in Requests, status[r] # "ABSENT"
        PROVE  /\ OrgOf[draft[r].project] = draft[r].org
               /\ draft[draft[r].source].project = draft[r].project
    <3>1. draft[r] # NoDraft /\ draft[r].kind \in Kinds
      BY <2>1 DEF IInv, TypeOK, Wired, Drafts
    <3>2. QED
      BY <3>1 DEF Backed, Drafted, Kinds
  <2>2. QED
    BY <2>1 DEF WorkStaysInTenant, Backed, VersionsDrafted
<1>2. QED
  BY <1>1, Inductive, DataInductive, PTL

\* A step keeps every committed version, and its saved flag.
THEOREM HistoryAppendOnly == Spec => VersionHistoryKept
<1> DEFINE Kept == \A v \in versions : \E u \in versions' :
                      /\ [u EXCEPT !.saved = v.saved] = v
                      /\ v.saved => u.saved
<1>1. ASSUME NEW v \in Versions, NEW u \in Versions, Same(v, u)
      PROVE  [u EXCEPT !.saved = v.saved] = v
  BY <1>1 DEF Same, Versions
<1>2. IInv /\ [Next]_vars => Kept
  <2> SUFFICES ASSUME IInv, [Next]_vars PROVE Kept
    OBVIOUS
  <2>1. Sound /\ versions \subseteq Versions /\ versions' \subseteq Versions
    BY TypedStep DEF IInv, Sound, TypeOK
  <2>2. \A v \in versions : \E u \in versions' : Same(v, u)
    BY <2>1, VersionsPersist
  <2>3. QED
    BY <1>1, <2>1, <2>2 DEF Same
<1>3. QED
  BY <1>2, Inductive, PTL DEF Spec, VersionHistoryKept

\* A new generation reads no photo older than an earlier generation's, nor than one whose
\* analysis is visible.
THEOREM SourcesOnlyAdvance == Spec => SourcesAdvance
<1> DEFINE Advance ==
       \A r, s \in Requests :
          /\ draft[r] = NoDraft /\ draft'[r] # NoDraft /\ draft'[r].kind = "GENERATION"
          /\ draft[s] # NoDraft /\ draft[s].project = draft'[r].project
          /\ draft[s].kind = "GENERATION" \/ status[s] # "ABSENT"
          => ~CreatedAfter(draft[s].source, draft'[r].source)
<1>1. IInv /\ Backed /\ [Next]_vars => Advance
  <2> USE DEF apiVars, jobVars, storeVars, brokerVars, faultVars
  <2> SUFFICES ASSUME IInv, Backed, [Next]_vars, NEW r \in Requests, NEW s \in Requests,
                      draft[r] = NoDraft, draft'[r] # NoDraft, draft'[r].kind = "GENERATION",
                      draft[s] # NoDraft, draft[s].project = draft'[r].project,
                      draft[s].kind = "GENERATION" \/ status[s] # "ABSENT"
               PROVE  ~CreatedAfter(draft[s].source, draft'[r].source)
    OBVIOUS
  <2>1. PICK o \in Orgs, p \in Projects : BeginGenerate(r, o, p)
    <3>1. ASSUME NEW q \in Requests, NEW o \in Orgs, NEW p \in Projects,
                 BeginUpload(q, o, p) \/ BeginGenerate(q, o, p)
          PROVE  BeginGenerate(r, o, p)
      <4>1. q = r
        BY <3>1 DEF IInv, TypeOK, BeginUpload, BeginGenerate
      <4>2. ~BeginUpload(r, o, p)
        BY DEF IInv, TypeOK, BeginUpload
      <4>3. QED
        BY <3>1, <4>1, <4>2
    <3>2. draft' # draft
      OBVIOUS
    <3>3. QED
      BY <3>1, <3>2 DEF Next, vars, RequestStep, WorkerStep, CreateProject, RejectUpload,
         StoreUpload, CommitJob, Publish, RequestDies, SaveVersion, Receive, ReceiveCopy,
         Start, CompleteAnalysis, FailRun, SaveGenerated, ReadPrevious, InsertVersion,
         VersionConflict, CompleteGeneration, WorkerDies
  <2>2. PICK new \in Originals(p) :
           /\ \A t \in Originals(p) : ~CreatedAfter(t, new)
           /\ draft' = [draft EXCEPT ![r] =
                          [kind |-> "GENERATION", org |-> o, project |-> p, source |-> new]]
    BY <2>1 DEF BeginGenerate
  <2>3. draft'[r].project = p /\ draft'[r].source = new
    BY <2>2 DEF IInv, TypeOK
  <2>4. draft[s].source \in Requests /\ draft[s].kind \in Kinds
    BY DEF IInv, TypeOK, Drafts
  <2>5. draft[s].source \in Originals(p)
    <3>1. CASE draft[s].kind = "GENERATION"
      BY <2>3, <2>4, <3>1 DEF Backed, Drafted, Originals
    <3>2. CASE draft[s].kind = "ANALYSIS"
      BY <2>3, <3>2 DEF Backed, Drafted, Uploads, Originals
    <3>3. QED
      BY <2>4, <3>1, <3>2 DEF Kinds
  <2>6. QED
    BY <2>2, <2>3, <2>5
<1>2. QED
  BY <1>1, Inductive, DataInductive, PTL DEF Spec, SourcesAdvance

-------------------------------------------------------------------------------
(***************************************************************************)
(* Runs.  Each time the broker hands a job to a worker is a run with a       *)
(* number of its own; a second delivery is what makes a run beyond the first.*)
(***************************************************************************)

\* Runs of a job are numbered from its publication on, no two tasks or versions are of the
\* same run, and a task finds its job QUEUED only before its first commit.
Handed ==
    /\ \A r \in Requests : stage[r] # "closed" => runs[r] = 0 /\ queue[r] = 0
    /\ \A w \in Workers : wk[w].at # "idle" =>
          /\ wk[w].run \in 1 .. runs[wk[w].job]
          /\ \A u \in Workers \ {w} : wk[u].job = wk[w].job => wk[u].run # wk[w].run
          /\ \A v \in versions : v.job = wk[w].job => v.run # wk[w].run
          /\ status[wk[w].job] = "QUEUED" => wk[w].at = "loaded" /\ wk[w].seen = "QUEUED"
    /\ \A v \in versions : v.run \in 1 .. runs[v.job]
    /\ \A u, v \in versions : u.job = v.job /\ u.run = v.run => u.number = v.number

\* The steps that deliver messages, and what the others leave alone.
LEMMA Deliveries ==
  ASSUME [Next]_vars
  PROVE  \/ UNCHANGED <<queue, runs, redeliveries>>
         \/ \E r \in Requests : Publish(r)
         \/ \E w \in Workers, r \in Requests : Receive(w, r) \/ ReceiveCopy(w, r)
<1> USE DEF apiVars, jobVars, storeVars, brokerVars, faultVars
<1>1. CASE \E w \in Workers : WorkerStep(w)
  BY <1>1 DEF WorkerStep, Start, CompleteAnalysis, FailRun, SaveGenerated, ReadPrevious,
     InsertVersion, VersionConflict, CompleteGeneration
<1>2. CASE \E r \in Requests : RequestStep(r)
  BY <1>2 DEF RequestStep, RejectUpload, StoreUpload, CommitJob
<1>3. QED
  BY <1>1, <1>2 DEF Next, vars, CreateProject, BeginUpload, BeginGenerate, RequestDies,
     SaveVersion, WorkerDies

\* What Receive and ReceiveCopy do alike.
LEMMA Received ==
  ASSUME Sound, Handed, NEW w \in Workers, NEW r \in Requests, Receive(w, r) \/ ReceiveCopy(w, r)
  PROVE  /\ UNCHANGED <<stage, draft, status, log, versions>>
         /\ wk[w].at = "idle" /\ wk[w].job = NoRequest /\ stage[r] = "closed"
         /\ queue[r] \in Nat \ {0} /\ runs[r] \in Nat
         /\ runs' = [runs EXCEPT ![r] = @ + 1]
         /\ \A u \in Workers \ {w} : wk'[u] = wk[u]
         /\ \/ wk' = wk
            \/ /\ wk'[w].at = "loaded" /\ wk'[w].job = r /\ wk'[w].run = runs[r] + 1
               /\ wk'[w].seen = status[r] /\ status[r] # "ABSENT"
<1> USE DEF apiVars, jobVars, storeVars, brokerVars, faultVars
<1>1. /\ UNCHANGED <<stage, draft, status, log, versions>>
      /\ wk[w].at = "idle" /\ queue[r] > 0 /\ Load(w, r)
  BY DEF Receive, ReceiveCopy
<1>2. queue[r] \in Nat \ {0} /\ runs[r] \in Nat
  BY <1>1 DEF Sound, TypeOK
<1>3. stage[r] = "closed" /\ wk[w].job = NoRequest
  BY <1>1, <1>2 DEF Handed, Sound, Wired
<1>4. /\ runs' = [runs EXCEPT ![r] = @ + 1]
      /\ \A u \in Workers \ {w} : wk'[u] = wk[u]
      /\ \/ wk' = wk
         \/ /\ wk'[w].at = "loaded" /\ wk'[w].job = r /\ wk'[w].run = runs[r] + 1
            /\ wk'[w].seen = status[r] /\ status[r] # "ABSENT"
  BY <1>1 DEF Load, Sound, TypeOK
<1>5. QED
  BY <1>1, <1>2, <1>3, <1>4

\* A task keeps its job and its run until it is over, and once it has begun it stays so.
LEMMA TasksKeepRuns ==
  ASSUME Sound, [Next]_vars,
         ~ \E w \in Workers, r \in Requests : Receive(w, r) \/ ReceiveCopy(w, r)
  PROVE  /\ runs' = runs
         /\ \A w \in Workers :
               \/ wk'[w].at = "idle"
               \/ /\ wk[w].at # "idle" /\ wk'[w].job = wk[w].job /\ wk'[w].run = wk[w].run
                  /\ wk'[w] = wk[w] \/ wk'[w].at # "loaded"
<1> USE DEF apiVars, jobVars, storeVars, brokerVars, faultVars
<1>1. CASE wk' = wk
  <2>1. runs' = runs
    BY Deliveries DEF Publish
  <2>2. QED
    BY <1>1, <2>1
<1>2. CASE \E w \in Workers : WorkerStep(w) \/ WorkerDies(w)
  <2>1. PICK w \in Workers : WorkerStep(w) \/ WorkerDies(w)
    BY <1>2
  <2>2. runs' = runs
    BY Deliveries DEF Publish
  <2>3. wk[w] \in Tasks /\ DOMAIN wk = Workers
    BY DEF Sound, TypeOK
  <2>4. CASE Start(w) \/ SaveGenerated(w) \/ InsertVersion(w)
    BY <2>2, <2>3, <2>4 DEF Start, SaveGenerated, InsertVersion, Tasks
  <2>5. CASE ReadPrevious(w)
    <3>1. PICK n : wk' = [wk EXCEPT ![w].at = "numbered", ![w].number = n]
      BY <2>5 DEF ReadPrevious
    <3>2. wk[w].at = "saved"
      BY <2>5 DEF ReadPrevious
    <3>3. QED
      BY <2>2, <2>3, <3>1, <3>2 DEF Tasks
  <2>6. CASE \/ CompleteAnalysis(w) \/ FailRun(w) \/ VersionConflict(w) \/ CompleteGeneration(w)
             \/ WorkerDies(w)
    <3>1. wk' = [wk EXCEPT ![w] = NoTask]
      BY <2>6 DEF CompleteAnalysis, FailRun, VersionConflict, CompleteGeneration, WorkerDies, Finish
    <3>2. \A u \in Workers : wk'[u] = wk[u] \/ wk'[u].at = "idle"
      BY <2>3, <3>1 DEF NoTask
    <3>3. QED
      BY <2>2, <3>2
  <2>7. QED
    BY <2>1, <2>4, <2>5, <2>6 DEF WorkerStep
<1>3. CASE \E r \in Requests : RequestStep(r) \/ RequestDies(r)
  BY <1>1, <1>3 DEF RequestStep, RejectUpload, StoreUpload, CommitJob, Publish, RequestDies
<1>4. QED
  BY <1>1, <1>2, <1>3 DEF Next, vars, CreateProject, BeginUpload, BeginGenerate, SaveVersion

\* A job becomes QUEUED only by the commit of its handler.
LEMMA QueuedOnce ==
  ASSUME Sound, [Next]_vars, NEW r \in Requests, status'[r] = "QUEUED"
  PROVE  status[r] = "QUEUED" \/ CommitJob(r)
<1> USE DEF apiVars, jobVars, storeVars, brokerVars, faultVars
<1>1. CASE status' = status
  BY <1>1
<1>2. ASSUME NEW s \in Requests, CommitJob(s) PROVE status[r] = "QUEUED" \/ CommitJob(r)
  BY <1>2 DEF CommitJob, Sound, TypeOK
<1>3. ASSUME NEW w \in Workers, Start(w) \/ CompleteAnalysis(w) \/ FailRun(w) \/ CompleteGeneration(w)
      PROVE  status[r] = "QUEUED"
  BY <1>3 DEF Start, CompleteAnalysis, FailRun, CompleteGeneration, Finish, Sound, TypeOK
<1>4. QED
  BY <1>1, <1>2, <1>3 DEF Next, vars, RequestStep, WorkerStep, CreateProject, BeginUpload,
     BeginGenerate, RejectUpload, StoreUpload, Publish, RequestDies, SaveVersion, Receive,
     ReceiveCopy, SaveGenerated, ReadPrevious, InsertVersion, VersionConflict, WorkerDies

\* A handler that has ended stays ended.
LEMMA StagesAdvance ==
  ASSUME Sound, [Next]_vars, NEW r \in Requests, stage[r] = "closed"
  PROVE  stage'[r] = "closed"
<1> USE DEF apiVars, jobVars, storeVars, brokerVars, faultVars
<1>1. CASE stage' = stage
  BY <1>1
<1>2. ASSUME NEW s \in Requests, RequestStep(s) \/ RequestDies(s) PROVE stage'[r] = "closed"
  BY <1>2 DEF RequestStep, RejectUpload, StoreUpload, CommitJob, Publish, RequestDies, Sound, TypeOK
<1>3. ASSUME NEW s \in Requests, NEW o \in Orgs, NEW p \in Projects,
             BeginUpload(s, o, p) \/ BeginGenerate(s, o, p)
      PROVE  stage'[r] = "closed"
  BY <1>3 DEF BeginUpload, BeginGenerate, Sound, TypeOK
<1>4. ASSUME NEW w \in Workers,
             WorkerStep(w) \/ WorkerDies(w) \/ \E s \in Requests : ReceiveCopy(w, s)
      PROVE  stage' = stage
  BY <1>4, WorkersApart DEF Apart
<1>5. QED
  BY <1>1, <1>2, <1>3, <1>4 DEF Next, vars, CreateProject, SaveVersion

\* A loaded task moves by its first commit, or is lost.
LEMMA LoadedStarts ==
  ASSUME Sound, [Next]_vars, NEW w \in Workers, wk[w].at = "loaded", wk'[w].at # "idle",
         wk'[w] # wk[w]
  PROVE  Start(w)
<1> USE DEF apiVars, jobVars, storeVars, brokerVars, faultVars
<1>1. ASSUME NEW u \in Workers, u # w,
             WorkerStep(u) \/ WorkerDies(u) \/ \E r \in Requests : ReceiveCopy(u, r)
      PROVE  FALSE
  <2>1. wk'[w] = wk[w]
    BY <1>1 DEF WorkerStep, WorkerDies, Receive, ReceiveCopy, Load, Start, CompleteAnalysis,
       FailRun, SaveGenerated, ReadPrevious, InsertVersion, VersionConflict,
       CompleteGeneration, Finish, Sound, TypeOK
  <2>2. QED
    BY <2>1
<1>2. ASSUME WorkerStep(w) \/ WorkerDies(w) \/ \E r \in Requests : ReceiveCopy(w, r)
      PROVE  Start(w)
  <2>1. CASE WorkerStep(w)
    BY <2>1 DEF WorkerStep, Receive, CompleteAnalysis, FailRun, SaveGenerated, ReadPrevious,
       InsertVersion, VersionConflict, CompleteGeneration
  <2>2. CASE WorkerDies(w)
    BY <2>2 DEF WorkerDies, NoTask, Sound, TypeOK
  <2>3. CASE \E r \in Requests : ReceiveCopy(w, r)
    BY <2>3 DEF ReceiveCopy
  <2>4. QED
    BY <1>2, <2>1, <2>2, <2>3
<1>3. wk' # wk
  OBVIOUS
<1>4. CASE \E r \in Requests : RequestStep(r) \/ RequestDies(r)
  BY <1>3, <1>4 DEF RequestStep, RejectUpload, StoreUpload, CommitJob, Publish, RequestDies
<1>5. QED
  BY <1>1, <1>2, <1>3, <1>4 DEF Next, vars, CreateProject, BeginUpload, BeginGenerate, SaveVersion

\* Every step keeps the runs apart.
LEMMA HandedStep ==
  ASSUME Sound, Handed, [Next]_vars
  PROVE  Handed'
<1> USE DEF apiVars, jobVars, storeVars, brokerVars, faultVars
<1>1. \A u \in versions' :
         \/ \E v \in versions : Same(v, u)
         \/ \E w \in Workers : CompleteGeneration(w) /\ u = NewVersion(w)
  BY VersionsPersist
<1>2. ASSUME NEW w \in Workers, NEW s \in Requests, Receive(w, s) \/ ReceiveCopy(w, s)
      PROVE  Handed'
  <2>1. /\ UNCHANGED <<stage, draft, status, log, versions>>
        /\ wk[w].at = "idle" /\ wk[w].job = NoRequest /\ stage[s] = "closed"
        /\ queue[s] \in Nat \ {0} /\ runs[s] \in Nat
        /\ runs' = [runs EXCEPT ![s] = @ + 1]
        /\ \A u \in Workers \ {w} : wk'[u] = wk[u]
        /\ \/ wk' = wk
           \/ /\ wk'[w].at = "loaded" /\ wk'[w].job = s /\ wk'[w].run = runs[s] + 1
              /\ wk'[w].seen = status[s] /\ status[s] # "ABSENT"
    BY <1>2, Received
  <2>2. \A r \in Requests : /\ runs[r] \in Nat /\ runs'[r] \in Nat /\ runs[r] <= runs'[r]
                            /\ r # s => runs'[r] = runs[r] /\ queue'[r] = queue[r]
    BY <1>2, <2>1 DEF Sound, TypeOK, Receive, ReceiveCopy
  <2>3. runs'[s] = runs[s] + 1
    BY <2>1 DEF Sound, TypeOK
  <2>4. \A v \in versions : v.job \in Requests /\ v.run \in 1 .. runs[v.job]
    BY DEF Handed, Sound, TypeOK, Versions
  <2>5. \A u \in Workers : wk[u].at # "idle" =>
           wk[u].job \in Requests /\ wk[u].run \in 1 .. runs[wk[u].job] /\ u # w
    BY <2>1 DEF Handed, Sound, Wired
  <2>6. \A r \in Requests : stage'[r] # "closed" => runs'[r] = 0 /\ queue'[r] = 0
    BY <2>1, <2>2 DEF Handed
  <2>7. \A v \in versions' : v.run \in 1 .. runs'[v.job]
    BY <2>1, <2>2, <2>4
  <2>8. \A u, v \in versions' : u.job = v.job /\ u.run = v.run => u.number = v.number
    BY <2>1 DEF Handed
  <2>9. ASSUME NEW u \in Workers, wk'[u].at # "idle"
        PROVE  /\ wk'[u].run \in 1 .. runs'[wk'[u].job]
               /\ \A x \in Workers \ {u} : wk'[x].job = wk'[u].job => wk'[x].run # wk'[u].run
               /\ \A v \in versions' : v.job = wk'[u].job => v.run # wk'[u].run
               /\ status'[wk'[u].job] = "QUEUED" => wk'[u].at = "loaded" /\ wk'[u].seen = "QUEUED"
    <3>1. CASE wk' = wk
      <4>1. u # w /\ wk[u].job \in Requests /\ wk[u].run \in 1 .. runs[wk[u].job]
        BY <2>5, <2>9, <3>1
      <4>2. wk[u].run \in 1 .. runs'[wk[u].job]
        BY <2>2, <4>1
      <4>3. QED
        BY <2>1, <2>9, <3>1, <4>2 DEF Handed
    <3>2. CASE wk' # wk /\ u = w
      <4>1. /\ wk'[u].at = "loaded" /\ wk'[u].job = s /\ wk'[u].run = runs[s] + 1
            /\ wk'[u].seen = status[s]
        BY <2>1, <3>2
      <4>2. \A x \in Workers \ {u} : wk[x].job = s => wk[x].run # runs[s] + 1
        <5> SUFFICES ASSUME NEW x \in Workers \ {u}, wk[x].job = s PROVE wk[x].run # runs[s] + 1
          OBVIOUS
        <5>1. wk[x].at # "idle"
          BY NoRequestIsNull DEF Sound, Wired
        <5>2. QED
          BY <2>1, <2>5, <5>1
      <4>3. \A x \in Workers \ {u} : wk'[x].job = wk'[u].job => wk'[x].run # wk'[u].run
        BY <2>1, <3>2, <4>1, <4>2
      <4>4. \A v \in versions' : v.job = wk'[u].job => v.run # wk'[u].run
        BY <2>1, <2>4, <4>1
      <4>5. wk'[u].run \in 1 .. runs'[wk'[u].job]
        BY <2>1, <2>3, <4>1
      <4>6. QED
        BY <2>1, <4>1, <4>3, <4>4, <4>5
    <3>3. CASE wk' # wk /\ u # w
      <4>1. /\ wk'[u] = wk[u] /\ wk[u].at # "idle" /\ wk[u].job \in Requests
            /\ wk[u].run \in 1 .. runs[wk[u].job]
            /\ wk'[w].job = s /\ wk'[w].run = runs[s] + 1
        BY <2>1, <2>5, <2>9, <3>3
      <4>2. \A x \in Workers \ {u} : wk'[x].job = wk'[u].job => wk'[x].run # wk'[u].run
        <5> SUFFICES ASSUME NEW x \in Workers \ {u}, wk'[x].job = wk[u].job
                     PROVE  wk'[x].run # wk[u].run
          BY <4>1
        <5>1. CASE x = w
          BY <2>1, <4>1, <5>1
        <5>2. CASE x # w
          BY <2>1, <4>1, <5>2 DEF Handed
        <5>3. QED
          BY <5>1, <5>2
      <4>3. wk'[u].run \in 1 .. runs'[wk'[u].job]
        BY <2>2, <4>1
      <4>4. /\ \A v \in versions' : v.job = wk'[u].job => v.run # wk'[u].run
            /\ status'[wk'[u].job] = "QUEUED" => wk'[u].at = "loaded" /\ wk'[u].seen = "QUEUED"
        BY <2>1, <4>1 DEF Handed
      <4>5. QED
        BY <4>2, <4>3, <4>4
    <3>4. QED
      BY <3>1, <3>2, <3>3
  <2>10. QED
    BY <2>6, <2>7, <2>8, <2>9 DEF Handed
<1>3. ASSUME ~ \E w \in Workers, r \in Requests : Receive(w, r) \/ ReceiveCopy(w, r)
      PROVE  Handed'
  <2>1. /\ runs' = runs
        /\ \A w \in Workers :
              \/ wk'[w].at = "idle"
              \/ /\ wk[w].at # "idle" /\ wk'[w].job = wk[w].job /\ wk'[w].run = wk[w].run
                 /\ wk'[w] = wk[w] \/ wk'[w].at # "loaded"
    BY <1>3, TasksKeepRuns
  <2>2. \A w \in Workers : wk[w].at = "idle" => wk[w].job = NoRequest
    BY DEF Sound, Wired
  <2>3. \A w \in Workers : wk[w].at # "idle" => wk[w].job \in Requests /\ status[wk[w].job] # "ABSENT"
    BY DEF Sound, Wired
  <2>4. \A w \in Workers : wk'[w].at = "idle" => wk'[w].job = NoRequest
    BY TypedStep, WiredStep DEF Sound, Wired
  <2>5. ASSUME NEW v \in versions'
        PROVE  /\ v.run \in 1 .. runs[v.job]
               /\ \/ \E x \in versions : Same(x, v)
                  \/ \E w \in Workers : /\ wk[w].at # "idle" /\ wk'[w].at = "idle"
                                        /\ v.job = wk[w].job /\ v.run = wk[w].run
                                        /\ CompleteGeneration(w) /\ v = NewVersion(w)
    <3>1. CASE \E x \in versions : Same(x, v)
      BY <3>1 DEF Handed, Same
    <3>2. ASSUME NEW w \in Workers, CompleteGeneration(w), v = NewVersion(w)
          PROVE  /\ wk[w].at # "idle" /\ wk'[w].at = "idle"
                 /\ v.job = wk[w].job /\ v.run = wk[w].run /\ v.run \in 1 .. runs[v.job]
      BY <3>2 DEF CompleteGeneration, NewVersion, Finish, NoTask, Handed, Sound, TypeOK
    <3>3. QED
      BY <1>1, <3>1, <3>2
  <2>6. \A r \in Requests : stage'[r] # "closed" => runs'[r] = 0 /\ queue'[r] = 0
    <3> SUFFICES ASSUME NEW r \in Requests, stage'[r] # "closed" PROVE runs'[r] = 0 /\ queue'[r] = 0
      OBVIOUS
    <3>1. stage[r] # "closed"
      BY StagesAdvance
    <3>2. queue'[r] = queue[r]
      <4>1. ASSUME NEW t \in Requests, Publish(t) PROVE queue'[r] = queue[r]
        BY <4>1 DEF Publish, Sound, TypeOK
      <4>2. QED
        BY <1>3, <4>1, Deliveries
    <3>3. QED
      BY <2>1, <3>1, <3>2 DEF Handed
  <2>7. \A u, v \in versions' : u.job = v.job /\ u.run = v.run => u.number = v.number
    <3> SUFFICES ASSUME NEW u \in versions', NEW v \in versions', u.job = v.job, u.run = v.run
                 PROVE  u.number = v.number
      OBVIOUS
    <3>1. ASSUME NEW x \in versions, NEW w \in Workers, wk[w].at # "idle",
                 x.job = wk[w].job, x.run = wk[w].run
          PROVE  FALSE
      BY <3>1 DEF Handed
    <3>2. CASE (\E x \in versions : Same(x, u)) /\ (\E x \in versions : Same(x, v))
      <4>1. PICK x \in versions, y \in versions : Same(x, u) /\ Same(y, v)
        BY <3>2
      <4>2. x.job = y.job /\ x.run = y.run /\ u.number = x.number /\ v.number = y.number
        BY <4>1 DEF Same
      <4>3. QED
        BY <4>2 DEF Handed
    <3>3. ASSUME NEW x \in Workers, NEW y \in Workers, wk[x].at # "idle", wk[y].at # "idle",
                 wk[x].job = wk[y].job, wk[x].run = wk[y].run
          PROVE  x = y
      BY <3>3 DEF Handed
    <3>4. QED
      BY <2>5, <3>1, <3>2, <3>3 DEF Same
  <2>8. ASSUME NEW w \in Workers, wk'[w].at # "idle"
        PROVE  /\ wk'[w].run \in 1 .. runs'[wk'[w].job]
               /\ \A u \in Workers \ {w} : wk'[u].job = wk'[w].job => wk'[u].run # wk'[w].run
               /\ \A v \in versions' : v.job = wk'[w].job => v.run # wk'[w].run
               /\ status'[wk'[w].job] = "QUEUED" => wk'[w].at = "loaded" /\ wk'[w].seen = "QUEUED"
    <3>1. /\ wk[w].at # "idle" /\ wk'[w].job = wk[w].job /\ wk'[w].run = wk[w].run
          /\ wk'[w] = wk[w] \/ wk'[w].at # "loaded"
          /\ wk[w].job \in Requests /\ status[wk[w].job] # "ABSENT"
      BY <2>1, <2>3, <2>8
    <3>2. wk'[w].run \in 1 .. runs'[wk'[w].job]
      BY <2>1, <3>1 DEF Handed
    <3>3. ASSUME NEW u \in Workers \ {w}, wk'[u].job = wk'[w].job
          PROVE  wk'[u].run # wk'[w].run
      <4>1. wk'[u].at # "idle"
        BY <2>4, <3>1, <3>3, NoRequestIsNull
      <4>2. wk'[u].job = wk[u].job /\ wk'[u].run = wk[u].run
        BY <2>1, <4>1
      <4>3. QED
        BY <3>1, <3>3, <4>2 DEF Handed
    <3>4. ASSUME NEW v \in versions', v.job = wk'[w].job
          PROVE  v.run # wk'[w].run
      <4>1. CASE \E x \in versions : Same(x, v)
        <5>1. PICK x \in versions : x.job = v.job /\ x.run = v.run
          BY <4>1 DEF Same
        <5>2. QED
          BY <3>1, <3>4, <5>1 DEF Handed
      <4>2. ASSUME NEW x \in Workers, wk[x].at # "idle", wk'[x].at = "idle",
                   v.job = wk[x].job, v.run = wk[x].run
            PROVE  v.run # wk'[w].run
        <5>1. x # w /\ wk[x].job = wk[w].job
          BY <2>8, <3>1, <3>4, <4>2
        <5>2. wk[x].run # wk[w].run
          BY <3>1, <5>1 DEF Handed
        <5>3. QED
          BY <3>1, <4>2, <5>2
      <4>3. QED
        BY <2>5, <4>1, <4>2
    <3>5. ASSUME status'[wk'[w].job] = "QUEUED"
          PROVE  wk'[w].at = "loaded" /\ wk'[w].seen = "QUEUED"
      <4>1. ~ CommitJob(wk[w].job)
        BY <3>1 DEF CommitJob, Sound, Wired
      <4>2. status[wk[w].job] = "QUEUED"
        BY <3>1, <3>5, <4>1, QueuedOnce
      <4>3. wk[w].at = "loaded" /\ wk[w].seen = "QUEUED"
        BY <3>1, <4>2 DEF Handed
      <4>4. wk'[w] = wk[w]
        <5>1. ASSUME Start(w) PROVE FALSE
          <6>1. status' = [status EXCEPT ![wk[w].job] = "PROCESSING"]
            BY <4>3, <5>1 DEF Start
          <6>2. status'[wk[w].job] = "PROCESSING"
            BY <3>1, <6>1 DEF Sound, TypeOK
          <6>3. QED
            BY <3>1, <3>5, <6>2
        <5>2. CASE wk'[w] # wk[w]
          <6>1. Start(w)
            BY <2>8, <4>3, <5>2, LoadedStarts
          <6>2. QED
            BY <5>1, <6>1
        <5>3. QED
          BY <5>2
      <4>5. QED
        BY <4>3, <4>4
    <3>6. QED
      BY <3>2, <3>3, <3>4, <3>5
  <2>9. QED
    BY <2>1, <2>5, <2>6, <2>7, <2>8 DEF Handed
<1>4. QED
  BY <1>2, <1>3

\* The life a job's rows tell so far, and the status it ends in.
Told(l, s) ==
    \/ l = <<>> /\ s = "ABSENT"
    \/ l = <<"QUEUED">> /\ s = "QUEUED"
    \/ l = <<"QUEUED", "PROCESSING">> /\ s = "PROCESSING"
    \/ \E t \in Terminal : l = <<"QUEUED", "PROCESSING", t>> /\ s = t

\* The job of a request is in one place: with its handler, in the broker, or with one
\* worker; where it is tells its status.  That is so until it is delivered again.
OnePlace(r) ==
    /\ stage[r] \in {"idle", "storing", "ready"} => status[r] = "ABSENT" /\ queue[r] = 0
    /\ stage[r] = "committed" => status[r] = "QUEUED" /\ queue[r] = 0
    /\ queue[r] = 0 \/ (queue[r] = 1 /\ status[r] = "QUEUED")
    /\ \A w \in Workers : wk[w].job = r =>
          /\ stage[r] = "closed" /\ queue[r] = 0
          /\ \A u \in Workers : wk[u].job = r => u = w
          /\ IF wk[w].at = "loaded" THEN status[r] = "QUEUED" /\ wk[w].seen = "QUEUED"
                                    ELSE status[r] = "PROCESSING"
Once ==
    \A r \in Requests : runs[r] + queue[r] <= 1 => Told(log[r], status[r]) /\ OnePlace(r)

\* Appending to a short tuple makes the next longer one.
LEMMA AppendTuples ==
  ASSUME NEW S, NEW a \in S, NEW b \in S, NEW c \in S
  PROVE  /\ Append(<<>>, a) = <<a>>
         /\ Append(<<a>>, b) = <<a, b>>
         /\ Append(<<a, b>>, c) = <<a, b, c>>
<1>1. ASSUME NEW s \in Seq(S), NEW u \in Seq(S), NEW e \in S, Len(u) = Len(s) + 1,
             \A i \in 1 .. Len(s) : u[i] = s[i], u[Len(s) + 1] = e
      PROVE  Append(s, e) = u
  <2>1. /\ Append(s, e) \in Seq(S) /\ Len(Append(s, e)) = Len(s) + 1
        /\ \A i \in 1 .. Len(s) : Append(s, e)[i] = s[i]
        /\ Append(s, e)[Len(s) + 1] = e
    BY AppendProperties
  <2>2. Len(s) \in Nat
    BY LenProperties
  <2>3. \A i \in 1 .. Len(Append(s, e)) : Append(s, e)[i] = u[i]
    BY <1>1, <2>1, <2>2
  <2>4. QED
    BY <1>1, <2>1, <2>3, SeqEqual
<1>2. Append(<<>>, a) = <<a>>
  OBVIOUS
<1>3. /\ <<a>> \in Seq(S) /\ Len(<<a>>) = 1 /\ <<a>>[1] = a
      /\ <<a, b>> \in Seq(S) /\ Len(<<a, b>>) = 2 /\ <<a, b>>[1] = a /\ <<a, b>>[2] = b
      /\ <<a, b, c>> \in Seq(S) /\ Len(<<a, b, c>>) = 3
      /\ <<a, b, c>>[1] = a /\ <<a, b, c>>[2] = b /\ <<a, b, c>>[3] = c
  OBVIOUS
<1>4. Append(<<a>>, b) = <<a, b>>
  <2>1. \A i \in 1 .. Len(<<a>>) : <<a, b>>[i] = <<a>>[i]
    BY <1>3
  <2>2. Len(<<a, b>>) = Len(<<a>>) + 1 /\ <<a, b>>[Len(<<a>>) + 1] = b
    BY <1>3
  <2>3. QED
    BY <1>1, <1>3, <2>1, <2>2
<1>5. Append(<<a, b>>, c) = <<a, b, c>>
  <2>1. \A i \in 1 .. Len(<<a, b>>) : <<a, b, c>>[i] = <<a, b>>[i]
    BY <1>3
  <2>2. Len(<<a, b, c>>) = Len(<<a, b>>) + 1 /\ <<a, b, c>>[Len(<<a, b>>) + 1] = c
    BY <1>3
  <2>3. QED
    BY <1>1, <1>3, <2>1, <2>2
<1>6. QED
  BY <1>2, <1>4, <1>5

\* The next row of a life.
LEMMA LifeGoesOn ==
  ASSUME NEW l, NEW s, Told(l, s)
  PROVE  /\ s = "ABSENT" => Told(Append(l, "QUEUED"), "QUEUED")
         /\ s = "QUEUED" => Told(Append(l, "PROCESSING"), "PROCESSING")
         /\ s = "PROCESSING" => \A t \in Terminal : Told(Append(l, t), t)
<1>1. "QUEUED" \in Statuses /\ "PROCESSING" \in Statuses /\ Terminal \subseteq Statuses
  BY DEF Statuses
<1>2. /\ Append(<<>>, "QUEUED") = <<"QUEUED">>
      /\ Append(<<"QUEUED">>, "PROCESSING") = <<"QUEUED", "PROCESSING">>
  BY <1>1, AppendTuples
<1>3. \A t \in Terminal : Append(<<"QUEUED", "PROCESSING">>, t) = <<"QUEUED", "PROCESSING", t>>
  BY <1>1, AppendTuples
<1>4. \A t \in Terminal : t \notin {"ABSENT", "QUEUED", "PROCESSING"}
  BY DEF Terminal
<1>5. s = "ABSENT" => l = <<>>
  BY <1>4 DEF Told
<1>6. s = "QUEUED" => l = <<"QUEUED">>
  BY <1>4 DEF Told
<1>7. s = "PROCESSING" => l = <<"QUEUED", "PROCESSING">>
  BY <1>4 DEF Told
<1>8. QED
  BY <1>2, <1>3, <1>5, <1>6, <1>7 DEF Told

\* A life is one of the four, and its newest row is its status.
LEMMA LifeTells ==
  ASSUME NEW l, NEW s, Told(l, s)
  PROVE  l \in LifeCycles /\ s = IF l = <<>> THEN "ABSENT" ELSE l[Len(l)]
<1>1. CASE l = <<>> /\ s = "ABSENT"
  BY <1>1 DEF LifeCycles
<1>2. CASE l = <<"QUEUED">> /\ s = "QUEUED"
  BY <1>2 DEF LifeCycles
<1>3. CASE l = <<"QUEUED", "PROCESSING">> /\ s = "PROCESSING"
  BY <1>3 DEF LifeCycles
<1>4. ASSUME NEW t \in Terminal, l = <<"QUEUED", "PROCESSING", t>>, s = t
      PROVE  l \in LifeCycles /\ s = IF l = <<>> THEN "ABSENT" ELSE l[Len(l)]
  BY <1>4 DEF LifeCycles
<1>5. QED
  BY <1>1, <1>2, <1>3, <1>4 DEF Told

\* The steps of an API handler keep a job in one place.
LEMMA HandlerOnce ==
  ASSUME Sound, Once, NEW s \in Requests, RequestStep(s) \/ RequestDies(s)
  PROVE  Once'
<1> USE DEF apiVars, jobVars, storeVars, brokerVars, faultVars
<1> SUFFICES ASSUME NEW r \in Requests, runs'[r] + queue'[r] <= 1
             PROVE  Told(log'[r], status'[r]) /\ OnePlace(r)'
  BY DEF Once
<1>0. runs[r] + queue[r] <= 1
  <2>1. runs' = runs /\ runs[r] \in Nat /\ queue[r] \in Nat /\ queue'[r] \in {queue[r], queue[r] + 1}
    BY DEF Sound, TypeOK, RequestStep, RejectUpload, StoreUpload, CommitJob, Publish, RequestDies
  <2>2. QED
    BY <2>1
<1>1. Told(log[r], status[r]) /\ OnePlace(r)
  BY <1>0 DEF Once
<1>2. wk' = wk
  BY DEF RequestStep, RejectUpload, StoreUpload, CommitJob, Publish, RequestDies
<1>3. CASE r # s
  <2>1. status'[r] = status[r] /\ log'[r] = log[r] /\ stage'[r] = stage[r] /\ queue'[r] = queue[r]
    BY <1>3 DEF Sound, TypeOK, RequestStep, RejectUpload, StoreUpload, CommitJob, Publish,
       RequestDies
  <2>2. QED
    BY <1>1, <1>2, <2>1 DEF OnePlace
<1>4. CASE r = s /\ (RejectUpload(s) \/ StoreUpload(s) \/ RequestDies(s))
  <2>1. status'[r] = status[r] /\ log'[r] = log[r] /\ queue'[r] = queue[r]
    BY <1>4 DEF RejectUpload, StoreUpload, RequestDies
  <2>2. \/ stage[r] = "storing" /\ stage'[r] = "ready"
        \/ stage[r] # "idle" /\ stage'[r] = "closed"
    BY <1>4 DEF Sound, TypeOK, RejectUpload, StoreUpload, RequestDies
  <2>3. QED
    BY <1>1, <1>2, <2>1, <2>2 DEF OnePlace
<1>5. CASE r = s /\ CommitJob(s)
  <2>1. /\ stage[r] = "ready" /\ stage'[r] = "committed" /\ status'[r] = "QUEUED"
        /\ log'[r] = Append(log[r], "QUEUED") /\ queue'[r] = queue[r]
    BY <1>5 DEF Sound, TypeOK, CommitJob
  <2>2. status[r] = "ABSENT" /\ queue[r] = 0 /\ \A w \in Workers : wk[w].job # r
    BY <1>1, <2>1 DEF OnePlace
  <2>3. QED
    BY <1>1, <1>2, <2>1, <2>2, LifeGoesOn DEF OnePlace
<1>6. CASE r = s /\ Publish(s)
  <2>1. /\ stage[r] = "committed" /\ stage'[r] = "closed" /\ queue'[r] = queue[r] + 1
        /\ status'[r] = status[r] /\ log'[r] = log[r]
    BY <1>6 DEF Sound, TypeOK, Publish
  <2>2. queue[r] = 0 /\ status[r] = "QUEUED" /\ \A w \in Workers : wk[w].job # r
    BY <1>1, <2>1 DEF OnePlace
  <2>3. QED
    BY <1>1, <1>2, <2>1, <2>2 DEF OnePlace
<1>7. QED
  BY <1>3, <1>4, <1>5, <1>6 DEF RequestStep

\* So does a worker that takes the message of a job, unless it is a second delivery.
LEMMA ReceiveOnce ==
  ASSUME Sound, Handed, Once, NEW w \in Workers, NEW s \in Requests,
         Receive(w, s) \/ ReceiveCopy(w, s)
  PROVE  Once'
<1> USE DEF apiVars, jobVars, storeVars, brokerVars, faultVars
<1> SUFFICES ASSUME NEW r \in Requests, runs'[r] + queue'[r] <= 1
             PROVE  Told(log'[r], status'[r]) /\ OnePlace(r)'
  BY DEF Once
<1>1. /\ UNCHANGED <<stage, draft, status, log, versions>>
      /\ wk[w].at = "idle" /\ wk[w].job = NoRequest /\ stage[s] = "closed"
      /\ queue[s] \in Nat \ {0} /\ runs[s] \in Nat
      /\ runs' = [runs EXCEPT ![s] = @ + 1]
      /\ \A u \in Workers \ {w} : wk'[u] = wk[u]
      /\ \/ wk' = wk
         \/ /\ wk'[w].at = "loaded" /\ wk'[w].job = s /\ wk'[w].run = runs[s] + 1
            /\ wk'[w].seen = status[s] /\ status[s] # "ABSENT"
  BY Received
<1>2. runs'[s] = runs[s] + 1 /\ queue'[s] = IF Receive(w, s) THEN queue[s] - 1 ELSE queue[s]
  <2>1. runs'[s] = runs[s] + 1
    BY <1>1 DEF Sound, TypeOK
  <2>2. queue'[s] = IF Receive(w, s) THEN queue[s] - 1 ELSE queue[s]
    BY DEF Receive, ReceiveCopy, Sound, TypeOK
  <2>3. QED
    BY <2>1, <2>2
<1>3. NoRequest # r
  BY NoRequestIsNull
<1>4. CASE r = s
  <2>1. Receive(w, s) /\ runs[s] + queue[s] <= 1
    BY <1>1, <1>2, <1>4
  <2>2. Told(log[s], status[s]) /\ OnePlace(s)
    BY <2>1 DEF Once
  <2>3. queue[s] = 1 /\ status[s] = "QUEUED" /\ queue'[s] = 0
    BY <1>1, <1>2, <2>1, <2>2 DEF OnePlace
  <2>4. \A u \in Workers : wk[u].job # s
    BY <2>2, <2>3 DEF OnePlace
  <2>5. QED
    BY <1>1, <1>4, <2>2, <2>3, <2>4 DEF OnePlace
<1>5. CASE r # s
  <2>1. runs'[r] = runs[r] /\ queue'[r] = queue[r]
    BY <1>1, <1>5 DEF Sound, TypeOK, Receive, ReceiveCopy
  <2>2. Told(log[r], status[r]) /\ OnePlace(r)
    BY <2>1 DEF Once
  <2>3. \A u \in Workers : wk'[u].job = r => wk'[u] = wk[u]
    BY <1>1, <1>5
  <2>4. QED
    BY <1>1, <2>1, <2>2, <2>3 DEF OnePlace
<1>6. QED
  BY <1>4, <1>5

\* And a worker that moves on with its run, ends it, or loses it.
LEMMA RunOnce ==
  ASSUME Sound, Once, NEW w \in Workers,
         \/ Start(w) \/ CompleteAnalysis(w) \/ FailRun(w) \/ SaveGenerated(w)
         \/ ReadPrevious(w) \/ InsertVersion(w) \/ VersionConflict(w)
         \/ CompleteGeneration(w) \/ WorkerDies(w)
  PROVE  Once'
<1> USE DEF apiVars, jobVars, storeVars, brokerVars, faultVars
<1>1. PICK job \in Requests : job = wk[w].job /\ wk[w].at # "idle"
  BY DEF Sound, Wired, Start, CompleteAnalysis, FailRun, SaveGenerated, ReadPrevious,
     InsertVersion, VersionConflict, CompleteGeneration, WorkerDies
<1>2. UNCHANGED <<stage, queue, runs>>
  BY DEF Start, CompleteAnalysis, FailRun, SaveGenerated, ReadPrevious,
     InsertVersion, VersionConflict, CompleteGeneration, WorkerDies
<1>3. \A u \in Workers \ {w} : wk'[u] = wk[u]
  BY DEF Sound, TypeOK, Start, CompleteAnalysis, FailRun, SaveGenerated, ReadPrevious,
     InsertVersion, VersionConflict, CompleteGeneration, WorkerDies, Finish
<1>4. \A r \in Requests : r # job => status'[r] = status[r] /\ log'[r] = log[r]
  BY <1>1 DEF Sound, TypeOK, Start, CompleteAnalysis, FailRun, SaveGenerated, ReadPrevious,
     InsertVersion, VersionConflict, CompleteGeneration, WorkerDies, Finish
<1>5. wk'[w].job \in {job, NoRequest}
  <2>1. CASE ReadPrevious(w)
    <3>1. PICK n : wk' = [wk EXCEPT ![w].at = "numbered", ![w].number = n]
      BY <2>1 DEF ReadPrevious
    <3>2. QED
      BY <1>1, <3>1 DEF Sound, TypeOK, Tasks
  <2>2. CASE Start(w) \/ SaveGenerated(w) \/ InsertVersion(w)
    BY <1>1, <2>2 DEF Sound, TypeOK, Tasks, Start, SaveGenerated, InsertVersion
  <2>3. CASE CompleteAnalysis(w) \/ FailRun(w) \/ VersionConflict(w) \/ CompleteGeneration(w)
             \/ WorkerDies(w)
    <3>1. wk' = [wk EXCEPT ![w] = NoTask]
      BY <2>3 DEF CompleteAnalysis, FailRun, VersionConflict, CompleteGeneration,
         WorkerDies, Finish
    <3>2. QED
      BY <3>1 DEF Sound, TypeOK, NoTask
  <2>4. QED
    BY <2>1, <2>2, <2>3
<1>6. \A r \in Requests : r # job /\ runs[r] + queue[r] <= 1
         => Told(log'[r], status'[r]) /\ OnePlace(r)'
  <2> SUFFICES ASSUME NEW r \in Requests, r # job, runs[r] + queue[r] <= 1
               PROVE  Told(log'[r], status'[r]) /\ OnePlace(r)'
    OBVIOUS
  <2>1. Told(log[r], status[r]) /\ OnePlace(r) /\ NoRequest # r
    BY NoRequestIsNull DEF Once
  <2>2. wk'[w].job # r
    BY <1>5, <2>1
  <2>3. QED
    BY <1>2, <1>3, <1>4, <2>1, <2>2 DEF OnePlace
<1> SUFFICES ASSUME runs[job] + queue[job] <= 1
             PROVE  Told(log'[job], status'[job]) /\ OnePlace(job)'
  BY <1>2, <1>6 DEF Once
<1>7. Told(log[job], status[job]) /\ OnePlace(job)
  BY DEF Once
<1>8. /\ stage[job] = "closed" /\ queue[job] = 0
      /\ \A u \in Workers : wk[u].job = job => u = w
      /\ wk[w].at = "loaded" => status[job] = "QUEUED" /\ wk[w].seen = "QUEUED"
      /\ wk[w].at # "loaded" => status[job] = "PROCESSING"
  BY <1>1, <1>7 DEF OnePlace
<1>9. ASSUME Told(log'[job], status'[job]),
             wk'[w].job = job => wk'[w].at # "loaded" /\ status'[job] = "PROCESSING"
      PROVE  Told(log'[job], status'[job]) /\ OnePlace(job)'
  BY <1>1, <1>2, <1>3, <1>8, <1>9 DEF OnePlace
<1>10. CASE Start(w)
  <2>1. /\ wk'[w].at = "running" /\ status'[job] = "PROCESSING"
        /\ log'[job] = Append(log[job], "PROCESSING") /\ wk[w].at = "loaded"
    BY <1>1, <1>8, <1>10 DEF Sound, TypeOK, Tasks, Start
  <2>2. QED
    BY <1>7, <1>8, <1>9, <2>1, LifeGoesOn
<1>11. CASE CompleteAnalysis(w) \/ FailRun(w) \/ CompleteGeneration(w)
  <2>1. PICK t \in Terminal : Finish(w, t)
    BY <1>11 DEF CompleteAnalysis, FailRun, CompleteGeneration, Terminal
  <2>2. /\ status'[job] = t /\ log'[job] = Append(log[job], t) /\ wk'[w].job # job
        /\ wk[w].at # "loaded"
    BY <1>1, <1>11, <2>1, NoRequestIsNull DEF Sound, TypeOK, Finish, NoTask, CompleteAnalysis,
       FailRun, CompleteGeneration
  <2>3. QED
    BY <1>7, <1>8, <1>9, <2>2, LifeGoesOn
<1>12. CASE SaveGenerated(w) \/ ReadPrevious(w) \/ InsertVersion(w)
  <2>1. wk[w].at # "loaded" /\ status' = status /\ log' = log
    BY <1>12 DEF SaveGenerated, ReadPrevious, InsertVersion
  <2>2. wk'[w].at # "loaded"
    <3>1. CASE ReadPrevious(w)
      <4>1. PICK n : wk' = [wk EXCEPT ![w].at = "numbered", ![w].number = n]
        BY <3>1 DEF ReadPrevious
      <4>2. QED
        BY <4>1 DEF Sound, TypeOK, Tasks
    <3>2. CASE SaveGenerated(w) \/ InsertVersion(w)
      BY <3>2 DEF Sound, TypeOK, Tasks, SaveGenerated, InsertVersion
    <3>3. QED
      BY <1>12, <3>1, <3>2
  <2>3. QED
    BY <1>7, <1>8, <1>9, <2>1, <2>2
<1>13. CASE VersionConflict(w) \/ WorkerDies(w)
  <2>1. wk'[w].job # job /\ status' = status /\ log' = log
    BY <1>1, <1>13, NoRequestIsNull DEF Sound, TypeOK, NoTask, VersionConflict, WorkerDies
  <2>2. QED
    BY <1>7, <1>9, <2>1
<1>14. QED
  BY <1>10, <1>11, <1>12, <1>13

\* Every step keeps a job in one place while it is not delivered again.
LEMMA OnceStep ==
  ASSUME Sound, Handed, Once, [Next]_vars
  PROVE  Once'
<1> USE DEF apiVars, jobVars, storeVars, brokerVars, faultVars
<1>1. ASSUME UNCHANGED <<stage, status, log, queue, runs, wk>>
      PROVE  Once'
  BY <1>1 DEF Once, OnePlace
<1>2. ASSUME NEW s \in Requests, NEW o \in Orgs, NEW p \in Projects,
             BeginUpload(s, o, p) \/ BeginGenerate(s, o, p)
      PROVE  Once'
  <2>1. UNCHANGED <<status, log, queue, runs, wk>>
    BY <1>2 DEF BeginUpload, BeginGenerate
  <2>2. \A r \in Requests :
           \/ stage'[r] = stage[r]
           \/ stage[r] = "idle" /\ stage'[r] \in {"storing", "ready"}
    BY <1>2 DEF Sound, TypeOK, BeginUpload, BeginGenerate
  <2>3. QED
    BY <2>1, <2>2 DEF Once, OnePlace
<1>3. CASE \/ UNCHANGED vars
           \/ \E o \in Orgs, p \in Projects : CreateProject(o, p)
           \/ \E o \in Orgs : \E v \in versions : SaveVersion(o, v)
  BY <1>1, <1>3 DEF vars, CreateProject, SaveVersion
<1>4. QED
  BY <1>2, <1>3, HandlerOnce, ReceiveOnce, RunOnce DEF Next, WorkerStep

\* Runs stay apart, and a job that is not delivered again is with its handler, in the broker
\* or with one worker, and its rows tell which.
THEOREM OnceInductive == Spec => [](Handed /\ Once)
<1>1. Init => Handed /\ Once
  <2> SUFFICES ASSUME Init PROVE Handed /\ Once
    OBVIOUS
  <2>1. Handed
    BY DEF Init, Handed, NoTask
  <2>2. Once
    BY NoRequestIsNull DEF Init, Once, Told, OnePlace, NoTask
  <2>3. QED
    BY <2>1, <2>2
<1>2. IInv /\ Handed /\ Once /\ [Next]_vars => Handed' /\ Once'
  BY HandedStep, OnceStep DEF IInv, Sound
<1>3. QED
  BY <1>1, <1>2, Inductive, PTL DEF Spec

\* Status and newest row of a job are the same, or a run is between its two commits, or was
\* stopped there.
Agree(r) == status[r] = Newest(r) \/ Between(r) \/ r \in abandoned

\* A commit of a status and its row.
LEMMA NewestAppended ==
  ASSUME TypeOK, NEW r \in Requests, NEW s \in Statuses,
         status'[r] = s, log'[r] = Append(log[r], s)
  PROVE  Agree(r)'
<1>1. log[r] \in Seq(Statuses)
  BY DEF TypeOK
<1>2. log'[r] # <<>> /\ log'[r][Len(log'[r])] = s
  BY <1>1
<1>3. QED
  BY <1>2 DEF Agree, Newest

\* Whoever is between two commits and does not move keeps a job so.
LEMMA AgreeFrame ==
  ASSUME NEW r \in Requests, Agree(r), status'[r] = status[r], log'[r] = log[r],
         abandoned \subseteq abandoned',
         \A w \in Workers : wk[w].job = r /\ wk[w].at # "loaded" =>
             wk'[w].job = r /\ wk'[w].at # "loaded"
  PROVE  Agree(r)'
BY DEF Agree, Newest, Between

\* The steps of a worker: a run's first commit puts it between, its last ends that, and
\* what stops it on the way is remembered.
LEMMA AgreeRuns ==
  ASSUME Sound, NEW w \in Workers, NEW r \in Requests, Agree(r),
         WorkerStep(w) \/ WorkerDies(w) \/ \E s \in Requests : ReceiveCopy(w, s)
  PROVE  Agree(r)'
<1> USE DEF apiVars, jobVars, storeVars, brokerVars, faultVars
<1>0. /\ DOMAIN wk = Workers /\ DOMAIN status = Requests /\ DOMAIN log = Requests
      /\ TypeOK
  BY DEF Sound, TypeOK
<1>1. ASSUME NEW s \in Requests, Receive(w, s) \/ ReceiveCopy(w, s) PROVE Agree(r)'
  <2>1. wk[w].at = "idle" /\ UNCHANGED <<status, log, abandoned>>
    BY <1>1 DEF Receive, ReceiveCopy
  <2>2. \A u \in Workers \ {w} : wk'[u] = wk[u]
    BY <1>0, <1>1 DEF Receive, ReceiveCopy, Load
  <2>3. QED
    <3>1. wk[w].job # r
      BY <2>1, NoRequestIsNull DEF Sound, Wired
    <3>2. QED
      BY <2>1, <2>2, <3>1, AgreeFrame
<1>2. CASE Start(w) \/ SaveGenerated(w) \/ ReadPrevious(w) \/ InsertVersion(w)
  <2>1. /\ wk'[w].job = wk[w].job /\ wk'[w].at # "loaded"
        /\ \A u \in Workers \ {w} : wk'[u] = wk[u]
        /\ abandoned' = abandoned
        /\ \A s \in Requests \ {wk[w].job} : status'[s] = status[s] /\ log'[s] = log[s]
    <3>1. wk[w] \in Tasks
      BY <1>0 DEF TypeOK
    <3>2. CASE Start(w)
      <4>1. \A v \in Requests \ {wk[w].job} : status'[v] = status[v] /\ log'[v] = log[v]
        BY <1>0, <3>2 DEF Start
      <4>2. QED
        BY <1>0, <3>1, <3>2, <4>1 DEF Start, Tasks
    <3>3. CASE SaveGenerated(w) \/ InsertVersion(w)
      BY <1>0, <3>1, <3>3 DEF SaveGenerated, InsertVersion, Tasks
    <3>4. CASE ReadPrevious(w)
      BY <1>0, <3>1, <3>4 DEF ReadPrevious, Tasks
    <3>5. QED
      BY <1>2, <3>2, <3>3, <3>4
  <2>2. CASE wk[w].job = r
    BY <2>1, <2>2 DEF Agree, Between
  <2>3. CASE wk[w].job # r
    BY <2>1, <2>3, AgreeFrame
  <2>4. QED
    BY <2>2, <2>3
<1>3. CASE CompleteAnalysis(w) \/ FailRun(w) \/ CompleteGeneration(w)
  <2>1. PICK outcome \in Terminal : Finish(w, outcome) /\ abandoned' = abandoned
    BY <1>3 DEF CompleteAnalysis, FailRun, CompleteGeneration, Terminal
  <2>2. /\ \A u \in Workers \ {w} : wk'[u] = wk[u]
        /\ \A s \in Requests \ {wk[w].job} : status'[s] = status[s] /\ log'[s] = log[s]
    BY <1>0, <2>1 DEF Finish
  <2>3. CASE wk[w].job = r
    <3>1. status'[r] = outcome /\ log'[r] = Append(log[r], outcome) /\ outcome \in Statuses
      BY <1>0, <2>1, <2>3 DEF Finish, Statuses
    <3>2. QED
      BY <1>0, <3>1, NewestAppended
  <2>4. CASE wk[w].job # r
    BY <2>1, <2>2, <2>4, AgreeFrame
  <2>5. QED
    BY <2>3, <2>4
<1>4. CASE VersionConflict(w) \/ WorkerDies(w)
  <2>1. /\ \A u \in Workers \ {w} : wk'[u] = wk[u]
        /\ UNCHANGED <<status, log>> /\ abandoned' = abandoned \cup {wk[w].job}
    BY <1>0, <1>4 DEF VersionConflict, WorkerDies
  <2>2. CASE wk[w].job = r
    BY <2>1, <2>2 DEF Agree
  <2>3. CASE wk[w].job # r
    BY <2>1, <2>3, AgreeFrame
  <2>4. QED
    BY <2>2, <2>3
<1>5. QED
  BY <1>1, <1>2, <1>3, <1>4 DEF WorkerStep

LEMMA AgreeStep ==
  ASSUME Sound, \A s \in Requests : Agree(s), [Next]_vars, NEW r \in Requests
  PROVE  Agree(r)'
<1> USE DEF apiVars, jobVars, storeVars, brokerVars, faultVars
<1>1. ASSUME NEW s \in Requests, CommitJob(s) PROVE Agree(r)'
  <2>1. CASE s = r
    <3>1. status'[r] = "QUEUED" /\ log'[r] = Append(log[r], "QUEUED")
      BY <1>1, <2>1 DEF CommitJob, Sound, TypeOK
    <3>2. QED
      BY <3>1, NewestAppended DEF Statuses, Sound
  <2>2. CASE s # r
    <3>1. status'[r] = status[r] /\ log'[r] = log[r] /\ UNCHANGED <<wk, abandoned>>
      BY <1>1, <2>2 DEF CommitJob
    <3>2. QED
      BY <3>1, AgreeFrame
  <2>3. QED
    BY <2>1, <2>2
<1>2. ASSUME UNCHANGED <<status, log, wk>>, abandoned \subseteq abandoned' PROVE Agree(r)'
  BY <1>2, AgreeFrame
<1>3. ASSUME NEW s \in Requests,
             RejectUpload(s) \/ StoreUpload(s) \/ Publish(s) \/ RequestDies(s)
      PROVE  Agree(r)'
  BY <1>2, <1>3 DEF RejectUpload, StoreUpload, Publish, RequestDies
<1>4. ASSUME NEW s \in Requests, NEW o \in Orgs, NEW p \in Projects,
             BeginUpload(s, o, p) \/ BeginGenerate(s, o, p)
      PROVE  Agree(r)'
  BY <1>2, <1>4 DEF BeginUpload, BeginGenerate
<1>5. CASE \/ UNCHANGED vars
           \/ \E o \in Orgs, p \in Projects : CreateProject(o, p)
           \/ \E o \in Orgs : \E v \in versions : SaveVersion(o, v)
  BY <1>2, <1>5 DEF vars, CreateProject, SaveVersion
<1>6. QED
  BY <1>1, <1>3, <1>4, <1>5, AgreeRuns DEF Next, RequestStep

\* The status rows of a job that was delivered once retell its life, and the newest row of
\* any job is its status while no run is between its commits (worker.py:38 and :110).
THEOREM LogTells == Spec => []LogTellsStatus
<1>1. IInv /\ Once /\ (\A r \in Requests : Agree(r)) => LogTellsStatus
  <2> SUFFICES ASSUME IInv, Once, NEW r \in Requests, ExtraRuns[r] = 0
               PROVE  log[r] \in LifeCycles /\ status[r] = Newest(r)
    BY DEF LogTellsStatus, Agree
  <2>1. runs[r] \in Nat /\ queue[r] \in Nat
    BY DEF IInv, TypeOK
  <2>2. runs[r] + queue[r] <= 1
    BY <2>1 DEF ExtraRuns
  <2>3. QED
    BY <2>2, LifeTells DEF Once, Newest
<1>2. Init => \A r \in Requests : Agree(r)
  BY DEF Init, Agree, Newest
<1>3. IInv /\ (\A r \in Requests : Agree(r)) /\ [Next]_vars => (\A r \in Requests : Agree(r))'
  BY AgreeStep DEF IInv, Sound
<1>4. QED
  BY <1>1, <1>2, <1>3, Inductive, OnceInductive, PTL DEF Spec

-------------------------------------------------------------------------------
(***************************************************************************)
(* What a second delivery costs.  Every run beyond the first of its job goes *)
(* back to one, and a run adds one version at most.                         *)
(***************************************************************************)

\* The runs that second deliveries have made, or will make.
Repeated == {e \in Requests \X Nat : 2 <= e[2] /\ e[2] <= runs[e[1]] + queue[e[1]]}
Counted == IsFiniteSet(Repeated) /\ Cardinality(Repeated) = redeliveries

\* Every second delivery is counted, and no other delivery is one.
LEMMA CountedStep ==
  ASSUME Sound, Handed, Counted, [Next]_vars
  PROVE  Counted'
<1> USE DEF apiVars, jobVars, storeVars, brokerVars, faultVars
<1> DEFINE Due(r) == runs[r] + queue[r]
<1>0. \A r \in Requests : runs[r] \in Nat /\ queue[r] \in Nat
  BY DEF Sound, TypeOK
<1>1. ASSUME redeliveries' = redeliveries,
             \A r \in Requests : Due(r)' = Due(r) \/ (Due(r) = 0 /\ Due(r)' = 1)
      PROVE  Counted'
  <2>1. Repeated' = Repeated
    BY <1>0, <1>1 DEF Repeated
  <2>2. QED
    BY <1>1, <2>1 DEF Counted
<1>2. CASE UNCHANGED <<queue, runs, redeliveries>>
  BY <1>1, <1>2
<1>3. ASSUME NEW s \in Requests, Publish(s) PROVE Counted'
  <2>1. /\ runs' = runs /\ redeliveries' = redeliveries /\ queue' = [queue EXCEPT ![s] = @ + 1]
        /\ stage[s] = "committed"
    BY <1>3 DEF Publish
  <2>2. runs[s] = 0 /\ queue[s] = 0
    BY <2>1 DEF Handed
  <2>3. \A r \in Requests : queue'[r] = IF r = s THEN 1 ELSE queue[r]
    BY <2>1, <2>2 DEF Sound, TypeOK
  <2>4. QED
    BY <1>0, <1>1, <2>1, <2>2, <2>3
<1>4. ASSUME NEW w \in Workers, NEW s \in Requests, Receive(w, s) PROVE Counted'
  <2>1. redeliveries' = redeliveries /\ queue' = [queue EXCEPT ![s] = @ - 1]
    BY <1>4 DEF Receive
  <2>2. runs' = [runs EXCEPT ![s] = @ + 1] /\ queue[s] \in Nat \ {0}
    BY <1>4, Received
  <2>3. \A r \in Requests : /\ queue'[r] = IF r = s THEN queue[r] - 1 ELSE queue[r]
                            /\ runs'[r] = IF r = s THEN runs[r] + 1 ELSE runs[r]
    BY <2>1, <2>2 DEF Sound, TypeOK
  <2>4. \A r \in Requests : Due(r)' = Due(r)
    BY <1>0, <2>2, <2>3
  <2>5. QED
    BY <1>1, <2>1, <2>4
<1>5. ASSUME NEW w \in Workers, NEW s \in Requests, ReceiveCopy(w, s) PROVE Counted'
  <2>1. redeliveries' = redeliveries + 1 /\ queue' = queue
    BY <1>5 DEF ReceiveCopy
  <2>2. runs' = [runs EXCEPT ![s] = @ + 1] /\ queue[s] \in Nat \ {0}
    BY <1>5, Received
  <2>3. \A r \in Requests : runs'[r] = IF r = s THEN runs[r] + 1 ELSE runs[r]
    BY <2>2 DEF Sound, TypeOK
  <2> DEFINE e == <<s, Due(s) + 1>>
  <2>4. Repeated' = Repeated \cup {e}
    <3>1. Due(s) + 1 \in Nat /\ 2 <= Due(s) + 1
      BY <1>0, <2>2
    <3>2. \A r \in Requests, n \in Nat :
             n <= runs'[r] + queue'[r] <=> n <= Due(r) \/ (r = s /\ n = Due(s) + 1)
      BY <1>0, <2>1, <2>3
    <3>3. QED
      BY <3>1, <3>2 DEF Repeated
  <2>5. e \notin Repeated
    BY <1>0 DEF Repeated
  <2> HIDE DEF e
  <2>6. IsFiniteSet(Repeated') /\ Cardinality(Repeated') = Cardinality(Repeated) + 1
    BY <2>4, <2>5, FS_AddElement DEF Counted
  <2>7. QED
    BY <2>1, <2>6 DEF Counted
<1>6. QED
  BY <1>2, <1>3, <1>4, <1>5, Deliveries

THEOREM CountedInductive == Spec => []Counted
<1>1. Init => Counted
  <2> SUFFICES ASSUME Init PROVE Counted
    OBVIOUS
  <2>1. Repeated = {}
    BY DEF Init, Repeated
  <2>2. QED
    BY <2>1, FS_EmptySet DEF Init, Counted
<1>2. IInv /\ Handed /\ Once /\ Counted /\ [Next]_vars => Counted'
  BY CountedStep DEF IInv, Sound
<1>3. QED
  BY <1>1, <1>2, Inductive, OnceInductive, PTL DEF Spec

\* Committed rows are finitely many.
LEMMA FiniteStep ==
  ASSUME IsFiniteSet(versions), [Next]_vars
  PROVE  IsFiniteSet(versions)'
<1>1. CASE versions' = versions
  BY <1>1
<1>2. ASSUME NEW v, NEW u, versions' = (versions \ {v}) \cup {u}
      PROVE  IsFiniteSet(versions')
  <2>1. IsFiniteSet(versions \ {v})
    BY FS_RemoveElement
  <2>2. QED
    BY <1>2, <2>1, FS_AddElement
<1>3. ASSUME NEW w \in Workers, CompleteGeneration(w)
      PROVE  IsFiniteSet(versions')
  <2>1. versions' = versions \cup {NewVersion(w)}
    BY <1>3 DEF CompleteGeneration
  <2>2. QED
    BY <2>1, FS_AddElement
<1>4. QED
  BY <1>1, <1>2, <1>3, VersionsMove

\* The runs behind the versions are first runs of their jobs, or repeated ones.
LEMMA VersionsCounted ==
  ASSUME IInv, Backed, Handed, Counted, IsFiniteSet(versions)
  PROVE  ExtraVersionsAreRepeats
<1> DEFINE J == {v.job : v \in versions}
           Firsts == {<<j, 1>> : j \in J}
           jobOf == [v \in versions |-> v.job]
           first == [j \in J |-> <<j, 1>>]
           run == [v \in versions |-> <<v.job, v.run>>]
<1>1. IsFiniteSet(J)
  <2>1. jobOf \in Surjection(versions, J)
    BY DEF Surjection
  <2> HIDE DEF J, jobOf
  <2>2. QED
    BY <2>1, FS_Surjection
<1>2. IsFiniteSet(Firsts) /\ Cardinality(Firsts) <= Cardinality(J)
  <2>1. first \in Surjection(J, Firsts)
    BY DEF Surjection
  <2> HIDE DEF J, first, Firsts
  <2>2. QED
    BY <1>1, <2>1, FS_Surjection
<1>3. run \in Injection(versions, Firsts \cup Repeated)
  <2>1. ASSUME NEW v \in versions
        PROVE  <<v.job, v.run>> \in Firsts \cup Repeated
    <3>1. v.job \in Requests /\ v.run \in Nat /\ v.run \in 1 .. runs[v.job]
      BY DEF Handed, IInv, TypeOK, Versions
    <3>2. runs[v.job] \in Nat /\ queue[v.job] \in Nat
      BY <3>1 DEF IInv, TypeOK
    <3>3. CASE v.run = 1
      BY <3>3
    <3>4. CASE v.run # 1
      <4>1. 2 <= v.run /\ v.run <= runs[v.job] + queue[v.job]
        BY <3>1, <3>2, <3>4
      <4>2. <<v.job, v.run>> \in Repeated
        BY <3>1, <4>1 DEF Repeated
      <4>3. QED
        BY <4>2
    <3>5. QED
      BY <3>3, <3>4
  <2>2. ASSUME NEW u \in versions, NEW v \in versions, u.job = v.job, u.run = v.run
        PROVE  u = v
    <3>1. u.number = v.number
      BY <2>2 DEF Handed
    <3>2. u.project = v.project
      BY <2>2 DEF Backed, VersionsDrafted
    <3>3. QED
      BY <3>1, <3>2 DEF IInv, VersionsNumberedInOrder
  <2> HIDE DEF Firsts
  <2>3. run \in [versions -> Firsts \cup Repeated]
    BY <2>1
  <2>4. \A u, v \in versions : run[u] = run[v] => u = v
    BY <2>2
  <2> HIDE DEF run
  <2>5. QED
    BY <2>3, <2>4 DEF Injection, IsInjective
<1> HIDE DEF Firsts, run, J
<1>4. IsFiniteSet(Repeated) /\ Cardinality(Repeated) = redeliveries
  BY DEF Counted
<1>5. /\ IsFiniteSet(Firsts \cup Repeated)
      /\ Cardinality(Firsts \cup Repeated) =
            Cardinality(Firsts) + Cardinality(Repeated) - Cardinality(Firsts \cap Repeated)
  BY <1>2, <1>4, FS_Union
<1>6. IsFiniteSet(Firsts \cap Repeated)
  BY <1>2, FS_Subset
<1>7. Cardinality(versions) <= Cardinality(Firsts \cup Repeated)
  BY <1>3, <1>5, FS_Injection
<1>8. /\ Cardinality(J) \in Nat /\ Cardinality(Firsts) \in Nat /\ Cardinality(versions) \in Nat
      /\ Cardinality(Firsts \cap Repeated) \in Nat /\ Cardinality(Repeated) \in Nat
      /\ Cardinality(Firsts \cup Repeated) \in Nat
  BY <1>1, <1>2, <1>4, <1>5, <1>6, FS_CardinalityType
<1>9. Cardinality(versions) <= Cardinality(J) + redeliveries
  BY <1>2, <1>4, <1>5, <1>7, <1>8
<1>10. QED
  BY <1>9 DEF J, ExtraVersionsAreRepeats

\* Whatever is delivered twice, lost or stopped, a job has one version and at most one more
\* for each time the broker handed it out again.
THEOREM RepeatsAreBounded == Spec => []ExtraVersionsAreRepeats
<1>1. Init => IsFiniteSet(versions)
  BY FS_EmptySet DEF Init
<1>2. IsFiniteSet(versions) /\ [Next]_vars => IsFiniteSet(versions)'
  BY FiniteStep
<1>3. IInv /\ Backed /\ Handed /\ Once /\ Counted /\ IsFiniteSet(versions) => ExtraVersionsAreRepeats
  BY VersionsCounted
<1>4. QED
  BY <1>1, <1>2, <1>3, Inductive, DataInductive, OnceInductive, CountedInductive, PTL DEF Spec

\* A retry is idempotent (ARCHITECTURE.md:303) exactly as long as there is none: until a
\* message is delivered twice, a job adds one version at most.
THEOREM NoRepeatNoDuplicate == Spec => [](redeliveries = 0 => RetryIsIdempotent)
<1>1. IInv /\ Backed /\ Handed /\ Counted => (redeliveries = 0 => RetryIsIdempotent)
  <2> SUFFICES ASSUME IInv, Backed, Handed, Counted, redeliveries = 0,
                      NEW u \in versions, NEW v \in versions, u.job = v.job
               PROVE  u = v
    BY DEF RetryIsIdempotent
  <2>1. Repeated = {}
    BY FS_EmptySet DEF Counted
  <2>2. ASSUME NEW x \in versions PROVE x.run = 1
    <3>1. x.job \in Requests /\ x.run \in Nat /\ x.run \in 1 .. runs[x.job]
      BY DEF Handed, IInv, TypeOK, Versions
    <3>2. runs[x.job] \in Nat /\ queue[x.job] \in Nat
      BY <3>1 DEF IInv, TypeOK
    <3>3. <<x.job, x.run>> \notin Repeated
      BY <2>1
    <3>4. ~(2 <= x.run /\ x.run <= runs[x.job] + queue[x.job])
      BY <3>1, <3>3 DEF Repeated
    <3>5. QED
      BY <3>1, <3>2, <3>4
  <2>3. u.number = v.number
    BY <2>2 DEF Handed
  <2>4. u.project = v.project
    BY DEF Backed, VersionsDrafted
  <2>5. QED
    BY <2>3, <2>4 DEF IInv, VersionsNumberedInOrder
<1>2. QED
  BY <1>1, Inductive, DataInductive, OnceInductive, CountedInductive, PTL

(***************************************************************************)
(* The studio implements JobOutcomes, however often messages are delivered. *)
(***************************************************************************)

\* The run behind a version, the versions of a project, and the history they tell.
Behind(v) == [job |-> v.job, run |-> v.run]
Runs == [job : Requests, run : Nat]
Of(V, p) == {v \in V : v.project = p}
History(V, p) ==
    [n \in 1 .. Cardinality(Of(V, p)) |-> Behind(CHOOSE v \in Of(V, p) : v.number = n)]

\* Numbers are taken once, and from 1 to the number of versions.
Numbered(V, p) ==
    /\ IsFiniteSet(Of(V, p))
    /\ \A v \in Of(V, p) : v.number \in 1 .. Cardinality(Of(V, p))
    /\ \A n \in 1 .. Cardinality(Of(V, p)) : \E v \in Of(V, p) : v.number = n
    /\ \A u, v \in Of(V, p) : u.number = v.number => u = v

\* A numbered history is a sequence that lists the run of each version at its number.
LEMMA HistoryReads ==
  ASSUME NEW V \in SUBSET Versions, NEW p, Numbered(V, p)
  PROVE  /\ Cardinality(Of(V, p)) \in Nat
         /\ History(V, p) \in Seq(Runs) /\ Len(History(V, p)) = Cardinality(Of(V, p))
         /\ \A v \in Of(V, p) : History(V, p)[v.number] = Behind(v)
<1> DEFINE c == Cardinality(Of(V, p))
<1>1. c \in Nat
  BY FS_CardinalityType DEF Numbered
<1>2. \A n \in 1 .. c : \E v \in Of(V, p) : v.number = n
  BY DEF Numbered
<1>3. \A v \in Of(V, p) : v.number \in 1 .. c /\ Behind(v) \in Runs
  BY DEF Numbered, Of, Versions, Behind, Runs
<1>4. ASSUME NEW v \in Of(V, p) PROVE History(V, p)[v.number] = Behind(v)
  <2> DEFINE x == CHOOSE u \in Of(V, p) : u.number = v.number
  <2>1. x \in Of(V, p) /\ x.number = v.number
    OBVIOUS
  <2>2. x = v
    BY <2>1 DEF Numbered
  <2>3. QED
    BY <1>3, <2>2 DEF History
<1>5. History(V, p) \in [1 .. c -> Runs]
  <2>1. \A n \in 1 .. c : History(V, p)[n] \in Runs
    BY <1>2, <1>3, <1>4
  <2>2. QED
    BY <2>1 DEF History
<1> HIDE DEF c
<1>6. History(V, p) \in Seq(Runs) /\ Len(History(V, p)) = c
  BY <1>1, <1>5
<1>7. QED
  BY <1>1, <1>4, <1>6 DEF c

\* Histories of equal length that agree on the versions are equal.
LEMMA SameHistory ==
  ASSUME NEW V \in SUBSET Versions, NEW W \in SUBSET Versions, NEW p,
         Numbered(V, p), Numbered(W, p),
         Cardinality(Of(V, p)) = Cardinality(Of(W, p)),
         \A v \in Of(V, p) : \E w \in Of(W, p) : w.number = v.number /\ Behind(w) = Behind(v)
  PROVE  History(V, p) = History(W, p)
<1>1. \A n \in 1 .. Cardinality(Of(V, p)) : History(V, p)[n] = History(W, p)[n]
  <2> SUFFICES ASSUME NEW n \in 1 .. Cardinality(Of(V, p))
               PROVE  History(V, p)[n] = History(W, p)[n]
    OBVIOUS
  <2>1. PICK v \in Of(V, p) : v.number = n
    BY DEF Numbered
  <2>2. PICK w \in Of(W, p) : w.number = n /\ Behind(w) = Behind(v)
    BY <2>1
  <2>3. QED
    BY <2>1, <2>2, HistoryReads
<1>2. QED
  BY <1>1, HistoryReads, SeqEqual

\* Marking a version saved changes no history.
LEMMA SavingKeepsHistory ==
  ASSUME NEW V \in SUBSET Versions, NEW v \in V, NEW u \in Versions, Same(v, u),
         NEW W, W = (V \ {v}) \cup {u}, \A p \in Projects : Numbered(V, p)
  PROVE  \A p \in Projects : Numbered(W, p) /\ History(W, p) = History(V, p)
<1> SUFFICES ASSUME NEW p \in Projects PROVE Numbered(W, p) /\ History(W, p) = History(V, p)
  OBVIOUS
<1>1. W \in SUBSET Versions /\ Numbered(V, p)
  OBVIOUS
<1>2. CASE p # v.project
  <2>1. Of(W, p) = Of(V, p)
    BY <1>2 DEF Of, Same
  <2>2. Numbered(W, p)
    BY <1>1, <2>1 DEF Numbered
  <2>3. QED
    BY <1>1, <2>1, <2>2, SameHistory
<1>3. CASE p = v.project
  <2>1. v \in Of(V, p) /\ Of(W, p) = (Of(V, p) \ {v}) \cup {u}
    BY <1>3 DEF Of, Same
  <2>2. u \notin Of(V, p) \ {v}
    BY <1>1, <2>1 DEF Numbered, Same
  <2>3. IsFiniteSet(Of(V, p) \ {v}) /\ Cardinality(Of(V, p) \ {v}) = Cardinality(Of(V, p)) - 1
    BY <1>1, <2>1, FS_RemoveElement DEF Numbered
  <2>4. /\ IsFiniteSet((Of(V, p) \ {v}) \cup {u})
        /\ Cardinality((Of(V, p) \ {v}) \cup {u}) = Cardinality(Of(V, p) \ {v}) + 1
    BY <2>2, <2>3, FS_AddElement
  <2>5. Cardinality(Of(V, p)) \in Nat
    BY <1>1, FS_CardinalityType DEF Numbered
  <2>6. IsFiniteSet(Of(W, p)) /\ Cardinality(Of(W, p)) = Cardinality(Of(V, p))
    <3> DEFINE a == Cardinality(Of(V, p))
               b == Cardinality(Of(V, p) \ {v})
               c == Cardinality((Of(V, p) \ {v}) \cup {u})
    <3>1. a \in Nat /\ b = a - 1 /\ c = b + 1
      BY <2>3, <2>4, <2>5
    <3> HIDE DEF a, b, c
    <3>2. c = a
      BY <3>1
    <3>3. QED
      BY <2>1, <2>4, <3>2 DEF a, c
  <2>7. u.number = v.number /\ Behind(u) = Behind(v)
    BY DEF Same, Behind
  <2>8. \A x \in Of(W, p) : x = u \/ (x \in Of(V, p) /\ x # v)
    BY <2>1
  <2>9. \A y \in Of(V, p) : \E x \in Of(W, p) : x.number = y.number /\ Behind(x) = Behind(y)
    BY <2>1, <2>7
  <2>10. Numbered(W, p)
    <3>1. \A x \in Of(W, p) : x.number \in 1 .. Cardinality(Of(W, p))
      <4>1. \A x \in Of(V, p) : x.number \in 1 .. Cardinality(Of(W, p))
        BY <1>1, <2>6 DEF Numbered
      <4>2. QED
        BY <2>1, <2>7, <2>8, <4>1
    <3>2. \A n \in 1 .. Cardinality(Of(W, p)) : \E x \in Of(W, p) : x.number = n
      <4>1. \A n \in 1 .. Cardinality(Of(W, p)) : \E x \in Of(V, p) : x.number = n
        BY <1>1, <2>6 DEF Numbered
      <4>2. QED
        <5> SUFFICES ASSUME NEW n \in 1 .. Cardinality(Of(W, p))
                     PROVE  \E x \in Of(W, p) : x.number = n
          OBVIOUS
        <5>1. PICK y \in Of(V, p) : y.number = n
          BY <4>1
        <5>2. QED
          BY <2>9, <5>1
    <3>3. \A x, y \in Of(V, p) : x.number = y.number => x = y
      BY <1>1 DEF Numbered
    <3>4. \A x, y \in Of(W, p) : x.number = y.number => x = y
      BY <2>1, <2>7, <2>8, <3>3
    <3>5. QED
      BY <2>6, <3>1, <3>2, <3>4 DEF Numbered
  <2>11. History(V, p) = History(W, p)
    BY <1>1, <2>6, <2>9, <2>10, SameHistory
  <2>12. QED
    BY <2>10, <2>11
<1>4. QED
  BY <1>2, <1>3

\* A row has the next free number of its project.
Follows(V, u) ==
    /\ \A v \in Of(V, u.project) : v.number # u.number
    /\ u.number > 1 => \E v \in Of(V, u.project) : v.number = u.number - 1

\* A version with the next number is appended to the history of its project.
LEMMA AddingAppends ==
  ASSUME NEW V \in SUBSET Versions, NEW u \in Versions, NEW W, W = V \cup {u},
         \A p \in Projects : Numbered(V, p), Follows(V, u)
  PROVE  \A p \in Projects :
            /\ Numbered(W, p)
            /\ p # u.project => History(W, p) = History(V, p)
            /\ p = u.project => History(W, p) = Append(History(V, p), Behind(u))
<1> SUFFICES ASSUME NEW p \in Projects
             PROVE  /\ Numbered(W, p)
                    /\ p # u.project => History(W, p) = History(V, p)
                    /\ p = u.project => History(W, p) = Append(History(V, p), Behind(u))
  OBVIOUS
<1>1. W \in SUBSET Versions /\ Numbered(V, p) /\ u.number \in Nat \ {0} /\ Behind(u) \in Runs
  BY DEF Versions, Behind, Runs
<1>2. CASE p # u.project
  <2>1. Of(W, p) = Of(V, p)
    BY <1>2 DEF Of
  <2>2. Numbered(W, p)
    BY <1>1, <2>1 DEF Numbered
  <2>3. QED
    BY <1>1, <1>2, <2>1, <2>2, SameHistory
<1>3. CASE p = u.project
  <2> DEFINE c == Cardinality(Of(V, p))
  <2>1. Of(W, p) = Of(V, p) \cup {u}
    BY <1>3 DEF Of
  <2>2. c \in Nat
    BY <1>1, FS_CardinalityType DEF Numbered
  <2>3. u.number = c + 1
    <3>1. u.number \notin 1 .. c
      BY <1>1, <1>3 DEF Numbered, Follows
    <3>2. u.number > 1 => u.number - 1 \in 1 .. c
      BY <1>1, <1>3 DEF Numbered, Follows
    <3> HIDE DEF c
    <3>3. QED
      BY <1>1, <2>2, <3>1, <3>2
  <2>4. u \notin Of(V, p)
    BY <1>3 DEF Follows
  <2>5. IsFiniteSet(Of(W, p)) /\ Cardinality(Of(W, p)) = c + 1
    <3>1. IsFiniteSet(Of(V, p))
      BY <1>1 DEF Numbered
    <3>2. /\ IsFiniteSet(Of(V, p) \cup {u})
          /\ Cardinality(Of(V, p) \cup {u}) = Cardinality(Of(V, p)) + 1
      BY <2>4, <3>1, FS_AddElement
    <3>3. QED
      BY <2>1, <3>2
  <2>6. Numbered(W, p)
    <3>1. \A x \in Of(W, p) : x.number \in 1 .. c + 1
      <4>1. \A x \in Of(V, p) : x.number \in 1 .. c
        BY <1>1 DEF Numbered
      <4> HIDE DEF c
      <4>2. QED
        BY <2>1, <2>2, <2>3, <4>1
    <3>2. \A n \in 1 .. c + 1 : \E x \in Of(W, p) : x.number = n
      <4>1. \A n \in 1 .. c : \E x \in Of(V, p) : x.number = n
        BY <1>1 DEF Numbered
      <4> HIDE DEF c
      <4>2. \A n \in 1 .. c + 1 : n \in 1 .. c \/ n = u.number
        BY <2>2, <2>3
      <4>3. QED
        BY <2>1, <4>1, <4>2
    <3>3. \A x, y \in Of(W, p) : x.number = y.number => x = y
      BY <1>1, <1>3, <2>1 DEF Numbered, Follows
    <3>4. QED
      BY <2>5, <3>1, <3>2, <3>3 DEF Numbered
  <2>7. History(W, p) = Append(History(V, p), Behind(u))
    <3> DEFINE h == History(V, p)
               g == History(W, p)
    <3>1. h \in Seq(Runs) /\ Len(h) = c /\ g \in Seq(Runs) /\ Len(g) = c + 1
      BY <1>1, <2>5, <2>6, HistoryReads
    <3>2. /\ Append(h, Behind(u)) \in Seq(Runs) /\ Len(Append(h, Behind(u))) = Len(h) + 1
          /\ \A n \in 1 .. Len(h) : Append(h, Behind(u))[n] = h[n]
          /\ Append(h, Behind(u))[Len(h) + 1] = Behind(u)
      BY <1>1, <3>1, AppendProperties
    <3>3. \A n \in 1 .. c : g[n] = h[n]
      <4> SUFFICES ASSUME NEW n \in 1 .. c PROVE g[n] = h[n]
        OBVIOUS
      <4>1. PICK x \in Of(V, p) : x.number = n
        BY <1>1 DEF Numbered
      <4>2. x \in Of(W, p)
        BY <2>1
      <4>3. QED
        BY <1>1, <2>6, <4>1, <4>2, HistoryReads
    <3>4. g[c + 1] = Behind(u)
      <4>1. u \in Of(W, p)
        BY <2>1
      <4>2. QED
        BY <1>1, <2>3, <2>6, <4>1, HistoryReads
    <3> HIDE DEF c, h, g
    <3>5. \A n \in 1 .. Len(g) : g[n] = Append(h, Behind(u))[n]
      BY <2>2, <3>1, <3>2, <3>3, <3>4
    <3>6. g = Append(h, Behind(u))
      BY <3>1, <3>2, <3>5, SeqEqual
    <3>7. QED
      BY <3>6 DEF g, h
  <2>8. QED
    BY <1>3, <2>6, <2>7
<1>4. QED
  BY <1>2, <1>3

\* The run a worker is on.
RunOf(w) == [job |-> wk[w].job, run |-> wk[w].run]

\* What a step does to the history of every project.
Dense == \A p \in Projects : Numbered(versions, p)

LEMMA HistoryStep ==
  ASSUME Sound, Dense, [Next]_vars
  PROVE  /\ Dense'
         /\ \/ \A p \in Projects : History(versions', p) = History(versions, p)
            \/ \E w \in Workers :
                  /\ CompleteGeneration(w)
                  /\ \A p \in Projects : History(versions', p) =
                        IF p = draft[wk[w].job].project
                        THEN Append(History(versions, p), RunOf(w)) ELSE History(versions, p)
<1>1. versions \in SUBSET Versions
  BY DEF Sound, TypeOK
<1>2. CASE versions' = versions
  BY <1>2 DEF Dense
<1>3. ASSUME NEW v \in versions, versions' = (versions \ {v}) \cup {[v EXCEPT !.saved = TRUE]}
      PROVE  /\ Dense'
             /\ \A p \in Projects : History(versions', p) = History(versions, p)
  <2> DEFINE u == [v EXCEPT !.saved = TRUE]
  <2>1. v \in Versions /\ u \in Versions /\ Same(v, u)
    BY <1>1 DEF Versions, Same
  <2> HIDE DEF u
  <2>2. versions' = (versions \ {v}) \cup {u}
    BY <1>3 DEF u
  <2>3. \A p \in Projects : Numbered(versions', p) /\ History(versions', p) = History(versions, p)
    BY <1>1, <2>1, <2>2, SavingKeepsHistory DEF Dense
  <2>4. QED
    BY <2>3 DEF Dense
<1>4. ASSUME NEW w \in Workers, CompleteGeneration(w)
      PROVE  /\ Dense'
             /\ \A p \in Projects : History(versions', p) =
                   IF p = draft[wk[w].job].project
                   THEN Append(History(versions, p), RunOf(w)) ELSE History(versions, p)
  <2> DEFINE u == NewVersion(w)
  <2>1. u \in Versions /\ versions' = versions \cup {u} /\ wk[w].at = "inserted"
    BY <1>4, NewVersionTyped DEF Sound, CompleteGeneration
  <2>2. /\ u.project = draft[wk[w].job].project /\ u.number = wk[w].number
        /\ Behind(u) = RunOf(w)
    BY DEF NewVersion, Behind, RunOf
  <2>3. Follows(versions, u)
    BY <2>1, <2>2 DEF Sound, NumbersClaimed, NumberTaken, VersionsOf, Of, Follows
  <2> HIDE DEF u
  <2>4. \A p \in Projects :
           /\ Numbered(versions', p)
           /\ p # u.project => History(versions', p) = History(versions, p)
           /\ p = u.project => History(versions', p) = Append(History(versions, p), Behind(u))
    <3>1. \A p \in Projects : Numbered(versions, p)
      BY DEF Dense
    <3>2. u \in Versions /\ versions' = versions \cup {u}
      BY <2>1
    <3>3. QED
      BY <1>1, <2>3, <3>1, <3>2, AddingAppends, ZenonT(60)
  <2>5. QED
    BY <2>2, <2>4 DEF Dense
<1>5. QED
  BY <1>2, <1>3, <1>4, VersionsMove

\* The versions of a project are finitely many, numbered from 1 to their count.
THEOREM DenseInductive == Spec => []Dense
<1>1. Init => Dense
  <2> SUFFICES ASSUME Init, NEW p \in Projects PROVE Numbered(versions, p)
    BY DEF Dense
  <2>1. Of(versions, p) = {}
    BY DEF Init, Of
  <2>2. QED
    BY <2>1, FS_EmptySet DEF Numbered
<1>2. IInv /\ Dense /\ [Next]_vars => Dense'
  BY HistoryStep DEF IInv, Sound
<1>3. QED
  BY <1>1, <1>2, Inductive, PTL DEF Spec

\* A job has been committed when its message is on its way.
Published == \A r \in Requests : stage[r] = "committed" \/ queue[r] > 0 => status[r] # "ABSENT"

LEMMA PublishedStep ==
  ASSUME Sound, Published, [Next]_vars
  PROVE  Published'
<1> USE DEF apiVars, jobVars, storeVars, brokerVars, faultVars
<1> SUFFICES ASSUME NEW r \in Requests, stage'[r] = "committed" \/ queue'[r] > 0
             PROVE  status'[r] # "ABSENT"
  BY DEF Published
<1>1. ASSUME NEW w \in Workers,
             WorkerStep(w) \/ WorkerDies(w) \/ \E s \in Requests : ReceiveCopy(w, s)
      PROVE  status'[r] # "ABSENT"
  <2>1. stage' = stage /\ (status'[r] = "ABSENT" <=> status[r] = "ABSENT")
    BY <1>1, WorkersApart DEF Apart
  <2>2. queue'[r] = queue[r] \/ (queue[r] > 0 /\ queue'[r] = queue[r] - 1)
    <3>1. CASE \E s \in Requests : Receive(w, s)
      BY <3>1 DEF Receive, Sound, TypeOK
    <3>2. CASE ~ \E s \in Requests : Receive(w, s)
      BY <1>1, <3>2 DEF WorkerStep, WorkerDies, ReceiveCopy, Start, CompleteAnalysis,
         FailRun, SaveGenerated, ReadPrevious, InsertVersion, VersionConflict, CompleteGeneration
    <3>3. QED
      BY <3>1, <3>2
  <2>3. QED
    BY <2>1, <2>2 DEF Published
<1>2. ASSUME NEW s \in Requests, RequestStep(s) \/ RequestDies(s)
      PROVE  status'[r] # "ABSENT"
  <2>1. CASE CommitJob(s)
    BY <2>1 DEF CommitJob, Published, Sound, TypeOK
  <2>2. CASE Publish(s)
    BY <2>2 DEF Publish, Published, Sound, TypeOK
  <2>3. CASE RejectUpload(s) \/ StoreUpload(s) \/ RequestDies(s)
    BY <2>3 DEF RejectUpload, StoreUpload, RequestDies, Published, Sound, TypeOK
  <2>4. QED
    BY <1>2, <2>1, <2>2, <2>3 DEF RequestStep
<1>3. ASSUME NEW s \in Requests, NEW o \in Orgs, NEW p \in Projects,
             BeginUpload(s, o, p) \/ BeginGenerate(s, o, p)
      PROVE  status'[r] # "ABSENT"
  BY <1>3 DEF BeginUpload, BeginGenerate, Published, Sound, TypeOK
<1>4. CASE UNCHANGED <<stage, queue, status>>
  BY <1>4 DEF Published
<1>5. QED
  BY <1>1, <1>2, <1>3, <1>4 DEF Next, vars, CreateProject, SaveVersion

\* A task that has begun is of a job that is under way.
LEMMA TaskUnderway ==
  ASSUME Sound, Handed, Once, NEW w \in Workers, wk[w].at # "idle"
  PROVE  /\ wk[w].job \in Requests
         /\ wk[w].at = "loaded" => status[wk[w].job] = "QUEUED" \/ Outcomes!Underway(wk[w].job)
         /\ wk[w].at # "loaded" => Outcomes!Underway(wk[w].job)
<1> DEFINE r == wk[w].job
<1>1. r \in Requests /\ status[r] \in Statuses /\ status[r] # "ABSENT"
  BY DEF Sound, TypeOK, Wired
<1>2. status[r] \in {"QUEUED", "PROCESSING", "COMPLETED", "FAILED"}
  BY <1>1 DEF Statuses, Terminal
<1>3. status[r] = "QUEUED" => wk[w].at = "loaded"
  BY DEF Handed
<1>4. runs[r] \in Nat /\ queue[r] \in Nat
  BY <1>1 DEF Sound, TypeOK
<1>5. CASE runs[r] + queue[r] <= 1
  <2>1. IF wk[w].at = "loaded" THEN status[r] = "QUEUED" ELSE status[r] = "PROCESSING"
    BY <1>1, <1>5 DEF Once, OnePlace
  <2>2. QED
    BY <1>1, <2>1 DEF Outcomes!Underway
<1>6. CASE ~(runs[r] + queue[r] <= 1)
  <2>1. ExtraRuns[r] > 0
    BY <1>1, <1>4, <1>6 DEF ExtraRuns
  <2>2. QED
    BY <1>1, <1>2, <1>3, <2>1 DEF Outcomes!Underway, Outcomes!Ended
<1>7. QED
  BY <1>5, <1>6

\* What a step shows of a job: after its end only a repeated one changes.
LEMMA StatusStep ==
  ASSUME Sound, Handed, Once, [Next]_vars
  PROVE  \/ status' = status
         \/ \E r \in Requests :
               \/ status[r] = "ABSENT" /\ status' = [status EXCEPT ![r] = "QUEUED"]
               \/ /\ status[r] = "QUEUED" \/ Outcomes!Underway(r)
                  /\ status' = [status EXCEPT ![r] = "PROCESSING"]
               \/ Outcomes!Underway(r) /\ status' = [status EXCEPT ![r] = "FAILED"]
               \/ Outcomes!Underway(r) /\ status' = [status EXCEPT ![r] = "COMPLETED"]
<1> USE DEF apiVars, jobVars, storeVars, brokerVars, faultVars
<1>1. ASSUME NEW r \in Requests, CommitJob(r)
      PROVE  status[r] = "ABSENT" /\ status' = [status EXCEPT ![r] = "QUEUED"]
  BY <1>1 DEF Sound, Wired, CommitJob
<1>2. ASSUME NEW w \in Workers, wk[w].at # "idle"
      PROVE  /\ wk[w].job \in Requests
             /\ wk[w].at = "loaded" => status[wk[w].job] = "QUEUED" \/ Outcomes!Underway(wk[w].job)
             /\ wk[w].at # "loaded" => Outcomes!Underway(wk[w].job)
  BY <1>2, TaskUnderway
<1>3. CASE \E w \in Workers : Start(w)
  BY <1>2, <1>3 DEF Start
<1>4. CASE \E w \in Workers : CompleteAnalysis(w) \/ FailRun(w) \/ CompleteGeneration(w)
  BY <1>2, <1>4 DEF CompleteAnalysis, FailRun, CompleteGeneration, Finish
<1>5. CASE status' = status
  BY <1>5
<1>6. QED
  BY <1>1, <1>3, <1>4, <1>5 DEF Next, vars, RequestStep, WorkerStep, CreateProject, BeginUpload,
     BeginGenerate, RejectUpload, StoreUpload, Publish, RequestDies, SaveVersion, Receive,
     ReceiveCopy, SaveGenerated, ReadPrevious, InsertVersion, VersionConflict, WorkerDies

\* Only a second delivery makes a run beyond the first.
LEMMA ExtraStep ==
  ASSUME Sound, Handed, Published, [Next]_vars
  PROVE  \/ ExtraRuns' = ExtraRuns /\ redeliveries' = redeliveries
         \/ /\ UNCHANGED <<status, versions>>
            /\ redeliveries < MaxRedeliveries /\ redeliveries' = redeliveries + 1
            /\ \E r \in Requests : /\ status[r] # "ABSENT"
                                  /\ ExtraRuns' = [ExtraRuns EXCEPT ![r] = @ + 1]
<1> USE DEF apiVars, jobVars, storeVars, brokerVars, faultVars
<1>0. \A r \in Requests : runs[r] \in Nat /\ queue[r] \in Nat
  BY DEF Sound, TypeOK
<1>1. CASE UNCHANGED <<queue, runs, redeliveries>>
  BY <1>1 DEF ExtraRuns
<1>2. ASSUME NEW s \in Requests, Publish(s)
      PROVE  ExtraRuns' = ExtraRuns /\ redeliveries' = redeliveries
  <2>1. /\ runs' = runs /\ redeliveries' = redeliveries /\ queue' = [queue EXCEPT ![s] = @ + 1]
        /\ stage[s] = "committed"
    BY <1>2 DEF Publish
  <2>2. runs[s] = 0 /\ queue[s] = 0
    BY <2>1 DEF Handed
  <2>3. \A r \in Requests : queue'[r] = IF r = s THEN 1 ELSE queue[r]
    BY <2>1, <2>2 DEF Sound, TypeOK
  <2>4. \A r \in Requests : ExtraRuns'[r] = ExtraRuns[r]
    BY <1>0, <2>1, <2>2, <2>3 DEF ExtraRuns
  <2>5. QED
    BY <2>1, <2>4 DEF ExtraRuns
<1>3. ASSUME NEW w \in Workers, NEW s \in Requests, Receive(w, s)
      PROVE  ExtraRuns' = ExtraRuns /\ redeliveries' = redeliveries
  <2>1. redeliveries' = redeliveries /\ queue' = [queue EXCEPT ![s] = @ - 1]
    BY <1>3 DEF Receive
  <2>2. runs' = [runs EXCEPT ![s] = @ + 1] /\ queue[s] \in Nat \ {0}
    BY <1>3, Received
  <2>3. \A r \in Requests : /\ queue'[r] = IF r = s THEN queue[r] - 1 ELSE queue[r]
                            /\ runs'[r] = IF r = s THEN runs[r] + 1 ELSE runs[r]
    BY <2>1, <2>2 DEF Sound, TypeOK
  <2>4. \A r \in Requests : ExtraRuns'[r] = ExtraRuns[r]
    BY <1>0, <2>2, <2>3 DEF ExtraRuns
  <2>5. QED
    BY <2>1, <2>4 DEF ExtraRuns
<1>4. ASSUME NEW w \in Workers, NEW s \in Requests, ReceiveCopy(w, s)
      PROVE  /\ UNCHANGED <<status, versions>>
             /\ redeliveries < MaxRedeliveries /\ redeliveries' = redeliveries + 1
             /\ status[s] # "ABSENT"
             /\ ExtraRuns' = [ExtraRuns EXCEPT ![s] = @ + 1]
  <2>1. /\ redeliveries < MaxRedeliveries /\ redeliveries' = redeliveries + 1
        /\ queue' = queue /\ queue[s] > 0
    BY <1>4 DEF ReceiveCopy
  <2>2. UNCHANGED <<status, versions>> /\ runs' = [runs EXCEPT ![s] = @ + 1]
    BY <1>4, Received
  <2>3. \A r \in Requests : runs'[r] = IF r = s THEN runs[r] + 1 ELSE runs[r]
    BY <2>2 DEF Sound, TypeOK
  <2>4. \A r \in Requests : ExtraRuns'[r] = IF r = s THEN ExtraRuns[r] + 1 ELSE ExtraRuns[r]
    BY <1>0, <2>1, <2>3 DEF ExtraRuns
  <2>5. ExtraRuns' = [ExtraRuns EXCEPT ![s] = @ + 1]
    BY <2>4 DEF ExtraRuns
  <2>6. QED
    BY <2>1, <2>2, <2>5 DEF Published
<1>5. QED
  BY <1>1, <1>2, <1>3, <1>4, Deliveries

\* The run of a task that is about to add its version has added none.
LEMMA RunIsNew ==
  ASSUME Sound, Dense, Handed, NEW w \in Workers, wk[w].at # "idle"
  PROVE  /\ wk[w].run \in 1 .. 1 + ExtraRuns[wk[w].job]
         /\ \A q \in Projects : \A i \in DOMAIN History(versions, q) :
               History(versions, q)[i] # RunOf(w)
<1>1. wk[w].job \in Requests /\ wk[w].run \in 1 .. runs[wk[w].job]
  BY DEF Handed, Sound, Wired
<1>2. wk[w].run \in 1 .. 1 + ExtraRuns[wk[w].job]
  <2>1. runs[wk[w].job] \in Nat /\ queue[wk[w].job] \in Nat
    BY <1>1 DEF Sound, TypeOK
  <2>2. QED
    BY <1>1, <2>1 DEF ExtraRuns
<1>3. ASSUME NEW q \in Projects, NEW i \in DOMAIN History(versions, q)
      PROVE  History(versions, q)[i] # RunOf(w)
  <2>1. versions \in SUBSET Versions /\ Numbered(versions, q)
    BY DEF Sound, TypeOK, Dense
  <2>2. i \in 1 .. Cardinality(Of(versions, q))
    BY DEF History
  <2>3. PICK v \in Of(versions, q) : v.number = i
    BY <2>1, <2>2 DEF Numbered
  <2>4. History(versions, q)[i] = Behind(v) /\ v \in versions
    BY <2>1, <2>3, HistoryReads DEF Of
  <2>5. v.job # wk[w].job \/ v.run # wk[w].run
    BY <2>4 DEF Handed
  <2>6. QED
    BY <2>4, <2>5 DEF Behind, RunOf
<1>4. QED
  BY <1>2, <1>3

\* The studio is an implementation of JobOutcomes, for any number of second deliveries.
THEOREM Implements == Spec => ImplementsOutcomes
<1>1. DesignHistory = [p \in Projects |-> History(versions, p)]
  BY DEF DesignHistory, History, VersionsOf, Of, Behind
<1>2. DesignHistory' = [p \in Projects |-> History(versions', p)]
  BY DEF DesignHistory, History, VersionsOf, Of, Behind
<1>3. Init => Outcomes!Init /\ Published
  <2> SUFFICES ASSUME Init PROVE Outcomes!Init /\ Published
    OBVIOUS
  <2>1. ASSUME NEW p \in Projects PROVE History(versions, p) = <<>>
    <3>1. Of(versions, p) = {}
      BY DEF Init, Of
    <3>2. Cardinality(Of(versions, p)) = 0
      BY <3>1, FS_EmptySet
    <3>3. QED
      BY <3>2 DEF History
  <2>2. status = [r \in Requests |-> "ABSENT"] /\ redeliveries = 0
    BY DEF Init
  <2>3. ExtraRuns = [r \in Requests |-> 0]
    BY DEF Init, ExtraRuns
  <2>4. Published
    BY DEF Init, Published
  <2>5. QED
    BY <1>1, <2>1, <2>2, <2>3, <2>4 DEF Outcomes!Init
<1>4. IInv /\ Handed /\ Once /\ Dense /\ Published /\ [Next]_vars
         => [Outcomes!Next]_Outcomes!vars /\ Published'
  <2> SUFFICES ASSUME IInv, Handed, Once, Dense, Published, [Next]_vars
               PROVE  [Outcomes!Next]_Outcomes!vars
    BY PublishedStep DEF IInv, Sound
  <2>1. Sound
    BY DEF IInv, Sound
  <2>2. ASSUME \A p \in Projects : History(versions', p) = History(versions, p),
               UNCHANGED <<ExtraRuns, redeliveries>>
        PROVE  [Outcomes!Next]_Outcomes!vars
    <3>1. DesignHistory' = DesignHistory
      BY <1>1, <1>2, <2>2
    <3>2. ASSUME NEW r \in Requests,
                 \/ status[r] = "ABSENT" /\ status' = [status EXCEPT ![r] = "QUEUED"]
                 \/ /\ status[r] = "QUEUED" \/ Outcomes!Underway(r)
                    /\ status' = [status EXCEPT ![r] = "PROCESSING"]
                 \/ Outcomes!Underway(r) /\ status' = [status EXCEPT ![r] = "FAILED"]
                 \/ Outcomes!Underway(r) /\ status' = [status EXCEPT ![r] = "COMPLETED"]
          PROVE  Outcomes!Next
      <4>1. \/ Outcomes!Accept(r) \/ Outcomes!Begin(r) \/ Outcomes!Fail(r) \/ Outcomes!Analyse(r)
        BY <2>2, <3>1, <3>2 DEF Outcomes!Accept, Outcomes!Begin, Outcomes!Fail,
           Outcomes!Analyse, Outcomes!Show
      <4>2. QED
        BY <4>1 DEF Outcomes!Next
    <3>3. status' = status => UNCHANGED Outcomes!vars
      BY <2>2, <3>1 DEF Outcomes!vars
    <3>4. QED
      BY <2>1, <3>2, <3>3, StatusStep
  <2>3. ASSUME NEW r \in Requests, status[r] # "ABSENT", UNCHANGED <<status, versions>>,
               redeliveries < MaxRedeliveries, redeliveries' = redeliveries + 1,
               ExtraRuns' = [ExtraRuns EXCEPT ![r] = @ + 1]
        PROVE  [Outcomes!Next]_Outcomes!vars
    <3>1. DesignHistory' = DesignHistory
      BY <1>1, <1>2, <2>3
    <3>2. Outcomes!Repeat(r)
      BY <2>3, <3>1 DEF Outcomes!Repeat
    <3>3. QED
      BY <3>2 DEF Outcomes!Next
  <2>4. ASSUME NEW w \in Workers, CompleteGeneration(w),
               \A p \in Projects : History(versions', p) =
                  IF p = draft[wk[w].job].project
                  THEN Append(History(versions, p), RunOf(w)) ELSE History(versions, p),
               UNCHANGED <<ExtraRuns, redeliveries>>
        PROVE  [Outcomes!Next]_Outcomes!vars
    <3> DEFINE j == wk[w].job
               n == wk[w].run
               q == draft[wk[w].job].project
    <3>1. j \in Requests /\ q \in Projects
      BY <2>1, <2>4 DEF Sound, TypeOK, Wired, Drafts, CompleteGeneration
    <3>2. Outcomes!Underway(j) /\ status' = [status EXCEPT ![j] = "COMPLETED"]
      BY <2>1, <2>4, TaskUnderway DEF CompleteGeneration, Finish
    <3>3. /\ n \in 1 .. 1 + ExtraRuns[j]
          /\ \A p \in Projects : \A i \in DOMAIN History(versions, p) :
                History(versions, p)[i] # [job |-> j, run |-> n]
      BY <2>1, <2>4, RunIsNew DEF CompleteGeneration, RunOf
    <3>4. \A p \in Projects : History(versions', p) =
             IF p = q THEN Append(History(versions, p), [job |-> j, run |-> n])
             ELSE History(versions, p)
      BY <2>4 DEF RunOf
    <3> HIDE DEF j, n, q
    <3>5. DesignHistory' = [DesignHistory EXCEPT ![q] = Append(@, [job |-> j, run |-> n])]
      BY <1>1, <1>2, <3>1, <3>4
    <3>6. \A p \in Projects : \A i \in DOMAIN DesignHistory[p] :
             DesignHistory[p][i] # [job |-> j, run |-> n]
      BY <1>1, <3>3
    <3>7. Outcomes!Design(j, n, q)
      BY <2>4, <3>2, <3>3, <3>5, <3>6 DEF Outcomes!Design, Outcomes!Show
    <3>8. QED
      BY <3>1, <3>3, <3>7 DEF Outcomes!Next
  <2>5. ASSUME NEW w \in Workers, CompleteGeneration(w)
        PROVE  UNCHANGED <<ExtraRuns, redeliveries>>
    BY <2>5 DEF CompleteGeneration, brokerVars, ExtraRuns
  <2>6. QED
    BY <2>1, <2>2, <2>3, <2>4, <2>5, HistoryStep, ExtraStep
<1>5. QED
  BY <1>3, <1>4, Inductive, OnceInductive, DenseInductive, PTL
     DEF Spec, ImplementsOutcomes, Outcomes!Spec
===============================================================================
