--------------------------- MODULE DesignJobsProofs ---------------------------
(***************************************************************************)
(* Proofs about DesignJobs, for every number of organisations, projects,   *)
(* requests, workers, faults and redeliveries.                             *)
(***************************************************************************)
EXTENDS DesignJobs, TLAPS

\* How the handler of a request, its rows and the tasks on it belong together.
Wired ==
    /\ \A r \in Requests : stage[r] = "idle" => draft[r] = NoDraft /\ status[r] = "ABSENT"
    /\ \A r \in Requests : stage[r] \in {"storing", "ready", "committed"} => draft[r] # NoDraft
    /\ \A r \in Requests : stage[r] \in {"storing", "ready"} => status[r] = "ABSENT"
    /\ \A r \in Requests : status[r] # "ABSENT" => draft[r] # NoDraft
    /\ \A w \in Workers : wk[w].at # "idle" =>
          wk[w].job \in Requests /\ status[wk[w].job] # "ABSENT"
    /\ \A w \in Workers : wk[w].at = "idle" => wk[w].job = NoRequest

\* A number a run has chosen follows a committed one, and one it has inserted is its own.
NumbersClaimed ==
    /\ \A w \in Workers : wk[w].at \in {"numbered", "inserted"} =>
          /\ wk[w].number >= 1
          /\ wk[w].number > 1 =>
                \E v \in VersionsOf(draft[wk[w].job].project) : v.number = wk[w].number - 1
    /\ \A w \in Workers : wk[w].at = "inserted" => ~NumberTaken(w) /\ ~NumberPending(w)

\* A task stays a task when it moves on.
LEMMA TaskMoves ==
  ASSUME NEW t \in Tasks, NEW n \in Nat,
         NEW a \in {"idle", "loaded", "running", "saved", "numbered", "inserted"}
  PROVE  /\ [t EXCEPT !.at = a] \in Tasks
         /\ [t EXCEPT !.at = a, !.number = n] \in Tasks
         /\ [t EXCEPT !.at = a, !.seen = "PROCESSING"] \in Tasks
<1>1. "PROCESSING" \in Statuses
  BY DEF Statuses
<1>2. QED
  BY <1>1 DEF Tasks

\* A loaded task, and the absence of one, are tasks.
LEMMA TaskMade ==
  /\ NoTask \in Tasks
  /\ \A r \in Requests, s \in Statuses, n \in Nat :
        [at |-> "loaded", job |-> r, seen |-> s, run |-> n, number |-> 0] \in Tasks
  BY DEF Tasks, NoTask, Statuses

\* Setting a status and adding its row keep both columns typed.
LEMMA LogGrows ==
  ASSUME TypeOK, NEW r, NEW s \in {"PROCESSING", "COMPLETED", "FAILED"}
  PROVE  /\ [status EXCEPT ![r] = s] \in [Requests -> Statuses]
         /\ [log EXCEPT ![r] = Append(@, s)] \in [Requests -> Seq(Statuses)]
<1>1. s \in Statuses
  BY DEF Statuses, Terminal
<1>2. \A l \in Seq(Statuses) : Append(l, s) \in Seq(Statuses)
  BY <1>1
<1>3. QED
  BY <1>1, <1>2 DEF TypeOK

\* Keys of uploads and of runs are keys.
LEMMA KeysMade ==
  /\ \A r \in Requests : OriginalKey(r) \in Keys
  /\ \A w \in Workers : wk[w] \in Tasks /\ wk[w].job \in Requests =>
        GeneratedKey(wk[w].job, wk[w].run) \in Keys
  BY DEF OriginalKey, GeneratedKey, Keys, Tasks

\* The row a run is about to commit is a version.
LEMMA NewVersionTyped ==
  ASSUME TypeOK, Wired, NumbersClaimed, NEW w \in Workers, wk[w].at = "inserted"
  PROVE  NewVersion(w) \in Versions
<1>1. wk[w] \in Tasks /\ wk[w].job \in Requests /\ wk[w].number \in Nat \ {0}
  BY DEF TypeOK, Wired, NumbersClaimed, Tasks
<1>2. draft[wk[w].job] \in Drafts
  BY <1>1 DEF TypeOK, Wired
<1>3. QED
  BY <1>1, <1>2 DEF NewVersion, Versions, Drafts, Tasks

\* Init and every step keep the types, and the wiring of requests, rows and tasks.
LEMMA TypedStep == TypeOK /\ Wired /\ NumbersClaimed /\ [Next]_vars => TypeOK'
<1> SUFFICES ASSUME TypeOK, Wired, NumbersClaimed, [Next]_vars PROVE TypeOK'
  OBVIOUS
<1> USE DEF vars, apiVars, jobVars, storeVars, brokerVars, faultVars
<1>1. ASSUME NEW o \in Orgs, NEW p \in Projects, CreateProject(o, p) PROVE TypeOK'
  BY <1>1 DEF TypeOK, CreateProject
<1>2. ASSUME NEW r \in Requests, NEW o \in Orgs, NEW p \in Projects, BeginUpload(r, o, p) PROVE TypeOK'
  BY <1>2 DEF TypeOK, BeginUpload, Drafts, Kinds, OriginalKey, Keys
<1>3. ASSUME NEW r \in Requests, NEW o \in Orgs, NEW p \in Projects, BeginGenerate(r, o, p) PROVE TypeOK'
  BY <1>3 DEF TypeOK, BeginGenerate, Drafts, Kinds, Originals, OwnedProject
<1>4. ASSUME NEW r \in Requests, RejectUpload(r) PROVE TypeOK'
  BY <1>4 DEF TypeOK, RejectUpload
<1>5. ASSUME NEW r \in Requests, StoreUpload(r) PROVE TypeOK'
  BY <1>5 DEF TypeOK, StoreUpload
<1>6. ASSUME NEW r \in Requests, CommitJob(r) PROVE TypeOK'
  BY <1>6 DEF TypeOK, CommitJob, OriginalKey, Keys, Statuses
<1>7. ASSUME NEW r \in Requests, Publish(r) PROVE TypeOK'
  BY <1>7 DEF TypeOK, Publish
<1>8. ASSUME NEW r \in Requests, RequestDies(r) PROVE TypeOK'
  BY <1>8 DEF TypeOK, RequestDies
<1>9. ASSUME NEW o \in Orgs, NEW v \in versions, SaveVersion(o, v) PROVE TypeOK'
  BY <1>9 DEF TypeOK, SaveVersion, Versions
<1>10. ASSUME NEW w \in Workers, NEW r \in Requests, Receive(w, r) PROVE TypeOK'
  <2>1. wk' \in [Workers -> Tasks] /\ runs' \in [Requests -> Nat]
    BY <1>10, TaskMade DEF TypeOK, Receive, Load
  <2>2. queue' \in [Requests -> Nat]
    BY <1>10 DEF TypeOK, Receive
  <2>3. QED
    BY <1>10, <2>1, <2>2 DEF TypeOK, Receive
<1>11. ASSUME NEW w \in Workers, NEW r \in Requests, ReceiveCopy(w, r) PROVE TypeOK'
  <2>1. wk' \in [Workers -> Tasks] /\ runs' \in [Requests -> Nat]
    BY <1>11, TaskMade DEF TypeOK, ReceiveCopy, Load
  <2>2. QED
    BY <1>11, <2>1 DEF TypeOK, ReceiveCopy
<1>12. ASSUME NEW w \in Workers, Start(w) PROVE TypeOK'
  <2>1. wk' \in [Workers -> Tasks]
    BY <1>12, TaskMoves DEF TypeOK, Start
  <2>2. status' \in [Requests -> Statuses] /\ log' \in [Requests -> Seq(Statuses)]
    BY <1>12, LogGrows DEF TypeOK, Start
  <2>3. QED
    BY <1>12, <2>1, <2>2 DEF TypeOK, Start
<1>13. ASSUME NEW w \in Workers, CompleteAnalysis(w) PROVE TypeOK'
  <2>1. wk' \in [Workers -> Tasks]
    BY <1>13, TaskMade DEF TypeOK, CompleteAnalysis, Finish
  <2>2. output' \in [Requests -> Keys \cup {NoKey}]
    BY <1>13 DEF TypeOK, CompleteAnalysis, SourceReadable
  <2>3. "COMPLETED" \in Statuses
    BY DEF Statuses, Terminal
  <2>4. QED
    BY <1>13, <2>1, <2>2, <2>3 DEF TypeOK, CompleteAnalysis, Finish
<1>14. ASSUME NEW w \in Workers, FailRun(w) PROVE TypeOK'
  <2>1. wk' \in [Workers -> Tasks]
    BY <1>14, TaskMade DEF TypeOK, FailRun, Finish
  <2>2. files' \subseteq Keys
    BY <1>14, KeysMade DEF TypeOK, FailRun, Wired
  <2>3. status' \in [Requests -> Statuses] /\ log' \in [Requests -> Seq(Statuses)]
    BY <1>14, LogGrows DEF TypeOK, FailRun, Finish
  <2>4. QED
    BY <1>14, <2>1, <2>2, <2>3 DEF TypeOK, FailRun, Finish
<1>15. ASSUME NEW w \in Workers, SaveGenerated(w) PROVE TypeOK'
  <2>1. wk' \in [Workers -> Tasks]
    BY <1>15, TaskMoves DEF TypeOK, SaveGenerated
  <2>2. files' \subseteq Keys
    BY <1>15, KeysMade DEF TypeOK, SaveGenerated, Wired
  <2>3. QED
    BY <1>15, <2>1, <2>2 DEF TypeOK, SaveGenerated
<1>16. ASSUME NEW w \in Workers, ReadPrevious(w) PROVE TypeOK'
  <2>1. \A v \in versions : v.number + 1 \in Nat
    BY DEF TypeOK, Versions
  <2>2. PICK n \in Nat : wk' = [wk EXCEPT ![w].at = "numbered", ![w].number = n]
    BY <1>16, <2>1 DEF ReadPrevious, VersionsOf
  <2>3. wk' \in [Workers -> Tasks]
    BY <2>2, TaskMoves DEF TypeOK
  <2>4. QED
    BY <1>16, <2>3 DEF TypeOK, ReadPrevious
<1>17. ASSUME NEW w \in Workers, InsertVersion(w) PROVE TypeOK'
  <2>1. wk' \in [Workers -> Tasks]
    BY <1>17, TaskMoves DEF TypeOK, InsertVersion
  <2>2. QED
    BY <1>17, <2>1 DEF TypeOK, InsertVersion
<1>18. ASSUME NEW w \in Workers, VersionConflict(w) PROVE TypeOK'
  <2>1. wk' \in [Workers -> Tasks] /\ wk[w].job \in Requests
    BY <1>18, TaskMade DEF TypeOK, VersionConflict, Wired
  <2>2. QED
    BY <1>18, <2>1 DEF TypeOK, VersionConflict
<1>19. ASSUME NEW w \in Workers, CompleteGeneration(w) PROVE TypeOK'
  <2>1. wk' \in [Workers -> Tasks]
    BY <1>19, TaskMade DEF TypeOK, CompleteGeneration, Finish
  <2>2. GeneratedKey(wk[w].job, wk[w].run) \in Keys
    BY <1>19, KeysMade DEF TypeOK, CompleteGeneration, Wired
  <2>3. versions' \subseteq Versions
    BY <1>19, NewVersionTyped DEF TypeOK, CompleteGeneration
  <2>4. status' \in [Requests -> Statuses] /\ log' \in [Requests -> Seq(Statuses)]
    BY <1>19, LogGrows DEF TypeOK, CompleteGeneration, Finish
  <2>5. QED
    BY <1>19, <2>1, <2>2, <2>3, <2>4 DEF TypeOK, CompleteGeneration, Finish
<1>20. ASSUME NEW w \in Workers, WorkerDies(w) PROVE TypeOK'
  <2>1. wk' \in [Workers -> Tasks] /\ wk[w].job \in Requests
    BY <1>20, TaskMade DEF TypeOK, WorkerDies, Wired
  <2>2. QED
    BY <1>20, <2>1 DEF TypeOK, WorkerDies
<1>21. CASE UNCHANGED vars
  BY <1>21 DEF TypeOK
<1>22. QED
  BY <1>1, <1>2, <1>3, <1>4, <1>5, <1>6, <1>7, <1>8, <1>9, <1>10, <1>11, <1>12, <1>13, <1>14, <1>15, <1>16, <1>17, <1>18, <1>19, <1>20, <1>21 DEF Next, RequestStep, WorkerStep

\* Every step keeps requests, rows and tasks wired.
LEMMA WiredStep == TypeOK /\ Wired /\ [Next]_vars => Wired'
<1> SUFFICES ASSUME TypeOK, Wired, [Next]_vars PROVE Wired'
  OBVIOUS
<1> USE DEF vars, apiVars, jobVars, storeVars, brokerVars, faultVars
<1>1. ASSUME NEW o \in Orgs, NEW p \in Projects, CreateProject(o, p) PROVE Wired'
  BY <1>1 DEF TypeOK, Wired, CreateProject
<1>2. ASSUME NEW r \in Requests, NEW o \in Orgs, NEW p \in Projects, BeginUpload(r, o, p) PROVE Wired'
  BY <1>2 DEF TypeOK, Wired, BeginUpload, NoDraft
<1>3. ASSUME NEW r \in Requests, NEW o \in Orgs, NEW p \in Projects, BeginGenerate(r, o, p) PROVE Wired'
  BY <1>3 DEF TypeOK, Wired, BeginGenerate, NoDraft
<1>4. ASSUME NEW r \in Requests, RejectUpload(r) PROVE Wired'
  BY <1>4 DEF TypeOK, Wired, RejectUpload
<1>5. ASSUME NEW r \in Requests, StoreUpload(r) PROVE Wired'
  BY <1>5 DEF TypeOK, Wired, StoreUpload
<1>6. ASSUME NEW r \in Requests, CommitJob(r) PROVE Wired'
  BY <1>6 DEF TypeOK, Wired, CommitJob
<1>7. ASSUME NEW r \in Requests, Publish(r) PROVE Wired'
  BY <1>7 DEF TypeOK, Wired, Publish
<1>8. ASSUME NEW r \in Requests, RequestDies(r) PROVE Wired'
  BY <1>8 DEF TypeOK, Wired, RequestDies
<1>9. ASSUME NEW o \in Orgs, NEW v \in versions, SaveVersion(o, v) PROVE Wired'
  BY <1>9 DEF TypeOK, Wired, SaveVersion
<1>10. ASSUME NEW w \in Workers, NEW r \in Requests, Receive(w, r) PROVE Wired'
  BY <1>10 DEF TypeOK, Wired, Receive, Load
<1>11. ASSUME NEW w \in Workers, NEW r \in Requests, ReceiveCopy(w, r) PROVE Wired'
  BY <1>11 DEF TypeOK, Wired, ReceiveCopy, Load
<1>12. ASSUME NEW w \in Workers, Start(w) PROVE Wired'
  BY <1>12 DEF TypeOK, Wired, Start
<1>13. ASSUME NEW w \in Workers, CompleteAnalysis(w) PROVE Wired'
  BY <1>13 DEF TypeOK, Wired, CompleteAnalysis, Finish, NoTask
<1>14. ASSUME NEW w \in Workers, FailRun(w) PROVE Wired'
  BY <1>14 DEF TypeOK, Wired, FailRun, Finish, NoTask
<1>15. ASSUME NEW w \in Workers, SaveGenerated(w) PROVE Wired'
  BY <1>15 DEF TypeOK, Wired, SaveGenerated
<1>16. ASSUME NEW w \in Workers, ReadPrevious(w) PROVE Wired'
  <2>1. PICK n : wk' = [wk EXCEPT ![w].at = "numbered", ![w].number = n]
    BY <1>16 DEF ReadPrevious
  <2>2. \A u \in Workers : wk'[u].job = wk[u].job /\ (wk'[u].at = "idle" <=> wk[u].at = "idle")
    BY <1>16, <2>1 DEF TypeOK, Tasks, ReadPrevious
  <2>3. QED
    BY <1>16, <2>2 DEF Wired, ReadPrevious
<1>17. ASSUME NEW w \in Workers, InsertVersion(w) PROVE Wired'
  BY <1>17 DEF TypeOK, Wired, InsertVersion
<1>18. ASSUME NEW w \in Workers, VersionConflict(w) PROVE Wired'
  BY <1>18 DEF TypeOK, Wired, VersionConflict, NoTask
<1>19. ASSUME NEW w \in Workers, CompleteGeneration(w) PROVE Wired'
  BY <1>19 DEF TypeOK, Wired, CompleteGeneration, Finish, NoTask
<1>20. ASSUME NEW w \in Workers, WorkerDies(w) PROVE Wired'
  BY <1>20 DEF TypeOK, Wired, WorkerDies, NoTask
<1>21. CASE UNCHANGED vars
  BY <1>21 DEF Wired
<1>22. QED
  BY <1>1, <1>2, <1>3, <1>4, <1>5, <1>6, <1>7, <1>8, <1>9, <1>10, <1>11, <1>12, <1>13, <1>14, <1>15, <1>16, <1>17, <1>18, <1>19, <1>20, <1>21 DEF Next, RequestStep, WorkerStep

\* What a handler has drafted stays as it is.
LEMMA DraftsKept ==
  TypeOK /\ Wired /\ [Next]_vars =>
     \A r \in Requests : draft[r] # NoDraft => draft'[r] = draft[r]
<1> SUFFICES ASSUME TypeOK, Wired, [Next]_vars, NEW r \in Requests, draft[r] # NoDraft
             PROVE  draft'[r] = draft[r]
  OBVIOUS
<1> USE DEF vars, apiVars, jobVars, storeVars, brokerVars, faultVars
<1>1. ASSUME NEW s \in Requests, NEW o \in Orgs, NEW p \in Projects,
             BeginUpload(s, o, p) \/ BeginGenerate(s, o, p)
      PROVE  draft'[r] = draft[r]
  BY <1>1 DEF TypeOK, Wired, BeginUpload, BeginGenerate
<1>2. CASE draft' = draft
  BY <1>2
<1>3. QED
  BY <1>1, <1>2 DEF Next, RequestStep, WorkerStep, CreateProject, RejectUpload, StoreUpload,
     CommitJob, Publish, RequestDies, SaveVersion, Receive, ReceiveCopy, Start,
     CompleteAnalysis, FailRun, SaveGenerated, ReadPrevious, InsertVersion,
     VersionConflict, CompleteGeneration, WorkerDies

\* A step that adds no version and gives no run a number.
Claiming(w) == wk[w].at \in {"numbered", "inserted"}
Quiet ==
    /\ versions' = versions
    /\ \A w \in Workers : Claiming(w)' => wk'[w] = wk[w]

\* A claiming run has a draft, and keeps its project through a step.
LEMMA ClaimsHaveProjects ==
  ASSUME TypeOK, Wired, [Next]_vars, NEW w \in Workers, Claiming(w)
  PROVE  /\ wk[w].job \in Requests
         /\ draft[wk[w].job] \in Drafts
         /\ draft'[wk[w].job] = draft[wk[w].job]
  BY DraftsKept DEF TypeOK, Wired, Claiming

\* Numbering survives a quiet step.
LEMMA QuietKeepsNumbers ==
  ASSUME TypeOK, Wired, NumbersClaimed, VersionsNumberedInOrder, [Next]_vars, Quiet
  PROVE  NumbersClaimed' /\ VersionsNumberedInOrder'
<1>1. VersionsNumberedInOrder'
  BY DEF Quiet, VersionsNumberedInOrder
<1>2. \A w \in Workers : Claiming(w)' =>
         /\ wk'[w] = wk[w] /\ Claiming(w)
         /\ draft'[wk[w].job] = draft[wk[w].job]
  BY ClaimsHaveProjects DEF Quiet, Claiming
<1>3. QED
  BY <1>1, <1>2 DEF NumbersClaimed, NumberTaken, NumberPending, VersionsOf, Quiet, Claiming

\* Numbering survives every step: the four steps that are not quiet, one by one.
LEMMA NumbersStep ==
  TypeOK /\ Wired /\ NumbersClaimed /\ VersionsNumberedInOrder /\ [Next]_vars
     => NumbersClaimed' /\ VersionsNumberedInOrder'
<1> SUFFICES ASSUME TypeOK, Wired, NumbersClaimed, VersionsNumberedInOrder, [Next]_vars
             PROVE  NumbersClaimed' /\ VersionsNumberedInOrder'
  OBVIOUS
<1> USE DEF vars, apiVars, jobVars, storeVars, brokerVars, faultVars
<1>1. CASE Quiet
  BY <1>1, QuietKeepsNumbers
<1>2. ASSUME NEW o \in Orgs, NEW v \in versions, SaveVersion(o, v)
      PROVE  NumbersClaimed' /\ VersionsNumberedInOrder'
  <2>1. PICK new : /\ new.project = v.project /\ new.number = v.number
                   /\ versions' = (versions \ {v}) \cup {new}
    <3>1. LET new == [v EXCEPT !.saved = TRUE]
          IN  new.project = v.project /\ new.number = v.number
      BY DEF TypeOK, Versions
    <3>2. QED
      BY <1>2, <3>1 DEF SaveVersion
  <2>2. wk' = wk /\ draft' = draft
    BY <1>2 DEF SaveVersion
  <2>3. \A u \in versions' : \E x \in versions :
           u.project = x.project /\ u.number = x.number /\ (u = x \/ (u = new /\ x = v))
    BY <2>1
  <2>4. \A x \in versions : \E u \in versions' : u.project = x.project /\ u.number = x.number
    BY <2>1
  <2>5. VersionsNumberedInOrder'
    <3>1. ASSUME NEW x \in versions', NEW y \in versions',
                 x.project = y.project, x.number = y.number
          PROVE  x = y
      BY <2>1, <3>1 DEF VersionsNumberedInOrder
    <3>2. ASSUME NEW x \in versions', x.number > 1
          PROVE  \E y \in versions' : y.project = x.project /\ y.number = x.number - 1
      <4>1. PICK z \in versions : z.project = x.project /\ z.number = x.number
        BY <2>3
      <4>2. PICK y \in versions : y.project = x.project /\ y.number = x.number - 1
        BY <3>2, <4>1 DEF VersionsNumberedInOrder
      <4>3. QED
        BY <2>4, <4>2
    <3>3. QED
      BY <3>1, <3>2 DEF VersionsNumberedInOrder
  <2>6. NumbersClaimed'
    BY <2>2, <2>3, <2>4 DEF NumbersClaimed, NumberTaken, NumberPending, VersionsOf
  <2>7. QED
    BY <2>5, <2>6
<1>3. ASSUME NEW w \in Workers, ReadPrevious(w)
      PROVE  NumbersClaimed' /\ VersionsNumberedInOrder'
  <2> DEFINE taken == VersionsOf(draft[wk[w].job].project)
  <2> DEFINE Chosen(n) == /\ wk'[w].at = "numbered" /\ wk'[w].number = n
                          /\ wk'[w].job = wk[w].job
                          /\ \A u \in Workers \ {w} : wk'[u] = wk[u]
  <2>1. ASSUME NEW n, wk' = [wk EXCEPT ![w].at = "numbered", ![w].number = n]
        PROVE  Chosen(n)
    BY <2>1 DEF TypeOK, Tasks
  <2> HIDE DEF Chosen
  <2>2. PICK n \in Nat : Chosen(n) /\ n >= 1 /\ (n > 1 => \E v \in taken : v.number = n - 1)
    <3>1. CASE wk' = [wk EXCEPT ![w].at = "numbered", ![w].number = 1]
      <4>1. Chosen(1)
        BY <2>1, <3>1
      <4>2. QED
        BY <4>1
    <3>2. ASSUME NEW u \in taken,
                 wk' = [wk EXCEPT ![w].at = "numbered", ![w].number = u.number + 1]
          PROVE  \E n \in Nat :
                    Chosen(n) /\ n >= 1 /\ (n > 1 => \E v \in taken : v.number = n - 1)
      <4>1. u.number \in Nat /\ u.number + 1 - 1 = u.number
        BY DEF TypeOK, VersionsOf, Versions
      <4>2. Chosen(u.number + 1)
        BY <2>1, <3>2
      <4>3. QED
        BY <4>1, <4>2
    <3>3. QED
      BY <1>3, <3>1, <3>2 DEF ReadPrevious
  <2>3. versions' = versions /\ draft' = draft
    BY <1>3 DEF ReadPrevious
  <2>4. NumbersClaimed'
    BY <2>2, <2>3 DEF Chosen, NumbersClaimed, NumberTaken, NumberPending, VersionsOf
  <2>5. QED
    BY <2>3, <2>4 DEF VersionsNumberedInOrder
<1>4. ASSUME NEW w \in Workers, InsertVersion(w)
      PROVE  NumbersClaimed' /\ VersionsNumberedInOrder'
  <2>1. /\ wk'[w].at = "inserted" /\ wk[w].at = "numbered"
        /\ wk'[w].number = wk[w].number /\ wk'[w].job = wk[w].job
        /\ \A u \in Workers \ {w} : wk'[u] = wk[u]
    BY <1>4 DEF TypeOK, Tasks, InsertVersion
  <2>2. versions' = versions /\ draft' = draft /\ ~NumberTaken(w) /\ ~NumberPending(w)
    BY <1>4 DEF InsertVersion
  <2>3. NumbersClaimed'
    BY <2>1, <2>2 DEF NumbersClaimed, NumberTaken, NumberPending, VersionsOf
  <2>4. QED
    BY <2>2, <2>3 DEF VersionsNumberedInOrder
<1>5. ASSUME NEW w \in Workers, CompleteGeneration(w)
      PROVE  NumbersClaimed' /\ VersionsNumberedInOrder'
  <2> DEFINE new == NewVersion(w)
  <2>1. /\ new.project = draft[wk[w].job].project /\ new.number = wk[w].number
        /\ new \in Versions
    BY <1>5, NewVersionTyped DEF NewVersion, CompleteGeneration
  <2>2. versions' = versions \cup {new} /\ draft' = draft
    BY <1>5 DEF CompleteGeneration
  <2>3. wk'[w].at = "idle" /\ \A u \in Workers \ {w} : wk'[u] = wk[u]
    BY <1>5 DEF TypeOK, CompleteGeneration, Finish, NoTask
  <2>4. /\ ~NumberTaken(w) /\ ~NumberPending(w)
        /\ wk[w].number > 1 =>
              \E v \in VersionsOf(draft[wk[w].job].project) : v.number = wk[w].number - 1
    BY <1>5 DEF NumbersClaimed, CompleteGeneration
  <2>5. VersionsNumberedInOrder'
    BY <2>1, <2>2, <2>4 DEF VersionsNumberedInOrder, NumberTaken, VersionsOf
  <2>6. \A u \in Workers : wk'[u].at = "inserted" =>
           /\ u # w /\ wk[u].at = "inserted"
           /\ ~(draft[wk[u].job].project = new.project /\ wk[u].number = new.number)
    BY <1>5, <2>1, <2>3 DEF NumbersClaimed, NumberPending, CompleteGeneration
  <2>7. NumbersClaimed'
    BY <2>2, <2>3, <2>6 DEF NumbersClaimed, NumberTaken, NumberPending, VersionsOf
  <2>8. QED
    BY <2>5, <2>7
<1>6. CASE UNCHANGED <<versions, wk>>
  BY <1>1, <1>6 DEF Quiet, Claiming
<1>7. ASSUME NEW w \in Workers, NEW t, versions' = versions,
             wk' = [wk EXCEPT ![w] = t], t.at \notin {"numbered", "inserted"}
      PROVE  Quiet
  BY <1>7 DEF TypeOK, Quiet, Claiming
<1>8. ASSUME NEW w \in Workers, NEW r \in Requests, Receive(w, r) \/ ReceiveCopy(w, r)
      PROVE  Quiet
  BY <1>6, <1>8 DEF TypeOK, Quiet, Claiming, Receive, ReceiveCopy, Load
<1>9. ASSUME NEW w \in Workers,
             CompleteAnalysis(w) \/ FailRun(w) \/ VersionConflict(w) \/ WorkerDies(w)
      PROVE  Quiet
  BY <1>7, <1>9 DEF CompleteAnalysis, FailRun, VersionConflict, WorkerDies, Finish, NoTask
<1>10. ASSUME NEW w \in Workers, Start(w) \/ SaveGenerated(w)
       PROVE  Quiet
  <2>1. /\ wk'[w].at \in {"running", "saved"}
        /\ \A u \in Workers \ {w} : wk'[u] = wk[u]
    BY <1>10 DEF TypeOK, Tasks, Start, SaveGenerated
  <2>2. QED
    BY <1>10, <2>1 DEF Quiet, Claiming, Start, SaveGenerated
<1>11. QED
  BY <1>1, <1>2, <1>3, <1>4, <1>5, <1>6, <1>8, <1>9, <1>10 DEF Next, RequestStep, WorkerStep,
     CreateProject, BeginUpload, BeginGenerate, RejectUpload, StoreUpload, CommitJob,
     Publish, RequestDies

\* No step drops a job, for any number of workers, faults and redeliveries.
LEMMA CarriedStep ==
  TypeOK /\ Wired /\ OnlyFaultsStrandJobs /\ [Next]_vars => OnlyFaultsStrandJobs'
<1> SUFFICES ASSUME TypeOK, Wired, OnlyFaultsStrandJobs, [Next]_vars, NEW r \in Requests,
                    status'[r] \in {"QUEUED", "PROCESSING"}
             PROVE  Carried(r)' \/ r \in abandoned'
  BY DEF OnlyFaultsStrandJobs
<1> USE DEF vars, apiVars, jobVars, storeVars, brokerVars, faultVars
<1>1. CASE /\ UNCHANGED <<queue, wk>> /\ abandoned \subseteq abandoned'
           /\ status'[r] = status[r]
           /\ stage'[r] = stage[r] \/ stage[r] \in {"idle", "storing", "ready"}
  BY <1>1 DEF OnlyFaultsStrandJobs, Carried
<1>2. ASSUME NEW s \in Requests, NEW o \in Orgs, NEW p \in Projects,
             BeginUpload(s, o, p) \/ BeginGenerate(s, o, p) \/ CreateProject(o, p)
      PROVE  Carried(r)' \/ r \in abandoned'
  BY <1>1, <1>2 DEF TypeOK, BeginUpload, BeginGenerate, CreateProject
<1>3. ASSUME NEW s \in Requests, RequestStep(s) \/ RequestDies(s)
      PROVE  Carried(r)' \/ r \in abandoned'
  <2>1. CASE RejectUpload(s) \/ StoreUpload(s)
    BY <1>1, <2>1 DEF TypeOK, RejectUpload, StoreUpload
  <2>2. CASE CommitJob(s)
    BY <2>2 DEF TypeOK, OnlyFaultsStrandJobs, Carried, CommitJob
  <2>3. CASE Publish(s)
    BY <2>3 DEF TypeOK, OnlyFaultsStrandJobs, Carried, Publish
  <2>4. CASE RequestDies(s)
    BY <2>4 DEF TypeOK, OnlyFaultsStrandJobs, Carried, RequestDies
  <2>5. QED
    BY <1>3, <2>1, <2>2, <2>3, <2>4 DEF RequestStep
<1>4. ASSUME NEW o \in Orgs, NEW v \in versions, SaveVersion(o, v)
      PROVE  Carried(r)' \/ r \in abandoned'
  BY <1>1, <1>4 DEF SaveVersion
<1>5. ASSUME NEW w \in Workers, NEW s \in Requests, Receive(w, s) \/ ReceiveCopy(w, s)
      PROVE  Carried(r)' \/ r \in abandoned'
  <2>1. status' = status /\ stage' = stage /\ abandoned' = abandoned
    BY <1>5 DEF Receive, ReceiveCopy
  <2>2. \A q \in Requests \ {s} : queue'[q] = queue[q]
    BY <1>5 DEF TypeOK, Receive, ReceiveCopy
  <2>3. wk[w].job = NoRequest /\ \A u \in Workers \ {w} : wk'[u] = wk[u]
    BY <1>5 DEF TypeOK, Wired, Receive, ReceiveCopy, Load
  <2>4. status[s] # "ABSENT" => wk'[w].job = s
    BY <1>5 DEF TypeOK, Receive, ReceiveCopy, Load
  <2>5. QED
    BY <2>1, <2>2, <2>3, <2>4, NoRequestIsNull DEF OnlyFaultsStrandJobs, Carried
<1>6. ASSUME NEW w \in Workers,
             Start(w) \/ SaveGenerated(w) \/ ReadPrevious(w) \/ InsertVersion(w)
      PROVE  Carried(r)' \/ r \in abandoned'
  <2>1. \A u \in Workers : wk'[u].job = wk[u].job
    <3>1. ASSUME ReadPrevious(w) PROVE \A u \in Workers : wk'[u].job = wk[u].job
      <4>1. PICK n : wk' = [wk EXCEPT ![w].at = "numbered", ![w].number = n]
        BY <3>1 DEF ReadPrevious
      <4>2. QED
        BY <4>1 DEF TypeOK, Tasks
    <3>2. CASE Start(w)
      BY <3>2 DEF TypeOK, Tasks, Start
    <3>3. CASE SaveGenerated(w)
      BY <3>3 DEF TypeOK, Tasks, SaveGenerated
    <3>4. CASE InsertVersion(w)
      BY <3>4 DEF TypeOK, Tasks, InsertVersion
    <3>5. QED
      BY <1>6, <3>1, <3>2, <3>3, <3>4
  <2>2. status'[r] = status[r] \/ wk[w].job = r
    BY <1>6 DEF TypeOK, Start, SaveGenerated, ReadPrevious, InsertVersion
  <2>3. UNCHANGED <<stage, queue, abandoned>>
    BY <1>6 DEF Start, SaveGenerated, ReadPrevious, InsertVersion
  <2>4. QED
    BY <2>1, <2>2, <2>3 DEF OnlyFaultsStrandJobs, Carried
<1>7. ASSUME NEW w \in Workers,
             CompleteAnalysis(w) \/ FailRun(w) \/ CompleteGeneration(w)
             \/ VersionConflict(w) \/ WorkerDies(w)
      PROVE  Carried(r)' \/ r \in abandoned'
  <2>1. \A u \in Workers \ {w} : wk'[u] = wk[u]
    BY <1>7 DEF TypeOK, CompleteAnalysis, FailRun, CompleteGeneration, VersionConflict,
       WorkerDies, Finish
  <2>2. /\ r # wk[w].job => status'[r] = status[r]
        /\ r = wk[w].job => r \in abandoned'
    BY <1>7 DEF TypeOK, CompleteAnalysis, FailRun, CompleteGeneration, VersionConflict,
       WorkerDies, Finish
  <2>3. UNCHANGED <<stage, queue>> /\ abandoned \subseteq abandoned'
    BY <1>7 DEF CompleteAnalysis, FailRun, CompleteGeneration, VersionConflict, WorkerDies
  <2>4. QED
    BY <2>1, <2>2, <2>3 DEF OnlyFaultsStrandJobs, Carried
<1>8. CASE UNCHANGED vars
  BY <1>1, <1>8
<1>9. QED
  BY <1>2, <1>3, <1>4, <1>5, <1>6, <1>7, <1>8 DEF Next, WorkerStep

-------------------------------------------------------------------------------
(***************************************************************************)
(* The theorems.                                                           *)
(***************************************************************************)
IInv ==
    /\ TypeOK /\ Wired
    /\ NumbersClaimed /\ VersionsNumberedInOrder
    /\ OnlyFaultsStrandJobs

\* The strengthening is inductive.
THEOREM Inductive == Spec => []IInv
<1>1. Init => IInv
  <2> SUFFICES ASSUME Init PROVE IInv
    OBVIOUS
  <2>1. TypeOK
    BY TaskMade DEF Init, TypeOK, Statuses
  <2>2. Wired /\ NumbersClaimed
    BY DEF Init, Wired, NumbersClaimed, NoTask
  <2>3. VersionsNumberedInOrder /\ OnlyFaultsStrandJobs
    BY DEF Init, VersionsNumberedInOrder, OnlyFaultsStrandJobs
  <2>4. QED
    BY <2>1, <2>2, <2>3 DEF IInv
<1>2. IInv /\ [Next]_vars => IInv'
  BY TypedStep, WiredStep, NumbersStep, CarriedStep DEF IInv
<1>3. QED
  BY <1>1, <1>2, PTL DEF Spec

\* Every reachable state is of its type.
THEOREM TypeCorrect == Spec => []TypeOK
  BY Inductive, PTL DEF IInv

\* Overlapping, repeated and interrupted runs number a project's versions 1, 2, 3, ...
THEOREM VersionsInOrder == Spec => []VersionsNumberedInOrder
  BY Inductive, PTL DEF IInv

\* A job is stopped short of an end by a fault or a version conflict, by nothing else.
THEOREM NoJobDropped == Spec => []OnlyFaultsStrandJobs
  BY Inductive, PTL DEF IInv

\* A job in nobody's hands is left alone for good: no run takes it up again, and what GET
\* /jobs/{id} shows of it stays.  So a job that a fault or a version conflict stopped in
\* PROCESSING stays there for ever (worker.py:41, 105), and one that has ended and has no
\* message left is final.
THEOREM LeftForGood ==
    Spec => [][\A r \in Requests : status[r] # "ABSENT" /\ ~Carried(r) =>
                  /\ ~Carried(r)'
                  /\ status'[r] = status[r] /\ log'[r] = log[r]
                  /\ output'[r] = output[r]]_vars
<1> USE DEF vars, apiVars, jobVars, storeVars, brokerVars, faultVars
<1>1. ASSUME TypeOK, Wired, Next, NEW r \in Requests, status[r] # "ABSENT", ~Carried(r)
      PROVE  /\ ~Carried(r)'
             /\ status'[r] = status[r] /\ log'[r] = log[r] /\ output'[r] = output[r]
  <2> DEFINE Same == status'[r] = status[r] /\ log'[r] = log[r] /\ output'[r] = output[r]
  <2>1. /\ stage[r] = "closed" /\ queue[r] = 0 /\ r # NoRequest
        /\ \A w \in Workers : wk[w].job # r
    BY <1>1, NoRequestIsNull DEF Wired, Carried, TypeOK
  <2>2. ASSUME stage'[r] # "committed", queue'[r] = 0, Same,
               \A w \in Workers : wk'[w].job # r
        PROVE  ~Carried(r)' /\ Same
    BY <2>2 DEF Carried
  <2>3. CASE \E o \in Orgs, p \in Projects : CreateProject(o, p)
    BY <2>1, <2>2, <2>3 DEF CreateProject
  <2>4. CASE \E s \in Requests, o \in Orgs, p \in Projects :
                BeginUpload(s, o, p) \/ BeginGenerate(s, o, p)
    BY <1>1, <2>1, <2>2, <2>4 DEF BeginUpload, BeginGenerate, TypeOK
  <2>5. ASSUME NEW s \in Requests, RequestStep(s) \/ RequestDies(s)
        PROVE  ~Carried(r)' /\ Same
    <3>1. s # r
      BY <2>1, <2>5 DEF RequestStep, RequestDies, RejectUpload, StoreUpload, CommitJob, Publish
    <3>2. stage'[r] = stage[r] /\ queue'[r] = queue[r] /\ wk' = wk
      BY <1>1, <2>5, <3>1
         DEF RequestStep, RequestDies, RejectUpload, StoreUpload, CommitJob, Publish, TypeOK
    <3>3. Same
      BY <1>1, <2>5, <3>1
         DEF RequestStep, RequestDies, RejectUpload, StoreUpload, CommitJob, Publish, TypeOK
    <3>. QED BY <2>1, <2>2, <3>2, <3>3
  <2>6. CASE \E o \in Orgs : \E v \in versions : SaveVersion(o, v)
    BY <2>1, <2>2, <2>6 DEF SaveVersion
  <2>7. ASSUME NEW w \in Workers, NEW s \in Requests, Receive(w, s) \/ ReceiveCopy(w, s)
        PROVE  ~Carried(r)' /\ Same
    <3>1. s # r /\ UNCHANGED <<stage, jobVars>>
      BY <2>1, <2>7 DEF Receive, ReceiveCopy
    <3>2. queue'[r] = queue[r]
      BY <1>1, <2>7, <3>1 DEF Receive, ReceiveCopy, TypeOK
    <3>3. \A u \in Workers : wk'[u].job # r
      <4>1. Load(w, s)
        BY <2>7 DEF Receive, ReceiveCopy
      <4>2. \A u \in Workers : wk'[u].job \in {wk[u].job, s}
        <5>1. CASE wk' = wk
          BY <5>1
        <5>2. CASE wk' = [wk EXCEPT ![w] = [at |-> "loaded", job |-> s, seen |-> status[s],
                                            run |-> runs[s] + 1, number |-> 0]]
          BY <1>1, <5>2 DEF TypeOK
        <5>. QED BY <4>1, <5>1, <5>2 DEF Load
      <4>. QED BY <2>1, <3>1, <4>2
    <3>. QED BY <2>1, <2>2, <3>1, <3>2, <3>3
  <2>8. ASSUME NEW w \in Workers,
               \/ Start(w) \/ CompleteAnalysis(w) \/ FailRun(w) \/ SaveGenerated(w)
               \/ ReadPrevious(w) \/ InsertVersion(w) \/ VersionConflict(w)
               \/ CompleteGeneration(w) \/ WorkerDies(w)
        PROVE  ~Carried(r)' /\ Same
    <3>1. wk[w].job # r /\ UNCHANGED <<stage, queue>>
      BY <2>1, <2>8 DEF Start, CompleteAnalysis, FailRun, SaveGenerated, ReadPrevious,
         InsertVersion, VersionConflict, CompleteGeneration, WorkerDies
    <3>2. Same
      <4>1. CASE Start(w)
        BY <1>1, <3>1, <4>1 DEF Start, TypeOK
      <4>2. CASE CompleteAnalysis(w) \/ FailRun(w)
        BY <1>1, <3>1, <4>2 DEF CompleteAnalysis, FailRun, Finish, TypeOK
      <4>3. CASE CompleteGeneration(w)
        BY <1>1, <3>1, <4>3 DEF CompleteGeneration, Finish, TypeOK
      <4>4. CASE \/ SaveGenerated(w) \/ ReadPrevious(w) \/ InsertVersion(w)
                 \/ VersionConflict(w) \/ WorkerDies(w)
        <5>1. UNCHANGED jobVars
          BY <4>4 DEF SaveGenerated, ReadPrevious, InsertVersion, VersionConflict, WorkerDies
        <5>. QED BY <5>1
      <4>. QED BY <2>8, <4>1, <4>2, <4>3, <4>4
    <3>3. \A u \in Workers : wk'[u].job \in {wk[u].job, NoRequest}
      <4>1. CASE ReadPrevious(w)
        <5>1. PICK n : wk' = [wk EXCEPT ![w].at = "numbered", ![w].number = n]
          BY <4>1 DEF ReadPrevious
        <5>. QED BY <1>1, <5>1 DEF TypeOK, Tasks
      <4>2. CASE Start(w)
        BY <1>1, <4>2 DEF TypeOK, Tasks, Start
      <4>3. CASE SaveGenerated(w) \/ InsertVersion(w)
        <5>1. PICK a : wk' = [wk EXCEPT ![w].at = a]
          BY <4>3 DEF SaveGenerated, InsertVersion
        <5>. QED BY <1>1, <5>1 DEF TypeOK, Tasks
      <4>4. CASE CompleteAnalysis(w) \/ FailRun(w) \/ VersionConflict(w)
                 \/ CompleteGeneration(w) \/ WorkerDies(w)
        <5>1. wk' = [wk EXCEPT ![w] = NoTask]
          BY <4>4 DEF CompleteAnalysis, FailRun, VersionConflict, CompleteGeneration,
             WorkerDies, Finish
        <5>. QED BY <1>1, <5>1 DEF TypeOK, NoTask
      <4>. QED BY <2>8, <4>1, <4>2, <4>3, <4>4
    <3>. QED BY <2>1, <2>2, <3>1, <3>2, <3>3
  <2>. QED BY <1>1, <2>3, <2>4, <2>5, <2>6, <2>7, <2>8 DEF Next, WorkerStep
<1>2. IInv /\ [Next]_vars =>
        [\A r \in Requests : status[r] # "ABSENT" /\ ~Carried(r) =>
            /\ ~Carried(r)'
            /\ status'[r] = status[r] /\ log'[r] = log[r]
            /\ output'[r] = output[r]]_vars
  BY <1>1 DEF IInv
<1>. QED BY <1>2, Inductive, PTL DEF Spec
===============================================================================
