-------------------------- MODULE WorkflowLifecycle --------------------------
(***************************************************************************)
(* Workflows and their versions (backend/app/modules/workflows): drafting, *)
(* validation, approval, publication, rollback, archiving and execution.   *)
(*                                                                         *)
(* A handler reads the workflow row, then the version row, decides, and    *)
(* commits; handlers of different requests interleave between the three.   *)
(* No read locks a row, and the ORM's UPDATE carries only the columns      *)
(* whose new value differs from the one that was read.                     *)
(***************************************************************************)
EXTENDS Naturals

CONSTANTS
    Workflows,    \* (organisation, slug) pairs a workflow row can have
    Handlers,     \* requests being served at a time
    MaxVersions   \* bound: versions a workflow can have

ASSUME MaxVersionsType == MaxVersions \in Nat

VARIABLES
    status,       \* Workflow.status, "absent" while there is no row
    current,      \* Workflow.current_version
    pointer,      \* Workflow.published_version, 0 for null
    version,      \* WorkflowVersion.status of each (workflow, number)
    stamps,       \* which of validated_at, approved_at, published_at are set
    executions,   \* (workflow, number) pairs with a committed execution
    request       \* what each handler has read and is about to commit

rows == <<status, current, pointer, version, stamps, executions>>
vars == <<rows, request>>

Numbers  == 1 .. MaxVersions
Statuses == {"absent", "draft", "validated", "approved", "published", "archived"}
Stamps   == {"validated_at", "approved_at", "published_at"}
Operations == {"create_version", "validate", "approve", "publish", "rollback",
               "archive", "execute"}

\* What a handler has read: columns of the workflow, then of version number (0: not yet).
Reads == [op : Operations, wf : Workflows, status : Statuses, current : 0 .. MaxVersions,
          pointer : 0 .. MaxVersions, number : 0 .. MaxVersions, version : Statuses]
Idle == [op |-> "idle"]

Init ==
    /\ status = [f \in Workflows |-> "absent"]
    /\ current = [f \in Workflows |-> 0]
    /\ pointer = [f \in Workflows |-> 0]
    /\ version = [f \in Workflows |-> [n \in Numbers |-> "absent"]]
    /\ stamps = [f \in Workflows |-> [n \in Numbers |-> {}]]
    /\ executions = {}
    /\ request = [h \in Handlers |-> Idle]

-------------------------------------------------------------------------------
(***************************************************************************)
(* Reads, and the checks made on them.  A handler whose check fails answers *)
(* with an error and has written nothing: that is Abort.                   *)
(***************************************************************************)

\* POST /workflows.  A taken slug fails on the unique index.
CreateWorkflow(f) ==
    /\ status[f] = "absent"
    /\ status' = [status EXCEPT ![f] = "draft"]
    /\ UNCHANGED <<current, pointer, version, stamps, executions, request>>

\* The handler has read the row of workflow f.
ReadWorkflow(h, op, f) ==
    /\ request[h] = Idle
    /\ status[f] # "absent"
    /\ request' = [request EXCEPT ![h] =
          [op |-> op, wf |-> f, status |-> status[f], current |-> current[f],
           pointer |-> pointer[f], number |-> 0, version |-> "absent"]]
    /\ UNCHANGED rows

\* create_version refuses a published workflow.
BeginCreateVersion(h, f) ==
    /\ status[f] # "published"
    /\ current[f] < MaxVersions
    /\ ReadWorkflow(h, "create_version", f)

BeginPublish(h, f)  == ReadWorkflow(h, "publish", f)
BeginRollback(h, f) == ReadWorkflow(h, "rollback", f)
BeginArchive(h, f)  == status[f] # "archived" /\ ReadWorkflow(h, "archive", f)
BeginExecute(h, f)  ==
    /\ status[f] = "published" /\ pointer[f] # 0
    /\ ReadWorkflow(h, "execute", f)

\* validate_version and approve_version read the version alone.
ReadVersion(h, op, f, n) ==
    /\ request[h] = Idle
    /\ request' = [request EXCEPT ![h] =
          [op |-> op, wf |-> f, status |-> "absent", current |-> 0, pointer |-> 0,
           number |-> n, version |-> version[f][n]]]
    /\ UNCHANGED rows

\* The graph passed when the version was created, and its definition never changes.
BeginValidate(h, f, n) == version[f][n] # "absent" /\ ReadVersion(h, "validate", f, n)

\* Mutant: approval without validation.
BeginApproveUnvalidated(h, f, n) ==
    version[f][n] \in {"draft", "validated"} /\ ReadVersion(h, "approve", f, n)

BeginApprove(h, f, n) == version[f][n] = "validated" /\ ReadVersion(h, "approve", f, n)

Serving(h, op) == request[h] # Idle /\ request[h].op = op

\* The second read of a handler that has read the workflow.
Completed(q, n, v) == [q EXCEPT !.number = n, !.version = v]
PickVersion(h, n) ==
    /\ request[h].number = 0
    /\ request' = [request EXCEPT ![h] = Completed(@, n, version[request[h].wf][n])]
    /\ UNCHANGED rows

PickPublish(h, n) ==
    /\ Serving(h, "publish")
    /\ version[request[h].wf][n] = "approved"
    /\ PickVersion(h, n)

PickRollback(h, n) ==
    /\ Serving(h, "rollback")
    /\ version[request[h].wf][n] \in {"approved", "published"}
    /\ PickVersion(h, n)

PickArchive(h, n) ==
    /\ Serving(h, "archive") /\ n = request[h].pointer
    /\ PickVersion(h, n)

\* Mutant: the newest version is executed in place of the published one.
PickExecuteCurrent(h, n) ==
    /\ Serving(h, "execute") /\ n = request[h].current
    /\ PickVersion(h, n)

PickExecute(h, n) ==
    /\ Serving(h, "execute") /\ n = request[h].pointer
    /\ version[request[h].wf][n] = "published"
    /\ PickVersion(h, n)

-------------------------------------------------------------------------------
(***************************************************************************)
(* Commits: what the UPDATE and INSERT statements write.                   *)
(***************************************************************************)

\* A column is written when its new value differs from the value that was read.
Column(seen, new, stored) == IF new = seen THEN stored ELSE new

SetStatus(h, new) ==
    status' = [status EXCEPT ![request[h].wf] = Column(request[h].status, new, @)]
SetVersion(h, new) ==
    version' = [version EXCEPT ![request[h].wf][request[h].number] =
                   Column(request[h].version, new, @)]
Stamp(h, name) ==
    stamps' = [stamps EXCEPT ![request[h].wf][request[h].number] = @ \cup {name}]
Reply(h) == request' = [request EXCEPT ![h] = Idle]

\* Mutant: the insert overwrites a row with the same number.
CreateVersionUpsert(h) ==
    LET f == request[h].wf
        n == request[h].current + 1 IN
    /\ Serving(h, "create_version")
    /\ version' = [version EXCEPT ![f][n] = "draft"]
    /\ current' = [current EXCEPT ![f] = n]
    /\ SetStatus(h, "draft")
    /\ Reply(h)
    /\ UNCHANGED <<pointer, stamps, executions>>

\* Mutant: the counter is incremented in the database, and the duplicate row is skipped.
CreateVersionCounting(h) ==
    LET f == request[h].wf
        n == request[h].current + 1 IN
    /\ Serving(h, "create_version")
    /\ current[f] < MaxVersions
    /\ version' = [version EXCEPT ![f][n] = IF @ = "absent" THEN "draft" ELSE @]
    /\ current' = [current EXCEPT ![f] = @ + 1]
    /\ SetStatus(h, "draft")
    /\ Reply(h)
    /\ UNCHANGED <<pointer, stamps, executions>>

\* UniqueConstraint(workflow_id, version): of two handlers that read the same
\* current_version the second gets an error and writes nothing (Abort).
CreateVersion(h) ==
    LET f == request[h].wf
        n == request[h].current + 1 IN
    /\ Serving(h, "create_version")
    /\ version[f][n] = "absent"
    /\ version' = [version EXCEPT ![f][n] = "draft"]
    /\ current' = [current EXCEPT ![f] = n]
    /\ SetStatus(h, "draft")
    /\ Reply(h)
    /\ UNCHANGED <<pointer, stamps, executions>>

\* Mutant: the outcome of the validation is stored in place of the status.
ValidateAsValid(h) ==
    /\ Serving(h, "validate")
    /\ SetVersion(h, "valid") /\ Stamp(h, "validated_at")
    /\ Reply(h)
    /\ UNCHANGED <<status, current, pointer, executions>>

Validate(h) ==
    /\ Serving(h, "validate")
    /\ SetVersion(h, "validated") /\ Stamp(h, "validated_at")
    /\ Reply(h)
    /\ UNCHANGED <<status, current, pointer, executions>>

Approve(h) ==
    /\ Serving(h, "approve")
    /\ SetVersion(h, "approved") /\ Stamp(h, "approved_at")
    /\ Reply(h)
    /\ UNCHANGED <<status, current, pointer, executions>>

\* publish_version and rollback end in the same writes.
PointTo(h) ==
    /\ request[h].number # 0
    /\ SetVersion(h, "published") /\ Stamp(h, "published_at")
    /\ SetStatus(h, "published")
    /\ pointer' = [pointer EXCEPT ![request[h].wf] =
                       Column(request[h].pointer, request[h].number, @)]
    /\ Reply(h)
    /\ UNCHANGED <<current, executions>>

Publish(h)  == Serving(h, "publish") /\ PointTo(h)
Rollback(h) == Serving(h, "rollback") /\ PointTo(h)

\* Mutant: archiving clears the pointer.
ArchiveUnpointed(h) ==
    /\ Serving(h, "archive")
    /\ request[h].number = request[h].pointer
    /\ SetStatus(h, "archived")
    /\ IF request[h].number = 0 THEN UNCHANGED version ELSE SetVersion(h, "archived")
    /\ pointer' = [pointer EXCEPT ![request[h].wf] = Column(request[h].pointer, 0, @)]
    /\ Reply(h)
    /\ UNCHANGED <<current, stamps, executions>>

\* archive keeps the pointer, and archives the version it points at if there is one.
Archive(h) ==
    /\ Serving(h, "archive")
    /\ request[h].number = request[h].pointer
    /\ SetStatus(h, "archived")
    /\ IF request[h].number = 0 THEN UNCHANGED version ELSE SetVersion(h, "archived")
    /\ Reply(h)
    /\ UNCHANGED <<current, pointer, stamps, executions>>

\* The execution row, whatever its outcome, is committed with its steps at the end.
Execute(h) ==
    /\ Serving(h, "execute")
    /\ request[h].number # 0
    /\ executions' = executions \cup {<<request[h].wf, request[h].number>>}
    /\ Reply(h)
    /\ UNCHANGED <<status, current, pointer, version, stamps>>

\* A check or the commit fails, or the client goes away: the session rolls back.
Abort(h) == request[h] # Idle /\ Reply(h) /\ UNCHANGED rows

Begin(h, f) ==
    \/ BeginCreateVersion(h, f) \/ BeginPublish(h, f) \/ BeginRollback(h, f)
    \/ BeginArchive(h, f) \/ BeginExecute(h, f)
    \/ \E n \in Numbers : BeginValidate(h, f, n) \/ BeginApprove(h, f, n)

Pick(h, n) ==
    PickPublish(h, n) \/ PickRollback(h, n) \/ PickArchive(h, n) \/ PickExecute(h, n)

Commit(h) ==
    \/ CreateVersion(h) \/ Validate(h) \/ Approve(h) \/ Publish(h) \/ Rollback(h)
    \/ Archive(h) \/ Execute(h)

Next ==
    \/ \E f \in Workflows : CreateWorkflow(f)
    \/ \E h \in Handlers, f \in Workflows : Begin(h, f)
    \/ \E h \in Handlers, n \in Numbers : Pick(h, n)
    \/ \E h \in Handlers : Commit(h) \/ Abort(h)

Spec == Init /\ [][Next]_vars

-------------------------------------------------------------------------------
(***************************************************************************)
(* Properties.                                                             *)
(***************************************************************************)

\* Every variable holds a value of its type.
TypeOK ==
    /\ status \in [Workflows -> Statuses]
    /\ current \in [Workflows -> 0 .. MaxVersions]
    /\ pointer \in [Workflows -> 0 .. MaxVersions]
    /\ version \in [Workflows -> [Numbers -> Statuses]]
    /\ stamps \in [Workflows -> [Numbers -> SUBSET Stamps]]
    /\ executions \subseteq Workflows \X Numbers
    /\ request \in [Handlers -> Reads \cup {Idle}]

\* Whoever creates versions at the same time, a workflow's versions are numbered
\* 1 .. current_version without a gap.
VersionsContiguous ==
    \A f \in Workflows, n \in Numbers : version[f][n] # "absent" <=> n <= current[f]

\* No order of validations, approvals, publications and rollbacks gets a version
\* published, or keeps one published, that was not validated and approved.
PublishedWasApproved ==
    \A f \in Workflows, n \in Numbers :
        version[f][n] = "published" \/ "published_at" \in stamps[f][n] =>
            {"validated_at", "approved_at"} \subseteq stamps[f][n]

\* A published workflow points at a version that exists and has been published, also
\* after publish, rollback, archive and create_version have overtaken each other.
PublishedHasVersion ==
    \A f \in Workflows : status[f] = "published" =>
        /\ pointer[f] \in 1 .. current[f]
        /\ "published_at" \in stamps[f][pointer[f]]

\* Nothing runs that was not reviewed: every execution is of a version that was
\* validated, approved and published.
ExecutionsWereReviewed ==
    \A e \in executions : stamps[e[1]][e[2]] = Stamps

\* A version's number is given once and its review is never undone: no step turns an
\* existing version into a draft or clears one of its timestamps.
ReviewIsKept ==
    [][\A f \in Workflows, n \in Numbers :
          /\ version[f][n] \notin {"absent", "draft"} =>
                version'[f][n] \notin {"absent", "draft"}
          /\ stamps[f][n] \subseteq stamps'[f][n]]_vars

\* "each version immutable once published" (ARCHITECTURE.md:248): archiving is all that
\* can happen to a published version.
PublishedIsImmutable ==
    [][\A f \in Workflows, n \in Numbers :
          version[f][n] = "published" => version'[f][n] \in {"published", "archived"}]_vars
===============================================================================
