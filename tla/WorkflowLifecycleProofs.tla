------------------------ MODULE WorkflowLifecycleProofs ------------------------
(***************************************************************************)
(* Proofs about WorkflowLifecycle, for any workflows, any number of         *)
(* concurrent handlers and any bound on the versions.                      *)
(***************************************************************************)
EXTENDS WorkflowLifecycle, TLAPS

(***************************************************************************)
(* The inductive invariant.  What the rows promise is only kept because of *)
(* what a handler between its read and its commit may still rely on.       *)
(***************************************************************************)

\* The timestamps of a version come in order, only an existing version has any, and
\* the status of a version never says more than its timestamps.
Reviewed ==
    \A f \in Workflows, n \in Numbers :
        /\ stamps[f][n] # {} => n <= current[f]
        /\ "approved_at" \in stamps[f][n] => "validated_at" \in stamps[f][n]
        /\ "published_at" \in stamps[f][n] => "approved_at" \in stamps[f][n]
        /\ version[f][n] = "validated" => "validated_at" \in stamps[f][n]
        /\ version[f][n] = "approved" => "approved_at" \in stamps[f][n]
        /\ version[f][n] \in {"published", "archived"} => "published_at" \in stamps[f][n]

Pointed ==
    \A f \in Workflows :
        /\ status[f] = "published" => pointer[f] # 0
        /\ pointer[f] # 0 => "published_at" \in stamps[f][pointer[f]]

\* What was read stays true of the rows until the commit, whoever commits in between.
StillTrue(q) ==
    /\ q.op = "create_version" => q.current < MaxVersions
    /\ q.op \in {"validate", "approve"} => q.number # 0
    /\ q.current <= current[q.wf]
    /\ q.pointer # 0 => /\ pointer[q.wf] # 0
                        /\ "published_at" \in stamps[q.wf][q.pointer]
    /\ q.number # 0 =>
          /\ q.number <= current[q.wf]
          /\ q.op = "approve" => "validated_at" \in stamps[q.wf][q.number]
          /\ q.op \in {"publish", "rollback"} => "approved_at" \in stamps[q.wf][q.number]
          /\ q.op = "execute" => "published_at" \in stamps[q.wf][q.number]
Reliable == \A h \in Handlers : request[h] # Idle => StillTrue(request[h])

IInv ==
    /\ TypeOK
    /\ VersionsContiguous
    /\ Reviewed
    /\ Pointed
    /\ ExecutionsWereReviewed
    /\ Reliable

-------------------------------------------------------------------------------
\* A handler that is not idle holds a complete read.
LEMMA ServingReads ==
    ASSUME TypeOK, NEW h \in Handlers, request[h] # Idle
    PROVE  request[h] \in Reads
BY DEF TypeOK

\* A first read is a read, and so is a first read completed by a version.
LEMMA ReadMade ==
    ASSUME NEW op \in Operations, NEW f \in Workflows, NEW s \in Statuses,
           NEW c \in 0 .. MaxVersions, NEW p \in 0 .. MaxVersions,
           NEW n \in 0 .. MaxVersions, NEW v \in Statuses
    PROVE  [op |-> op, wf |-> f, status |-> s, current |-> c, pointer |-> p,
            number |-> n, version |-> v] \in Reads
BY DEF Reads

LEMMA ReadCompleted ==
    ASSUME NEW q \in Reads, NEW n \in 0 .. MaxVersions, NEW v \in Statuses
    PROVE  /\ Completed(q, n, v) \in Reads
           /\ Completed(q, n, v).number = n
           /\ Completed(q, n, v).op = q.op
           /\ Completed(q, n, v).wf = q.wf
           /\ Completed(q, n, v).pointer = q.pointer
           /\ Completed(q, n, v).current = q.current
<1>1. Completed(q, n, v) \in Reads
    BY DEF Reads, Completed
<1>2. Completed(q, n, v).number = n
    BY DEF Reads, Completed
<1>3. Completed(q, n, v).op = q.op
    BY DEF Reads, Completed
<1>4. Completed(q, n, v).wf = q.wf
    BY DEF Reads, Completed
<1>5. Completed(q, n, v).pointer = q.pointer
    BY DEF Reads, Completed
<1>6. Completed(q, n, v).current = q.current
    BY DEF Reads, Completed
<1> QED
    BY <1>1, <1>2, <1>3, <1>4, <1>5, <1>6

\* Writing one version's column keeps the columns typed.
LEMMA CellTyped ==
    ASSUME NEW S, NEW F \in [Workflows -> [Numbers -> S]],
           NEW f \in Workflows, NEW n, NEW x, n \in Numbers => x \in S
    PROVE  [F EXCEPT ![f][n] = x] \in [Workflows -> [Numbers -> S]]
<1>1. [F[f] EXCEPT ![n] = x] \in [Numbers -> S]
    OBVIOUS
<1> QED
    BY <1>1

LEMMA WritesTyped ==
    ASSUME TypeOK, NEW h \in Handlers, request[h] # Idle,
           NEW s \in Statuses, NEW t \in Stamps
    PROVE  /\ SetStatus(h, s) => status' \in [Workflows -> Statuses]
           /\ SetVersion(h, s) => version' \in [Workflows -> [Numbers -> Statuses]]
           /\ Stamp(h, t) => stamps' \in [Workflows -> [Numbers -> SUBSET Stamps]]
           /\ Reply(h) => request' \in [Handlers -> Reads \cup {Idle}]
<1>1. SetStatus(h, s) => status' \in [Workflows -> Statuses]
    BY DEF SetStatus, Column, TypeOK
<1>2. SetVersion(h, s) => version' \in [Workflows -> [Numbers -> Statuses]]
    <2>1. request[h].wf \in Workflows
        BY ServingReads DEF Reads
    <2>2. PICK f, n, x : /\ f = request[h].wf /\ n = request[h].number
                         /\ x = Column(request[h].version, s, version[f][n])
        OBVIOUS
    <2>3. n \in Numbers => x \in Statuses
        BY <2>1, <2>2 DEF Column, TypeOK
    <2>4. [version EXCEPT ![f][n] = x] \in [Workflows -> [Numbers -> Statuses]]
        BY <2>1, <2>2, <2>3, CellTyped DEF TypeOK
    <2> QED
        BY <2>2, <2>4 DEF SetVersion
<1>3. Stamp(h, t) => stamps' \in [Workflows -> [Numbers -> SUBSET Stamps]]
    <2>1. request[h].wf \in Workflows
        BY ServingReads DEF Reads
    <2>2. PICK f, n, x : /\ f = request[h].wf /\ n = request[h].number
                         /\ x = stamps[f][n] \cup {t}
        OBVIOUS
    <2>3. n \in Numbers => x \in SUBSET Stamps
        BY <2>1, <2>2 DEF TypeOK
    <2>4. [stamps EXCEPT ![f][n] = x] \in [Workflows -> [Numbers -> SUBSET Stamps]]
        BY <2>1, <2>2, <2>3, CellTyped DEF TypeOK
    <2> QED
        BY <2>2, <2>4 DEF Stamp
<1>4. Reply(h) => request' \in [Handlers -> Reads \cup {Idle}]
    BY DEF Reply, TypeOK
<1> QED
    BY <1>1, <1>2, <1>3, <1>4

\* Both reads of a handler leave it with a complete read.
LEMMA BeginTyped ==
    ASSUME TypeOK, NEW h \in Handlers, NEW f \in Workflows, NEW op \in Operations
    PROVE  /\ ReadWorkflow(h, op, f) => request' \in [Handlers -> Reads \cup {Idle}]
           /\ \A n \in Numbers :
                 ReadVersion(h, op, f, n) => request' \in [Handlers -> Reads \cup {Idle}]
<1>1. /\ status[f] \in Statuses /\ current[f] \in 0 .. MaxVersions
      /\ pointer[f] \in 0 .. MaxVersions
      /\ \A n \in Numbers : version[f][n] \in Statuses /\ n \in 0 .. MaxVersions
      /\ "absent" \in Statuses /\ 0 \in 0 .. MaxVersions
    BY MaxVersionsType DEF TypeOK, Numbers, Statuses
<1>2. [op |-> op, wf |-> f, status |-> status[f], current |-> current[f],
       pointer |-> pointer[f], number |-> 0, version |-> "absent"] \in Reads
    BY <1>1, ReadMade
<1>3. \A n \in Numbers :
         [op |-> op, wf |-> f, status |-> "absent", current |-> 0, pointer |-> 0,
          number |-> n, version |-> version[f][n]] \in Reads
    BY <1>1, ReadMade
<1> QED
    BY <1>2, <1>3 DEF ReadWorkflow, ReadVersion, TypeOK

LEMMA PickTyped ==
    ASSUME TypeOK, NEW h \in Handlers, request[h] # Idle, NEW n \in Numbers,
           PickVersion(h, n)
    PROVE  request' \in [Handlers -> Reads \cup {Idle}]
<1>1. PICK q \in Reads : q = request[h]
    BY DEF TypeOK
<1>2. PICK v \in Statuses : v = version[request[h].wf][n]
    BY <1>1 DEF TypeOK, Reads
<1>3. n \in 0 .. MaxVersions
    BY MaxVersionsType DEF Numbers
<1>4. Completed(q, n, v) \in Reads
    BY <1>3, ReadCompleted
<1>5. request' = [request EXCEPT ![h] = Completed(q, n, v)]
    BY <1>1, <1>2 DEF PickVersion, TypeOK
<1> QED
    BY <1>4, <1>5 DEF TypeOK

LEMMA TypedStep == TypeOK /\ Reliable /\ [Next]_vars => TypeOK'
<1> SUFFICES ASSUME TypeOK, Reliable, [Next]_vars PROVE TypeOK'
    OBVIOUS
<1> USE DEF rows
<1>1. CASE UNCHANGED vars
    BY <1>1 DEF vars, TypeOK
<1>2. ASSUME NEW f \in Workflows, CreateWorkflow(f) PROVE TypeOK'
    BY <1>2 DEF CreateWorkflow, TypeOK, Statuses
<1>3. ASSUME NEW h \in Handlers, NEW f \in Workflows, Begin(h, f) PROVE TypeOK'
    <2>1. UNCHANGED rows
        BY <1>3 DEF Begin, BeginCreateVersion, BeginPublish, BeginRollback, BeginArchive,
                    BeginExecute, BeginValidate, BeginApprove, ReadWorkflow, ReadVersion
    <2>2. \/ \E op \in Operations : ReadWorkflow(h, op, f)
          \/ \E op \in Operations, n \in Numbers : ReadVersion(h, op, f, n)
        BY <1>3 DEF Begin, BeginCreateVersion, BeginPublish, BeginRollback, BeginArchive,
                    BeginExecute, BeginValidate, BeginApprove, Operations
    <2>3. request' \in [Handlers -> Reads \cup {Idle}]
        BY <2>2, BeginTyped
    <2> QED
        BY <2>1, <2>3 DEF TypeOK
<1>4. ASSUME NEW h \in Handlers, NEW n \in Numbers, Pick(h, n) PROVE TypeOK'
    <2>1. PickVersion(h, n) /\ request[h] # Idle
        BY <1>4 DEF Pick, PickPublish, PickRollback, PickArchive, PickExecute, Serving
    <2>2. request' \in [Handlers -> Reads \cup {Idle}]
        BY <2>1, PickTyped
    <2> QED
        BY <2>1, <2>2 DEF TypeOK, PickVersion
<1>5. ASSUME NEW h \in Handlers, Commit(h) PROVE TypeOK'
    <2>1. request[h] # Idle /\ Reply(h)
        BY <1>5 DEF Commit, CreateVersion, Validate, Approve, Publish, Rollback, PointTo,
                    Archive, Execute, Serving
    <2>2. request[h] \in Reads
        BY <2>1, ServingReads
    <2>3. request' \in [Handlers -> Reads \cup {Idle}]
        BY <2>1 DEF Reply, TypeOK
    <2>4. /\ {"draft", "validated", "approved", "published", "archived"} \subseteq Statuses
          /\ {"validated_at", "approved_at", "published_at"} \subseteq Stamps
        BY DEF Statuses, Stamps
    <2>5. CASE CreateVersion(h)
        <3>1. request[h].current + 1 \in 0 .. MaxVersions
            BY <2>1, <2>2, <2>5, MaxVersionsType
               DEF Reliable, StillTrue, CreateVersion, Serving, Reads
        <3>2. version' \in [Workflows -> [Numbers -> Statuses]]
            BY <2>4, <2>5 DEF CreateVersion, TypeOK
        <3>3. current' \in [Workflows -> 0 .. MaxVersions]
            BY <2>5, <3>1 DEF CreateVersion, TypeOK
        <3> QED
            BY <2>1, <2>3, <2>4, <2>5, <3>2, <3>3, WritesTyped DEF CreateVersion, TypeOK
    <2>6. CASE Validate(h)
        BY <2>1, <2>3, <2>4, <2>6, WritesTyped DEF Validate, TypeOK
    <2>7. CASE Approve(h)
        BY <2>1, <2>3, <2>4, <2>7, WritesTyped DEF Approve, TypeOK
    <2>8. CASE Publish(h) \/ Rollback(h)
        <3>1. PointTo(h)
            BY <2>8 DEF Publish, Rollback
        <3>2. pointer' \in [Workflows -> 0 .. MaxVersions]
            BY <2>2, <3>1 DEF PointTo, Column, TypeOK, Reads
        <3> QED
            BY <2>1, <2>3, <2>4, <3>1, <3>2, WritesTyped DEF PointTo, TypeOK
    <2>9. CASE Archive(h)
        BY <2>1, <2>3, <2>4, <2>9, WritesTyped DEF Archive, TypeOK
    <2>10. CASE Execute(h)
        <3>1. <<request[h].wf, request[h].number>> \in Workflows \X Numbers
            BY <2>2, <2>10, MaxVersionsType DEF Execute, Reads, Numbers
        <3> QED
            BY <2>3, <2>10, <3>1 DEF Execute, TypeOK
    <2> QED
        BY <1>5, <2>5, <2>6, <2>7, <2>8, <2>9, <2>10 DEF Commit
<1>6. ASSUME NEW h \in Handlers, Abort(h) PROVE TypeOK'
    BY <1>6 DEF Abort, Reply, TypeOK
<1> QED
    BY <1>1, <1>2, <1>3, <1>4, <1>5, <1>6 DEF Next

-------------------------------------------------------------------------------
(***************************************************************************)
(* What a commit writes.                                                   *)
(***************************************************************************)

LEMMA VersionWritten ==
    ASSUME TypeOK, NEW h \in Handlers, request[h] # Idle, NEW s, SetVersion(h, s)
    PROVE  \A g \in Workflows, m \in Numbers :
              version'[g][m] # version[g][m] =>
                 g = request[h].wf /\ m = request[h].number /\ version'[g][m] = s
<1>1. PICK f, n, x : /\ f = request[h].wf /\ n = request[h].number
                     /\ x = Column(request[h].version, s, version[f][n])
    OBVIOUS
<1>2. x = version[f][n] \/ x = s
    BY <1>1 DEF Column
<1>3. version' = [version EXCEPT ![f][n] = x]
    BY <1>1 DEF SetVersion
<1> QED
    BY <1>1, <1>2, <1>3 DEF TypeOK

LEMMA Stamped ==
    ASSUME TypeOK, NEW h \in Handlers, request[h] # Idle, NEW t, Stamp(h, t)
    PROVE  \A g \in Workflows, m \in Numbers :
              stamps'[g][m] = IF g = request[h].wf /\ m = request[h].number
                              THEN stamps[g][m] \cup {t} ELSE stamps[g][m]
<1>1. PICK f, n, x : /\ f = request[h].wf /\ n = request[h].number
                     /\ x = stamps[f][n] \cup {t}
    OBVIOUS
<1>2. stamps' = [stamps EXCEPT ![f][n] = x]
    BY <1>1 DEF Stamp
<1> QED
    BY <1>1, <1>2 DEF TypeOK

LEMMA StatusWritten ==
    ASSUME TypeOK, NEW h \in Handlers, request[h] # Idle, NEW s, SetStatus(h, s)
    PROVE  \A g \in Workflows : status'[g] # status[g] =>
              g = request[h].wf /\ status'[g] = s
<1>1. PICK f, x : f = request[h].wf /\ x = Column(request[h].status, s, status[f])
    OBVIOUS
<1>2. x = status[f] \/ x = s
    BY <1>1 DEF Column
<1>3. status' = [status EXCEPT ![f] = x]
    BY <1>1 DEF SetStatus
<1> QED
    BY <1>1, <1>2, <1>3 DEF TypeOK

LEMMA PointerWritten ==
    ASSUME TypeOK, NEW h \in Handlers, request[h] # Idle, PointTo(h)
    PROVE  \A g \in Workflows :
              \/ pointer'[g] = pointer[g] /\ (g = request[h].wf =>
                                                 request[h].number = request[h].pointer)
              \/ g = request[h].wf /\ pointer'[g] = request[h].number
<1>1. PICK f, x : /\ f = request[h].wf
                  /\ x = Column(request[h].pointer, request[h].number, pointer[f])
    OBVIOUS
<1>2. \/ x = pointer[f] /\ request[h].number = request[h].pointer
      \/ x = request[h].number
    BY <1>1 DEF Column
<1>3. pointer' = [pointer EXCEPT ![f] = x]
    BY <1>1 DEF PointTo
<1> QED
    BY <1>1, <1>2, <1>3 DEF TypeOK

\* The row a handler inserts is the next one of its workflow.
LEMMA NextVersion ==
    ASSUME IInv, NEW h \in Handlers, CreateVersion(h)
    PROVE  /\ request[h] \in Reads
           /\ request[h].current = current[request[h].wf]
           /\ request[h].current + 1 \in Numbers
<1>1. request[h] # Idle /\ request[h] \in Reads
    BY ServingReads DEF CreateVersion, Serving, IInv
<1>2. PICK f \in Workflows, c \in 0 .. MaxVersions :
         f = request[h].wf /\ c = request[h].current
    BY <1>1 DEF Reads
<1>3. c <= current[f] /\ c + 1 \in Numbers /\ current[f] \in 0 .. MaxVersions
    BY <1>1, <1>2, MaxVersionsType
       DEF IInv, Reliable, StillTrue, CreateVersion, Serving, Numbers, TypeOK
<1>4. version[f][c + 1] = "absent"
    BY <1>2 DEF CreateVersion
<1>5. ~(c + 1 <= current[f])
    BY <1>3, <1>4 DEF IInv, VersionsContiguous
<1> QED
    BY <1>1, <1>2, <1>3, <1>5, MaxVersionsType

(***************************************************************************)
(* What no step takes back.                                                *)
(***************************************************************************)
Grows ==
    \A f \in Workflows :
        /\ current[f] <= current'[f]
        /\ pointer[f] # 0 => pointer'[f] # 0
        /\ \A n \in Numbers : stamps[f][n] \subseteq stamps'[f][n]

LEMMA GrowsStep == IInv /\ [Next]_vars => Grows
<1> SUFFICES ASSUME IInv, [Next]_vars PROVE Grows
    OBVIOUS
<1>0. \A f \in Workflows : current[f] <= current[f]
    BY MaxVersionsType DEF IInv, TypeOK
<1>1. CASE UNCHANGED <<current, pointer, stamps>>
    BY <1>0, <1>1 DEF Grows
<1>2. ASSUME NEW h \in Handlers, Commit(h) PROVE Grows
    <2>1. request[h] # Idle /\ request[h] \in Reads
        BY <1>2, ServingReads DEF Commit, CreateVersion, Validate, Approve, Publish, Rollback,
                    Archive, Execute, Serving, IInv
    <2>2. CASE CreateVersion(h)
        <3>1. /\ current' = [current EXCEPT ![request[h].wf] = request[h].current + 1]
              /\ UNCHANGED <<pointer, stamps>>
            BY <2>2 DEF CreateVersion
        <3>2. /\ request[h].current = current[request[h].wf]
              /\ request[h].current + 1 \in Numbers
              /\ current \in [Workflows -> 0 .. MaxVersions]
            BY <2>2, NextVersion DEF IInv, TypeOK
        <3>3. \A f \in Workflows : current[f] <= current'[f]
            BY <3>1, <3>2, <1>0, MaxVersionsType
        <3> QED
            BY <3>1, <3>3 DEF Grows
    <2>3. CASE Validate(h) \/ Approve(h)
        <3>1. UNCHANGED <<current, pointer>> /\ \E t \in Stamps : Stamp(h, t)
            BY <2>3 DEF Validate, Approve, Stamps
        <3> QED
            BY <2>1, <3>1, <1>0, Stamped DEF Grows, IInv
    <2>4. CASE Publish(h) \/ Rollback(h)
        <3>1. PointTo(h) /\ request[h].number # 0
            BY <2>4 DEF Publish, Rollback, PointTo
        <3>2. UNCHANGED current /\ Stamp(h, "published_at")
            BY <3>1 DEF PointTo
        <3>3. \A f \in Workflows : pointer[f] # 0 => pointer'[f] # 0
            BY <2>1, <3>1, PointerWritten DEF IInv
        <3> QED
            BY <2>1, <3>2, <3>3, <1>0, Stamped DEF Grows, IInv
    <2>5. CASE Archive(h) \/ Execute(h)
        BY <2>5, <1>1 DEF Archive, Execute
    <2> QED
        BY <1>2, <2>2, <2>3, <2>4, <2>5 DEF Commit
<1>3. CASE \E h \in Handlers, f \in Workflows : Begin(h, f)
    BY <1>3, <1>1 DEF Begin, BeginCreateVersion, BeginPublish, BeginRollback, BeginArchive,
                BeginExecute, BeginValidate, BeginApprove, ReadWorkflow, ReadVersion, rows
<1>4. CASE \E h \in Handlers, n \in Numbers : Pick(h, n)
    BY <1>4, <1>1 DEF Pick, PickPublish, PickRollback, PickArchive, PickExecute,
                PickVersion, rows
<1>5. CASE (\E f \in Workflows : CreateWorkflow(f)) \/ (\E h \in Handlers : Abort(h))
    BY <1>5, <1>1 DEF CreateWorkflow, Abort, rows
<1> QED
    BY <1>1, <1>2, <1>3, <1>4, <1>5 DEF Next, vars, rows

\* Hence what a handler has read stays reliable.
LEMMA StillTrueKept ==
    ASSUME TypeOK, TypeOK', Grows, NEW q \in Reads, StillTrue(q)
    PROVE  StillTrue(q)'
<1>1. PICK f \in Workflows, n \in 0 .. MaxVersions, p \in 0 .. MaxVersions,
           c \in 0 .. MaxVersions :
         f = q.wf /\ n = q.number /\ p = q.pointer /\ c = q.current
    BY DEF Reads
<1>2. /\ current[f] <= current'[f]
      /\ pointer[f] # 0 => pointer'[f] # 0
      /\ \A m \in Numbers : stamps[f][m] \subseteq stamps'[f][m]
      /\ current[f] \in 0 .. MaxVersions /\ current'[f] \in 0 .. MaxVersions
    BY DEF Grows, TypeOK
<1>3. /\ n # 0 => n \in Numbers
      /\ p # 0 => p \in Numbers
    BY MaxVersionsType DEF Numbers
<1>4. c <= current'[f]
    BY <1>1, <1>2, MaxVersionsType DEF StillTrue
<1>5. n # 0 => n <= current'[f]
    BY <1>1, <1>2, MaxVersionsType DEF StillTrue
<1>6. p # 0 => pointer'[f] # 0 /\ "published_at" \in stamps'[f][p]
    BY <1>1, <1>2, <1>3 DEF StillTrue
<1>7. n # 0 =>
         /\ q.op = "approve" => "validated_at" \in stamps'[f][n]
         /\ q.op \in {"publish", "rollback"} => "approved_at" \in stamps'[f][n]
         /\ q.op = "execute" => "published_at" \in stamps'[f][n]
    BY <1>1, <1>2, <1>3 DEF StillTrue
<1>8. /\ q.op = "create_version" => q.current < MaxVersions
      /\ q.op \in {"validate", "approve"} => q.number # 0
    BY DEF StillTrue
<1> QED
    BY <1>1, <1>4, <1>5, <1>6, <1>7, <1>8 DEF StillTrue

\* A handler's new read is of rows that satisfy the invariant.
LEMMA FreshRead ==
    ASSUME IInv, NEW h \in Handlers, NEW f \in Workflows, Begin(h, f)
    PROVE  StillTrue(request'[h])
<1>1. /\ \A n \in Numbers : version[f][n] # "absent" => n <= current[f]
      /\ current[f] \in 0 .. MaxVersions /\ pointer[f] \in 0 .. MaxVersions
      /\ request \in [Handlers -> Reads \cup {Idle}]
      /\ \A n \in Numbers : n # 0
    BY MaxVersionsType DEF IInv, TypeOK, VersionsContiguous, Numbers
<1>2. pointer[f] # 0 => "published_at" \in stamps[f][pointer[f]]
    BY DEF IInv, Pointed
<1>3. current[f] <= current[f] /\ 0 <= current[f]
    BY <1>1, MaxVersionsType
<1>4. ASSUME NEW op \in {"create_version", "publish", "rollback", "archive", "execute"},
             op = "create_version" => current[f] < MaxVersions, ReadWorkflow(h, op, f)
      PROVE  StillTrue(request'[h])
    <2>1. request'[h] = [op |-> op, wf |-> f, status |-> status[f], current |-> current[f],
                         pointer |-> pointer[f], number |-> 0, version |-> "absent"]
        BY <1>1, <1>4 DEF ReadWorkflow
    <2> QED
        BY <1>2, <1>3, <1>4, <2>1 DEF StillTrue
<1>5. ASSUME NEW op \in {"validate", "approve"}, NEW n \in Numbers,
             version[f][n] # "absent",
             op = "approve" => version[f][n] = "validated", ReadVersion(h, op, f, n)
      PROVE  StillTrue(request'[h])
    <2>1. request'[h] = [op |-> op, wf |-> f, status |-> "absent", current |-> 0,
                         pointer |-> 0, number |-> n, version |-> version[f][n]]
        BY <1>1, <1>5 DEF ReadVersion
    <2>2. op = "approve" => "validated_at" \in stamps[f][n]
        BY <1>5 DEF IInv, Reviewed
    <2> QED
        BY <1>1, <1>3, <1>5, <2>1, <2>2 DEF StillTrue
<1> QED
    BY <1>4, <1>5 DEF Begin, BeginCreateVersion, BeginPublish, BeginRollback, BeginArchive,
                      BeginExecute, BeginValidate, BeginApprove

LEMMA FreshPick ==
    ASSUME IInv, NEW h \in Handlers, NEW n \in Numbers, Pick(h, n)
    PROVE  StillTrue(request'[h])
<1>1. request[h] # Idle /\ PickVersion(h, n)
    BY DEF Pick, PickPublish, PickRollback, PickArchive, PickExecute, Serving
<1>2. PICK q \in Reads : q = request[h]
    BY <1>1, ServingReads DEF IInv
<1>3. PICK f \in Workflows : f = q.wf
    BY DEF Reads
<1>4. PICK v \in Statuses : v = version[f][n]
    BY DEF IInv, TypeOK
<1>5. n \in 0 .. MaxVersions /\ n # 0
    BY MaxVersionsType DEF Numbers
<1>6. PICK r : r = Completed(q, n, v)
    OBVIOUS
<1>7. /\ r.number = n /\ r.op = q.op /\ r.wf = f /\ r.pointer = q.pointer
      /\ r.current = q.current
    BY <1>3, <1>5, <1>6, ReadCompleted
<1>8. request'[h] = r
    BY <1>1, <1>2, <1>3, <1>4, <1>6 DEF PickVersion, IInv, TypeOK
<1>9. StillTrue(q)
    BY <1>1, <1>2 DEF IInv, Reliable
<1>10. /\ q.op \in {"publish", "rollback", "archive", "execute"}
       /\ q.op = "publish" => version[f][n] = "approved"
       /\ q.op = "rollback" => version[f][n] \in {"approved", "published"}
       /\ q.op = "execute" => version[f][n] = "published"
       /\ q.op = "archive" => n = q.pointer
    BY <1>2, <1>3 DEF Pick, PickPublish, PickRollback, PickArchive, PickExecute, Serving
<1>11. /\ q.op \in {"publish", "rollback"} => "approved_at" \in stamps[f][n]
       /\ q.op = "execute" => "published_at" \in stamps[f][n]
       /\ q.op = "archive" => "published_at" \in stamps[f][n]
    BY <1>3, <1>5, <1>9, <1>10 DEF IInv, Reviewed, StillTrue
<1>12. n <= current[f]
    BY <1>10, <1>11 DEF IInv, Reviewed
<1> QED
    BY <1>3, <1>5, <1>7, <1>8, <1>9, <1>10, <1>11, <1>12 DEF StillTrue

LEMMA ReliableStep == IInv /\ TypeOK' /\ [Next]_vars => Reliable'
<1> SUFFICES ASSUME IInv, TypeOK', [Next]_vars,
                    NEW h \in Handlers, request'[h] # Idle
             PROVE  StillTrue(request[h])'
    BY DEF Reliable
<1>1. Grows
    BY GrowsStep
<1>2. PICK q \in Reads : q = request'[h]
    BY DEF TypeOK
<1>3. StillTrue(q)
    <2>1. CASE request'[h] = request[h]
        BY <2>1, <1>2 DEF IInv, Reliable
    <2>2. CASE \E f \in Workflows : Begin(h, f)
        BY <2>2, <1>2, FreshRead
    <2>3. CASE \E n \in Numbers : Pick(h, n)
        BY <2>3, <1>2, FreshPick
    <2>4. request \in [Handlers -> Reads \cup {Idle}]
        BY DEF IInv, TypeOK
    <2>5. ASSUME NEW g \in Handlers, Reply(g) PROVE request'[h] = request[h]
        BY <2>4, <2>5 DEF Reply
    <2>6. ASSUME NEW g \in Handlers, g # h, \E f \in Workflows : Begin(g, f)
          PROVE  request'[h] = request[h]
        BY <2>4, <2>6 DEF Begin, BeginCreateVersion, BeginPublish, BeginRollback,
                    BeginArchive, BeginExecute, BeginValidate, BeginApprove, ReadWorkflow,
                    ReadVersion
    <2>7. ASSUME NEW g \in Handlers, g # h, \E n \in Numbers : Pick(g, n)
          PROVE  request'[h] = request[h]
        <3>1. PICK x : request' = [request EXCEPT ![g] = x]
            BY <2>7 DEF Pick, PickPublish, PickRollback, PickArchive, PickExecute, PickVersion
        <3> QED
            BY <2>4, <2>7, <3>1
    <2>8. ASSUME NEW g \in Handlers, Commit(g) \/ Abort(g) PROVE Reply(g)
        BY <2>8 DEF Commit, Abort, CreateVersion, Validate, Approve, Publish, Rollback,
                    PointTo, Archive, Execute
    <2>9. CASE \E f \in Workflows : CreateWorkflow(f)
        BY <2>9, <2>1 DEF CreateWorkflow
    <2>10. CASE UNCHANGED vars
        BY <2>10, <2>1 DEF vars
    <2> QED
        BY <2>1, <2>2, <2>3, <2>5, <2>6, <2>7, <2>8, <2>9, <2>10 DEF Next
<1>4. StillTrue(q)'
    BY <1>1, <1>3, StillTrueKept DEF IInv
<1> QED
    BY <1>2, <1>4 DEF StillTrue

-------------------------------------------------------------------------------
(***************************************************************************)
(* The rows.                                                               *)
(***************************************************************************)
RowsInv == VersionsContiguous /\ Reviewed /\ Pointed /\ ExecutionsWereReviewed

\* Steps that leave the rows of versions alone, and the status of published workflows.
LEMMA RowsUntouched ==
    ASSUME IInv, UNCHANGED <<current, pointer, version, stamps, executions>>,
           \A f \in Workflows : status'[f] = "published" => status[f] = "published"
    PROVE  RowsInv'
BY DEF IInv, RowsInv, VersionsContiguous, Reviewed, Pointed, ExecutionsWereReviewed

LEMMA RowsCreateVersion ==
    ASSUME IInv, NEW h \in Handlers, CreateVersion(h)
    PROVE  RowsInv'
<1>1. PICK f \in Workflows, n \in Numbers :
         f = request[h].wf /\ n = request[h].current + 1 /\ n = current[f] + 1
    BY NextVersion DEF Reads
<1>2. /\ version' = [version EXCEPT ![f][n] = "draft"]
      /\ current' = [current EXCEPT ![f] = n]
      /\ UNCHANGED <<pointer, stamps, executions>>
      /\ SetStatus(h, "draft") /\ request[h] # Idle
    BY <1>1 DEF CreateVersion, Serving
<1>3. /\ version \in [Workflows -> [Numbers -> Statuses]]
      /\ current \in [Workflows -> 0 .. MaxVersions]
    BY DEF IInv, TypeOK
<1>4. \A g \in Workflows, m \in Numbers :
         version'[g][m] = IF g = f /\ m = n THEN "draft" ELSE version[g][m]
    BY <1>2, <1>3
<1>5. \A g \in Workflows : current'[g] = IF g = f THEN n ELSE current[g]
    BY <1>2, <1>3
<1>6. \A m \in Numbers : m <= n <=> m <= current[f] \/ m = n
    BY <1>1, <1>3, MaxVersionsType DEF Numbers
<1>7. VersionsContiguous'
    BY <1>4, <1>5, <1>6 DEF IInv, VersionsContiguous
<1>8. Reviewed'
    BY <1>2, <1>4, <1>5, <1>6 DEF IInv, Reviewed
<1>9. \A g \in Workflows : status'[g] = "published" => status[g] = "published"
    BY <1>2, StatusWritten DEF IInv
<1>10. Pointed' /\ ExecutionsWereReviewed'
    BY <1>2, <1>9 DEF IInv, Pointed, ExecutionsWereReviewed
<1> QED
    BY <1>7, <1>8, <1>10 DEF RowsInv

\* A commit that gives an existing version a status and the timestamp that backs it.
LEMMA RowsReviewed ==
    ASSUME IInv, TypeOK', NEW h \in Handlers, request[h] # Idle,
           request[h].number # 0, UNCHANGED current, Grows,
           NEW s \in {"validated", "approved", "published"}, SetVersion(h, s),
           NEW t \in Stamps, Stamp(h, t),
           \/ s = "validated" /\ t = "validated_at"
           \/ /\ s = "approved" /\ t = "approved_at"
              /\ "validated_at" \in stamps[request[h].wf][request[h].number]
           \/ /\ s = "published" /\ t = "published_at"
              /\ "approved_at" \in stamps[request[h].wf][request[h].number]
    PROVE  VersionsContiguous' /\ Reviewed'
<1>1. PICK f \in Workflows, n \in Numbers : f = request[h].wf /\ n = request[h].number
    BY ServingReads, MaxVersionsType DEF IInv, Reads, Numbers
<1>2. n <= current[f]
    BY <1>1 DEF IInv, Reliable, StillTrue
<1>3. \A g \in Workflows, m \in Numbers :
         version'[g][m] # version[g][m] => g = f /\ m = n /\ version'[g][m] = s
    BY <1>1, VersionWritten DEF IInv
<1>4. \A g \in Workflows, m \in Numbers :
         stamps'[g][m] = IF g = f /\ m = n THEN stamps[g][m] \cup {t} ELSE stamps[g][m]
    BY <1>1, Stamped DEF IInv
<1>5. VersionsContiguous'
    BY <1>2, <1>3 DEF IInv, VersionsContiguous
<1>6. ASSUME NEW g \in Workflows, NEW m \in Numbers, ~(g = f /\ m = n)
      PROVE  version'[g][m] = version[g][m] /\ stamps'[g][m] = stamps[g][m]
    BY <1>3, <1>4, <1>6
<1>7. /\ stamps'[f][n] = stamps[f][n] \cup {t}
      /\ version'[f][n] = version[f][n] \/ version'[f][n] = s
    BY <1>3, <1>4
<1>8. Reviewed'
    BY <1>1, <1>2, <1>6, <1>7 DEF IInv, Reviewed
<1> QED
    BY <1>5, <1>8

\* Executions and pointers stay backed while timestamps only grow.
LEMMA ExecutionsKept ==
    ASSUME IInv, TypeOK', Grows, UNCHANGED executions
    PROVE  ExecutionsWereReviewed'
<1>1. ASSUME NEW e \in executions PROVE stamps'[e[1]][e[2]] = Stamps
    <2>1. e[1] \in Workflows /\ e[2] \in Numbers
        BY DEF IInv, TypeOK
    <2>2. stamps[e[1]][e[2]] = Stamps
        BY DEF IInv, ExecutionsWereReviewed
    <2>3. stamps'[e[1]][e[2]] \subseteq Stamps
        BY <2>1 DEF TypeOK
    <2> QED
        BY <2>1, <2>2, <2>3 DEF Grows
<1> QED
    BY <1>1 DEF ExecutionsWereReviewed

LEMMA PointedKept ==
    ASSUME IInv, TypeOK', Grows, UNCHANGED pointer,
           \A f \in Workflows : status'[f] = "published" => status[f] = "published"
    PROVE  Pointed'
<1>1. \A f \in Workflows : pointer[f] # 0 => pointer[f] \in Numbers
    BY MaxVersionsType DEF IInv, TypeOK, Numbers
<1> QED
    BY <1>1 DEF IInv, Pointed, Grows

LEMMA RowsPointTo ==
    ASSUME IInv, TypeOK', Grows, NEW h \in Handlers, Publish(h) \/ Rollback(h)
    PROVE  RowsInv'
<1>1. request[h] # Idle /\ PointTo(h) /\ request[h].op \in {"publish", "rollback"}
    BY DEF Publish, Rollback, Serving
<1>2. PICK f \in Workflows, n \in Numbers : f = request[h].wf /\ n = request[h].number
    BY <1>1, ServingReads, MaxVersionsType DEF IInv, Reads, Numbers, PointTo
<1>3. /\ "approved_at" \in stamps[f][n] /\ n # 0
      /\ n = request[h].pointer => pointer[f] # 0
    BY <1>1, <1>2, MaxVersionsType DEF IInv, Reliable, StillTrue, Numbers
<1>4. /\ SetVersion(h, "published") /\ Stamp(h, "published_at") /\ SetStatus(h, "published")
      /\ UNCHANGED <<current, executions>>
    BY <1>1 DEF PointTo
<1>5. VersionsContiguous' /\ Reviewed'
    BY <1>1, <1>2, <1>3, <1>4, RowsReviewed DEF Stamps
<1>6. ExecutionsWereReviewed'
    BY <1>4, ExecutionsKept
<1>7. "published_at" \in stamps'[f][n]
    <2>1. stamps'[f][n] = stamps[f][n] \cup {"published_at"}
        BY <1>1, <1>2, <1>4, Stamped DEF IInv
    <2> QED
        BY <2>1
<1>8. \A g \in Workflows :
         \/ pointer'[g] = pointer[g] /\ (g = f => pointer[f] # 0)
         \/ g = f /\ pointer'[g] = n
    BY <1>1, <1>2, <1>3, PointerWritten DEF IInv
<1>9. \A g \in Workflows : status'[g] # status[g] => g = f
    BY <1>1, <1>2, <1>4, StatusWritten DEF IInv
<1>10. \A g \in Workflows : pointer[g] # 0 => pointer[g] \in Numbers
    BY MaxVersionsType DEF IInv, TypeOK, Numbers
<1>11. Pointed'
    BY <1>3, <1>7, <1>8, <1>9, <1>10 DEF IInv, Pointed, Grows
<1> QED
    BY <1>5, <1>6, <1>11 DEF RowsInv

LEMMA RowsArchive ==
    ASSUME IInv, TypeOK', Grows, NEW h \in Handlers, Archive(h)
    PROVE  RowsInv'
<1>1. /\ request[h] # Idle /\ SetStatus(h, "archived")
      /\ UNCHANGED <<current, pointer, stamps, executions>>
    BY DEF Archive, Serving
<1>2. \A g \in Workflows : status'[g] = "published" => status[g] = "published"
    BY <1>1, StatusWritten DEF IInv
<1>3. CASE request[h].number = 0
    BY <1>1, <1>2, <1>3, RowsUntouched DEF Archive
<1>4. CASE request[h].number # 0
    <2>1. PICK f \in Workflows, n \in Numbers : f = request[h].wf /\ n = request[h].number
        BY <1>1, <1>4, ServingReads, MaxVersionsType DEF IInv, Reads, Numbers
    <2>2. "published_at" \in stamps[f][n] /\ n <= current[f]
        BY <1>1, <1>4, <2>1 DEF IInv, Reliable, StillTrue, Archive
    <2>3. \A g \in Workflows, m \in Numbers :
             version'[g][m] # version[g][m] => g = f /\ m = n /\ version'[g][m] = "archived"
        BY <1>1, <1>4, <2>1, VersionWritten DEF IInv, Archive
    <2>4. VersionsContiguous'
        BY <1>1, <2>2, <2>3 DEF IInv, VersionsContiguous
    <2>5. Reviewed'
        BY <1>1, <2>2, <2>3 DEF IInv, Reviewed
    <2> QED
        BY <1>1, <1>2, <2>4, <2>5, PointedKept, ExecutionsKept DEF RowsInv
<1> QED
    BY <1>3, <1>4

LEMMA RowsExecute ==
    ASSUME IInv, NEW h \in Handlers, Execute(h)
    PROVE  RowsInv'
<1>1. request[h] # Idle /\ request[h].op = "execute" /\ request[h].number # 0
    BY DEF Execute, Serving
<1>2. PICK f \in Workflows, n \in Numbers : f = request[h].wf /\ n = request[h].number
    BY <1>1, ServingReads, MaxVersionsType DEF IInv, Reads, Numbers
<1>3. "published_at" \in stamps[f][n]
    BY <1>1, <1>2 DEF IInv, Reliable, StillTrue
<1>4. stamps[f][n] = Stamps
    BY <1>3 DEF IInv, Reviewed, TypeOK, Stamps
<1>5. /\ executions' = executions \cup {<<f, n>>}
      /\ UNCHANGED <<status, current, pointer, version, stamps>>
    BY <1>2 DEF Execute
<1>6. ExecutionsWereReviewed'
    BY <1>4, <1>5 DEF IInv, ExecutionsWereReviewed
<1>7. VersionsContiguous' /\ Reviewed' /\ Pointed'
    BY <1>5 DEF IInv, VersionsContiguous, Reviewed, Pointed
<1> QED
    BY <1>6, <1>7 DEF RowsInv

LEMMA RowsStep == IInv /\ TypeOK' /\ [Next]_vars => RowsInv'
<1> SUFFICES ASSUME IInv, TypeOK', [Next]_vars PROVE RowsInv'
    OBVIOUS
<1>1. Grows
    BY GrowsStep
<1>2. CASE UNCHANGED rows
    BY <1>2, RowsUntouched DEF rows
<1>3. ASSUME NEW f \in Workflows, CreateWorkflow(f) PROVE RowsInv'
    <2>1. \A g \in Workflows : status'[g] = "published" => status[g] = "published"
        BY <1>3 DEF CreateWorkflow, IInv, TypeOK
    <2> QED
        BY <1>3, <2>1, RowsUntouched DEF CreateWorkflow
<1>4. ASSUME NEW h \in Handlers, Commit(h) PROVE RowsInv'
    <2>1. CASE Validate(h) \/ Approve(h)
        <3>1. /\ request[h] # Idle /\ UNCHANGED <<status, current, pointer, executions>>
              /\ request[h].op \in {"validate", "approve"}
            BY <2>1 DEF Validate, Approve, Serving
        <3>2. /\ request[h].number # 0
              /\ request[h].op = "approve" =>
                    "validated_at" \in stamps[request[h].wf][request[h].number]
            BY <3>1 DEF IInv, Reliable, StillTrue
        <3>3. VersionsContiguous' /\ Reviewed'
            <4>1. CASE Validate(h)
                BY <1>1, <3>1, <3>2, <4>1, RowsReviewed DEF Validate, Stamps
            <4>2. CASE Approve(h)
                BY <1>1, <3>1, <3>2, <4>2, RowsReviewed DEF Approve, Serving, Stamps
            <4> QED
                BY <2>1, <4>1, <4>2
        <3> QED
            BY <1>1, <3>1, <3>3, PointedKept, ExecutionsKept DEF RowsInv
    <2> QED
        BY <1>1, <1>4, <2>1, RowsCreateVersion, RowsPointTo, RowsArchive, RowsExecute
           DEF Commit
<1>5. ASSUME NEW h \in Handlers, NEW f \in Workflows, Begin(h, f) PROVE UNCHANGED rows
    BY <1>5 DEF Begin, BeginCreateVersion, BeginPublish, BeginRollback, BeginArchive,
                BeginExecute, BeginValidate, BeginApprove, ReadWorkflow, ReadVersion
<1>6. ASSUME NEW h \in Handlers, NEW n \in Numbers, Pick(h, n) PROVE UNCHANGED rows
    BY <1>6 DEF Pick, PickPublish, PickRollback, PickArchive, PickExecute, PickVersion
<1> QED
    BY <1>2, <1>3, <1>4, <1>5, <1>6 DEF Next, Abort, vars

-------------------------------------------------------------------------------
LEMMA InitIInv == Init => IInv
<1> SUFFICES ASSUME Init PROVE IInv
    OBVIOUS
<1>1. TypeOK
    BY MaxVersionsType DEF Init, TypeOK, Statuses, Stamps
<1>2. VersionsContiguous
    BY MaxVersionsType DEF Init, VersionsContiguous, Numbers
<1>3. Reviewed /\ Pointed /\ ExecutionsWereReviewed /\ Reliable
    BY DEF Init, Reviewed, Pointed, ExecutionsWereReviewed, Reliable
<1> QED
    BY <1>1, <1>2, <1>3 DEF IInv

\* The invariant holds in every reachable state.
THEOREM Inductive == Spec => []IInv
<1>1. IInv /\ [Next]_vars => IInv'
    <2>1. IInv /\ [Next]_vars => TypeOK'
        BY TypedStep DEF IInv
    <2> QED
        BY <2>1, RowsStep, ReliableStep DEF IInv, RowsInv
<1> QED
    BY <1>1, InitIInv, PTL DEF Spec

\* Every variable keeps its type, in particular no version number passes the bound.
THEOREM TypeCorrect == Spec => []TypeOK
<1>1. IInv => TypeOK
    BY DEF IInv
<1> QED
    BY <1>1, Inductive, PTL

\* Version numbers have no gap (create_version and its unique constraint).
THEOREM Contiguous == Spec => []VersionsContiguous
<1>1. IInv => VersionsContiguous
    BY DEF IInv
<1> QED
    BY <1>1, Inductive, PTL

\* Nothing is published without validation and approval, in any interleaving.
THEOREM ApprovedFirst == Spec => []PublishedWasApproved
<1>1. IInv => PublishedWasApproved
    BY DEF IInv, Reviewed, PublishedWasApproved
<1> QED
    BY <1>1, Inductive, PTL

\* A published workflow always has a published version to point at.
THEOREM PointerSound == Spec => []PublishedHasVersion
<1>1. IInv => PublishedHasVersion
    <2> SUFFICES ASSUME IInv, NEW f \in Workflows, status[f] = "published"
                 PROVE  /\ pointer[f] \in 1 .. current[f]
                        /\ "published_at" \in stamps[f][pointer[f]]
        BY DEF PublishedHasVersion
    <2>1. pointer[f] # 0 /\ "published_at" \in stamps[f][pointer[f]]
        BY DEF IInv, Pointed
    <2>2. pointer[f] \in Numbers /\ current[f] \in 0 .. MaxVersions
        BY <2>1, MaxVersionsType DEF IInv, TypeOK, Numbers
    <2>3. pointer[f] <= current[f]
        BY <2>1, <2>2 DEF IInv, Reviewed
    <2> QED
        BY <2>1, <2>2, <2>3, MaxVersionsType DEF Numbers
<1> QED
    BY <1>1, Inductive, PTL

\* Every execution is of a version that was validated, approved and published.
THEOREM OnlyReviewedRuns == Spec => []ExecutionsWereReviewed
<1>1. IInv => ExecutionsWereReviewed
    BY DEF IInv
<1> QED
    BY <1>1, Inductive, PTL

\* No step turns a reviewed version back into a draft or clears one of its timestamps.
LEMMA VersionStep ==
    ASSUME IInv, [Next]_vars, NEW f \in Workflows, NEW n \in Numbers,
           version[f][n] \notin {"absent", "draft"}
    PROVE  version'[f][n] \notin {"absent", "draft"}
<1>1. CASE UNCHANGED version
    BY <1>1
<1>2. ASSUME NEW h \in Handlers, CreateVersion(h)
      PROVE  version'[f][n] \notin {"absent", "draft"}
    <2>1. PICK g \in Workflows, m \in Numbers :
             g = request[h].wf /\ m = request[h].current + 1
        BY <1>2, NextVersion DEF Reads
    <2>2. version[g][m] = "absent" /\ version' = [version EXCEPT ![g][m] = "draft"]
        BY <1>2, <2>1 DEF CreateVersion
    <2>3. ~(f = g /\ n = m)
        BY <2>2
    <2>4. version'[f][n] = version[f][n]
        BY <2>2, <2>3 DEF IInv, TypeOK
    <2> QED
        BY <2>4
<1>3. ASSUME NEW h \in Handlers, NEW s \in {"validated", "approved", "published", "archived"},
             request[h] # Idle, SetVersion(h, s)
      PROVE  version'[f][n] \notin {"absent", "draft"}
    BY <1>3, VersionWritten DEF IInv
<1>4. ASSUME NEW h \in Handlers, Commit(h), ~CreateVersion(h)
      PROVE  \/ UNCHANGED version
             \/ request[h] # Idle /\
                \E s \in {"validated", "approved", "published", "archived"} : SetVersion(h, s)
    BY <1>4 DEF Commit, Validate, Approve, Publish, Rollback, PointTo, Archive, Execute, Serving
<1>5. ASSUME NEW h \in Handlers, NEW g \in Workflows, Begin(h, g) PROVE UNCHANGED version
    BY <1>5 DEF Begin, BeginCreateVersion, BeginPublish, BeginRollback, BeginArchive,
                BeginExecute, BeginValidate, BeginApprove, ReadWorkflow, ReadVersion, rows
<1>6. ASSUME NEW h \in Handlers, NEW m \in Numbers, Pick(h, m) PROVE UNCHANGED version
    BY <1>6 DEF Pick, PickPublish, PickRollback, PickArchive, PickExecute, PickVersion, rows
<1>7. CASE (\E g \in Workflows : CreateWorkflow(g)) \/ (\E h \in Handlers : Abort(h))
    BY <1>7, <1>1 DEF CreateWorkflow, Abort, rows
<1>8. CASE UNCHANGED vars
    BY <1>8, <1>1 DEF vars, rows
<1> QED
    BY <1>1, <1>2, <1>3, <1>4, <1>5, <1>6, <1>7, <1>8 DEF Next

\* Review is never undone: no version returns to draft, no timestamp is cleared.
THEOREM ReviewNeverUndone == Spec => ReviewIsKept
<1>1. IInv /\ [Next]_vars =>
         \A f \in Workflows, n \in Numbers :
            /\ version[f][n] \notin {"absent", "draft"} =>
                  version'[f][n] \notin {"absent", "draft"}
            /\ stamps[f][n] \subseteq stamps'[f][n]
    BY GrowsStep, VersionStep DEF Grows
<1> QED
    BY <1>1, Inductive, PTL DEF Spec, ReviewIsKept
===============================================================================
