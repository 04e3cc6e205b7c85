-------------------------- MODULE FeatureWiringProofs --------------------------
(***************************************************************************)
(* Proofs about FeatureWiring, for any wirings, configurations, number of   *)
(* concurrent handlers and bound on the versions.                          *)
(***************************************************************************)
EXTENDS FeatureWiring, TLAPS

\* HistoryIsComplete in first-order parts.
HasCurrent == \A w \in Wirings : wiring[w] # NoRow => Snapshot(w, wiring[w]) \in snapshots
NoneAhead  == \A s \in snapshots : s.version <= wiring[s.wiring].version
NoGap == \A w \in Wirings, v \in Versions : v <= wiring[w].version =>
            \E s \in snapshots : s.wiring = w /\ s.version = v
OneEach == \A s, t \in snapshots : s.wiring = t.wiring /\ s.version = t.version => s = t

\* What a handler read is in the history, and it writes that version or the next one.
ReadFromHistory(q) ==
    /\ Snapshot(q.wiring, q.seen) \in snapshots
    /\ q.new.version \in {q.seen.version, q.seen.version + 1}

IInv ==
    /\ TypeOK
    /\ HasCurrent
    /\ NoneAhead
    /\ NoGap
    /\ OneEach
    /\ \A h \in Handlers : request[h] # Idle => ReadFromHistory(request[h])

-------------------------------------------------------------------------------
LEMMA SnapshotTyped ==
    ASSUME NEW w \in Wirings, NEW row \in Rows
    PROVE  /\ Snapshot(w, row) \in Snapshots
           /\ Snapshot(w, row).wiring = w
           /\ Snapshot(w, row).version = row.version
BY DEF Snapshot, Rows, Snapshots

\* A snapshot determines the row it was made from.
LEMMA SnapshotInjective ==
    ASSUME NEW w \in Wirings, NEW r \in Rows, NEW q \in Rows, Snapshot(w, r) = Snapshot(w, q)
    PROVE  r = q
<1>1. r.config = q.config /\ r.status = q.status /\ r.version = q.version
    BY DEF Snapshot
<1> QED
    BY <1>1 DEF Rows

LEMMA NoRowIsNone ==
    ASSUME NEW row \in Rows
    PROVE  row # NoRow /\ row.version \in Nat /\ row.version # 0 /\ NoRow.version = 0
BY MaxVersionType DEF Rows, NoRow, Versions

\* A commit that is not refused adds the next version to the row it read.
LEMMA CommitIsNext ==
    ASSUME IInv, NEW h \in Handlers, request[h] # Idle, ~VersionTaken(request[h])
    PROVE  LET q == request[h] IN
           /\ q \in Writes
           /\ wiring[q.wiring] = q.seen
           /\ q.new.version = q.seen.version + 1
           /\ Written(q, wiring[q.wiring]) = q.new
<1> DEFINE q == request[h]
<1>1. q \in Writes
    BY DEF IInv, TypeOK
<1>2. q.wiring \in Wirings /\ q.seen \in Rows /\ q.new \in Rows
    BY <1>1 DEF Writes
<1>3. /\ Snapshot(q.wiring, q.seen) \in snapshots
      /\ q.new.version \in {q.seen.version, q.seen.version + 1}
    BY DEF IInv, ReadFromHistory
<1>4. \A s \in snapshots : s.wiring = q.wiring => s.version # q.new.version
    BY DEF VersionTaken
<1>5. q.new.version = q.seen.version + 1
    BY <1>2, <1>3, <1>4, SnapshotTyped
<1>6. q.seen.version <= wiring[q.wiring].version
    BY <1>2, <1>3, SnapshotTyped DEF IInv, NoneAhead
<1>7. wiring[q.wiring] \in Rows \cup {NoRow} /\ wiring[q.wiring].version \in Nat
    BY <1>2, NoRowIsNone DEF IInv, TypeOK
<1>8. ~(q.new.version <= wiring[q.wiring].version)
    BY <1>2, <1>4 DEF IInv, NoGap, Rows
<1>9. wiring[q.wiring].version = q.seen.version
    BY <1>2, <1>5, <1>6, <1>7, <1>8, NoRowIsNone
<1>10. wiring[q.wiring] \in Rows
    BY <1>2, <1>7, <1>9, NoRowIsNone
<1>11. Snapshot(q.wiring, wiring[q.wiring]) = Snapshot(q.wiring, q.seen)
    BY <1>2, <1>3, <1>9, <1>10, SnapshotTyped, NoRowIsNone DEF IInv, HasCurrent, OneEach
<1>12. wiring[q.wiring] = q.seen
    BY <1>2, <1>10, <1>11, SnapshotInjective
<1>13. Written(q, q.seen) = q.new
    <2>1. Written(q, q.seen) =
            [config |-> q.new.config, status |-> q.new.status, version |-> q.new.version]
        BY DEF Written, Column
    <2> QED
        BY <1>2, <2>1 DEF Rows
<1> QED
    BY <1>1, <1>5, <1>12, <1>13

\* The next version of a wiring, with its snapshot, keeps the history complete.
LEMMA HistoryGrows ==
    ASSUME IInv, NEW w \in Wirings, NEW row \in Rows,
           row.version = wiring[w].version + 1,
           wiring' = [wiring EXCEPT ![w] = row],
           snapshots' = snapshots \cup {Snapshot(w, row)}
    PROVE  HasCurrent' /\ NoneAhead' /\ NoGap' /\ OneEach'
<1>1. PICK s : s = Snapshot(w, row)
    OBVIOUS
<1>2. s \in Snapshots /\ s.wiring = w /\ s.version = row.version
    BY <1>1, SnapshotTyped
<1>3. \A u \in Wirings : wiring'[u] = IF u = w THEN row ELSE wiring[u]
    BY DEF IInv, TypeOK
<1>4. snapshots' = snapshots \cup {s}
    BY <1>1
<1>5. /\ \A u \in Wirings : wiring[u].version \in Nat
      /\ \A t \in snapshots : t.wiring \in Wirings /\ t.version \in Nat
      /\ row.version \in Nat
    BY MaxVersionType, NoRowIsNone DEF IInv, TypeOK, Snapshots, Versions
<1>6. HasCurrent'
    BY <1>1, <1>3, <1>4 DEF IInv, HasCurrent
<1>7. NoneAhead'
    BY <1>2, <1>3, <1>4, <1>5 DEF IInv, NoneAhead
<1>8. NoGap'
    BY <1>2, <1>3, <1>4, <1>5 DEF IInv, NoGap, Versions
<1>9. OneEach'
    <2>1. \A t \in snapshots : t.wiring = w => t.version # row.version
        BY <1>5 DEF IInv, NoneAhead
    <2> QED
        BY <1>2, <1>4, <2>1 DEF IInv, OneEach
<1> QED
    BY <1>6, <1>7, <1>8, <1>9

LEMMA RequestsKept ==
    ASSUME IInv, snapshots \subseteq snapshots',
           \A h \in Handlers : request'[h] # Idle => request'[h] = request[h]
    PROVE  \A h \in Handlers : request'[h] # Idle => ReadFromHistory(request[h])'
BY DEF IInv, ReadFromHistory

-------------------------------------------------------------------------------
LEMMA BeginStep ==
    ASSUME IInv, NEW h \in Handlers, NEW w \in Wirings, NEW new \in Rows, Begin(h, w, new),
           new.version \in {wiring[w].version, wiring[w].version + 1}
    PROVE  IInv'
<1>1. wiring[w] \in Rows
    BY DEF IInv, TypeOK, Begin
<1>2. PICK q \in Writes : q = [wiring |-> w, seen |-> wiring[w], new |-> new]
    BY <1>1 DEF Writes
<1>3. request' = [request EXCEPT ![h] = q] /\ UNCHANGED <<wiring, published, snapshots>>
    BY <1>2 DEF Begin
<1>4. TypeOK'
    BY <1>3 DEF IInv, TypeOK
<1>5. ReadFromHistory(q)
    BY <1>1, <1>2, NoRowIsNone DEF IInv, HasCurrent, ReadFromHistory
<1>6. \A g \in Handlers : request'[g] # Idle => ReadFromHistory(request'[g])
    BY <1>3, <1>5 DEF IInv, TypeOK
<1>7. \A g \in Handlers : request'[g] # Idle => ReadFromHistory(request[g])'
    BY <1>3, <1>6 DEF ReadFromHistory
<1>8. HasCurrent' /\ NoneAhead' /\ NoGap' /\ OneEach'
    BY <1>3 DEF IInv, HasCurrent, NoneAhead, NoGap, OneEach
<1> QED
    BY <1>4, <1>7, <1>8 DEF IInv

LEMMA RowsMade ==
    ASSUME IInv, NEW w \in Wirings, wiring[w] # NoRow,
           NEW c \in Configs, NEW s \in Statuses
    PROVE  /\ wiring[w].version < MaxVersion =>
                [config |-> c, status |-> s, version |-> wiring[w].version + 1] \in Rows
           /\ [wiring[w] EXCEPT !.status = s] \in Rows
           /\ [wiring[w] EXCEPT !.status = s].version = wiring[w].version
           /\ wiring[w].status \in Statuses
<1>1. PICK row \in Rows : row = wiring[w]
    BY DEF IInv, TypeOK
<1>2. row.version < MaxVersion => row.version + 1 \in Versions
    BY MaxVersionType DEF Rows, Versions
<1>3. row.version < MaxVersion =>
         [config |-> c, status |-> s, version |-> row.version + 1] \in Rows
    BY <1>2 DEF Rows
<1>4. [row EXCEPT !.status = s] \in Rows
    BY DEF Rows
<1>5. [row EXCEPT !.status = s].version = row.version
    BY DEF Rows
<1>6. row.status \in Statuses
    BY DEF Rows
<1> QED
    BY <1>1, <1>3, <1>4, <1>5, <1>6

LEMMA InvStep == IInv /\ [Next]_vars => IInv'
<1> SUFFICES ASSUME IInv, [Next]_vars PROVE IInv'
    OBVIOUS
<1>1. CASE UNCHANGED vars
    BY <1>1 DEF vars, IInv, TypeOK, HasCurrent, NoneAhead, NoGap, OneEach, ReadFromHistory
<1>2. ASSUME NEW w \in Wirings, NEW c \in Configs, CreateWiring(w, c) PROVE IInv'
    <2>1. PICK row : row = [config |-> c, status |-> "disabled", version |-> 1]
        OBVIOUS
    <2>2. row \in Rows /\ row.version = wiring[w].version + 1
        BY <1>2, <2>1, MaxVersionType DEF CreateWiring, Rows, Statuses, Versions, NoRow
    <2>3. /\ wiring' = [wiring EXCEPT ![w] = row]
          /\ snapshots' = snapshots \cup {Snapshot(w, row)}
          /\ UNCHANGED <<published, request>>
        BY <1>2, <2>1 DEF CreateWiring
    <2>4. TypeOK'
        BY <2>2, <2>3, SnapshotTyped DEF IInv, TypeOK
    <2>5. HasCurrent' /\ NoneAhead' /\ NoGap' /\ OneEach'
        BY <2>2, <2>3, HistoryGrows
    <2>6. \A h \in Handlers : request'[h] # Idle => ReadFromHistory(request[h])'
        BY <2>3, RequestsKept
    <2> QED
        BY <2>4, <2>5, <2>6 DEF IInv
<1>3. ASSUME NEW h \in Handlers, NEW w \in Wirings, NEW c \in Configs, BeginConfigure(h, w, c)
      PROVE  IInv'
    <2>1. PICK new : new = [config |-> c, status |-> wiring[w].status,
                            version |-> wiring[w].version + 1]
        OBVIOUS
    <2>2. Begin(h, w, new) /\ wiring[w].version < MaxVersion /\ wiring[w] # NoRow
        BY <1>3, <2>1 DEF BeginConfigure, Begin
    <2>3. wiring[w].status \in Statuses
        BY <2>2, RowsMade DEF Statuses
    <2>4. new \in Rows /\ new.version = wiring[w].version + 1
        BY <2>1, <2>2, <2>3, RowsMade
    <2> QED
        BY <2>2, <2>4, BeginStep
<1>4. ASSUME NEW h \in Handlers, NEW w \in Wirings, NEW s \in Statuses,
             BeginChangeStatus(h, w, s)
      PROVE  IInv'
    <2>1. wiring[w] # NoRow /\ Begin(h, w, [wiring[w] EXCEPT !.status = s])
        BY <1>4 DEF BeginChangeStatus
    <2>2. PICK c \in Configs : TRUE
        BY <2>1 DEF IInv, TypeOK, Rows
    <2>3. /\ [wiring[w] EXCEPT !.status = s] \in Rows
          /\ [wiring[w] EXCEPT !.status = s].version = wiring[w].version
        BY <2>1, <2>2, RowsMade
    <2> QED
        BY <2>1, <2>3, BeginStep
<1>5. ASSUME NEW h \in Handlers, NEW w \in Wirings, NEW s \in snapshots, BeginRollback(h, w, s)
      PROVE  IInv'
    <2>1. PICK new : new = [config |-> s.config, status |-> s.status,
                            version |-> wiring[w].version + 1]
        OBVIOUS
    <2>2. Begin(h, w, new) /\ wiring[w].version < MaxVersion /\ wiring[w] # NoRow
        BY <1>5, <2>1 DEF BeginRollback, Begin
    <2>3. s.config \in Configs /\ s.status \in Statuses
        BY DEF IInv, TypeOK, Snapshots
    <2>4. new \in Rows /\ new.version = wiring[w].version + 1
        BY <2>1, <2>2, <2>3, RowsMade
    <2> QED
        BY <2>2, <2>4, BeginStep
<1>6. ASSUME NEW h \in Handlers, Commit(h) PROVE IInv'
    <2>1. PICK q : q = request[h]
        OBVIOUS
    <2>2. /\ q # Idle /\ UNCHANGED published
          /\ request' = [request EXCEPT ![h] = Idle]
        BY <1>6, <2>1 DEF Commit
    <2>3. \A g \in Handlers : request'[g] # Idle => request'[g] = request[g]
        BY <2>2 DEF IInv, TypeOK
    <2>4. request' \in [Handlers -> Writes \cup {Idle}]
        BY <2>2 DEF IInv, TypeOK
    <2>5. CASE VersionTaken(q)
        <3>1. UNCHANGED <<wiring, snapshots>>
            BY <1>6, <2>1, <2>5 DEF Commit
        <3>2. \A g \in Handlers : request'[g] # Idle => ReadFromHistory(request[g])'
            BY <2>3, <3>1, RequestsKept
        <3> QED
            BY <2>2, <2>4, <3>1, <3>2
               DEF IInv, TypeOK, HasCurrent, NoneAhead, NoGap, OneEach
    <2>6. CASE ~VersionTaken(q)
        <3>1. PICK w \in Wirings, row \in Rows : w = q.wiring /\ row = q.new
            BY <2>1, <2>2, <2>6, CommitIsNext DEF Writes
        <3>2. row.version = wiring[w].version + 1 /\ Written(q, wiring[w]) = row
            BY <2>1, <2>2, <2>6, <3>1, CommitIsNext
        <3>3. /\ wiring' = [wiring EXCEPT ![w] = row]
              /\ snapshots' = snapshots \cup {Snapshot(w, row)}
            BY <1>6, <2>1, <2>6, <3>1, <3>2 DEF Commit
        <3>4. TypeOK'
            BY <2>2, <2>4, <3>3, SnapshotTyped DEF IInv, TypeOK
        <3>5. HasCurrent' /\ NoneAhead' /\ NoGap' /\ OneEach'
            BY <3>2, <3>3, HistoryGrows
        <3>6. \A g \in Handlers : request'[g] # Idle => ReadFromHistory(request[g])'
            BY <2>3, <3>3, RequestsKept
        <3> QED
            BY <3>4, <3>5, <3>6 DEF IInv
    <2> QED
        BY <2>5, <2>6
<1>7. ASSUME NEW w \in Wirings, Publish(w) PROVE IInv'
    BY <1>7 DEF Publish, IInv, TypeOK, HasCurrent, NoneAhead, NoGap, OneEach, ReadFromHistory
<1> QED
    BY <1>1, <1>2, <1>3, <1>4, <1>5, <1>6, <1>7 DEF Next

\* The invariant holds in every reachable state.
THEOREM Inductive == Spec => []IInv
<1>1. Init => IInv
    BY DEF Init, IInv, TypeOK, HasCurrent, NoneAhead, NoGap, OneEach, NoRow, Versions
<1> QED
    BY <1>1, InvStep, PTL DEF Spec

\* The history of every wiring is complete, whatever was configured and rolled back
\* at the same time.
THEOREM CompleteHistory == Spec => []HistoryIsComplete
<1>1. IInv => HistoryIsComplete
    <2> SUFFICES ASSUME IInv, NEW w \in Wirings
                 PROVE  LET past == {s \in snapshots : s.wiring = w} IN
                        /\ {s.version : s \in past} = 1 .. wiring[w].version
                        /\ \A s, t \in past : s.version = t.version => s = t
                        /\ wiring[w] # NoRow => Snapshot(w, wiring[w]) \in past
        BY DEF HistoryIsComplete
    <2> DEFINE past == {s \in snapshots : s.wiring = w}
    <2>1. wiring[w].version \in 0 .. MaxVersion
        BY MaxVersionType DEF IInv, TypeOK, Rows, NoRow, Versions
    <2>2. \A s \in past : s.version \in 1 .. wiring[w].version
        BY <2>1, MaxVersionType DEF IInv, TypeOK, Snapshots, Versions, NoneAhead
    <2>3. \A v \in 1 .. wiring[w].version : \E s \in past : s.version = v
        BY <2>1, MaxVersionType DEF IInv, NoGap, Versions
    <2>4. {s.version : s \in past} = 1 .. wiring[w].version
        BY <2>2, <2>3
    <2>5. \A s, t \in past : s.version = t.version => s = t
        BY DEF IInv, OneEach
    <2>6. wiring[w] # NoRow => Snapshot(w, wiring[w]) \in past
        <3>1. Snapshot(w, wiring[w]).wiring = w
            BY DEF Snapshot
        <3> QED
            BY <3>1 DEF IInv, HasCurrent
    <2> QED
        BY <2>4, <2>5, <2>6
<1> QED
    BY <1>1, Inductive, PTL

\* No snapshot is ever removed, and versions go up one at a time.
THEOREM HistoryKept == Spec => HistoryOnlyGrows
<1>1. IInv /\ [Next]_vars =>
         /\ snapshots \subseteq snapshots'
         /\ \A w \in Wirings :
               wiring'[w].version \in {wiring[w].version, wiring[w].version + 1}
    <2> SUFFICES ASSUME IInv, [Next]_vars
                 PROVE  /\ snapshots \subseteq snapshots'
                        /\ \A w \in Wirings :
                              wiring'[w].version \in {wiring[w].version, wiring[w].version + 1}
        OBVIOUS
    <2>1. CASE UNCHANGED <<wiring, snapshots>>
        BY <2>1
    <2>2. ASSUME NEW w \in Wirings, NEW c \in Configs, CreateWiring(w, c)
          PROVE  /\ snapshots \subseteq snapshots'
                 /\ \A u \in Wirings :
                       wiring'[u].version \in {wiring[u].version, wiring[u].version + 1}
        BY <2>2 DEF CreateWiring, NoRow, IInv, TypeOK
    <2>3. ASSUME NEW h \in Handlers, Commit(h), ~VersionTaken(request[h])
          PROVE  /\ snapshots \subseteq snapshots'
                 /\ \A u \in Wirings :
                       wiring'[u].version \in {wiring[u].version, wiring[u].version + 1}
        <3>1. PICK q \in Writes : q = request[h]
            BY <2>3, CommitIsNext DEF Commit
        <3>2. /\ wiring[q.wiring] = q.seen /\ q.new.version = q.seen.version + 1
              /\ Written(q, wiring[q.wiring]) = q.new
            BY <2>3, <3>1, CommitIsNext DEF Commit
        <3>3. /\ wiring' = [wiring EXCEPT ![q.wiring] = q.new]
              /\ snapshots \subseteq snapshots'
            BY <2>3, <3>1, <3>2 DEF Commit
        <3> QED
            BY <3>2, <3>3 DEF IInv, TypeOK
    <2>4. ASSUME NEW h \in Handlers, Commit(h), VersionTaken(request[h])
          PROVE  UNCHANGED <<wiring, snapshots>>
        BY <2>4 DEF Commit
    <2>5. ASSUME NEW h \in Handlers, NEW w \in Wirings, NEW new, Begin(h, w, new)
          PROVE  UNCHANGED <<wiring, snapshots>>
        BY <2>5 DEF Begin
    <2> QED
        BY <2>1, <2>2, <2>3, <2>4, <2>5
           DEF Next, vars, BeginConfigure, BeginChangeStatus, BeginRollback, Publish
<1> QED
    BY <1>1, Inductive, PTL DEF Spec, HistoryOnlyGrows

-------------------------------------------------------------------------------
\* A row that the operations leave is not enabled: nor is one that is about to be written
\* under a new version, and only such a one passes the constraint.
NoneOn ==
    /\ \A s \in snapshots : s.status = "disabled"
    /\ \A h \in Handlers : LET q == request[h] IN
          q # Idle /\ q.new.version # q.seen.version => q.new.status = "disabled"

\* A wiring's row has the status of its current snapshot.
LEMMA RowsOff ==
    ASSUME IInv, NoneOn, NEW w \in Wirings, wiring[w] # NoRow
    PROVE  wiring[w].status = "disabled"
<1>1. Snapshot(w, wiring[w]) \in snapshots /\ Snapshot(w, wiring[w]).status = wiring[w].status
    BY DEF IInv, HasCurrent, Snapshot
<1> QED
    BY <1>1 DEF NoneOn

\* Reading a row keeps NoneOn, if what is to be written under a new version is off.
LEMMA BeginOff ==
    ASSUME IInv, NoneOn, NEW h \in Handlers, NEW w \in Wirings, NEW new, Begin(h, w, new),
           new.version # wiring[w].version => new.status = "disabled"
    PROVE  NoneOn'
<1>1. snapshots' = snapshots
    BY DEF Begin
<1>2. \A g \in Handlers :
         request'[g] = IF g = h THEN [wiring |-> w, seen |-> wiring[w], new |-> new]
                       ELSE request[g]
    BY DEF Begin, IInv, TypeOK
<1>3. ASSUME NEW g \in Handlers, request'[g] # Idle,
             request'[g].new.version # request'[g].seen.version
      PROVE  request'[g].new.status = "disabled"
    <2>1. CASE g = h
        BY <1>2, <1>3, <2>1
    <2>2. CASE g # h
        BY <1>2, <1>3, <2>2 DEF NoneOn
    <2> QED
        BY <2>1, <2>2
<1> QED
    BY <1>1, <1>3 DEF NoneOn

LEMMA OffStep == IInv /\ NoneOn /\ [Next]_vars => NoneOn'
<1> SUFFICES ASSUME IInv, NoneOn, [Next]_vars PROVE NoneOn'
    OBVIOUS
<1>1. CASE UNCHANGED vars \/ \E w \in Wirings : Publish(w)
    BY <1>1 DEF vars, Publish, NoneOn
<1>2. ASSUME NEW w \in Wirings, NEW c \in Configs, CreateWiring(w, c) PROVE NoneOn'
    <2>1. PICK s : /\ s = Snapshot(w, [config |-> c, status |-> "disabled", version |-> 1])
                   /\ snapshots' = snapshots \cup {s}
        BY <1>2 DEF CreateWiring
    <2>2. s.status = "disabled" /\ request' = request
        BY <1>2, <2>1 DEF Snapshot, CreateWiring
    <2> QED
        BY <2>1, <2>2 DEF NoneOn
<1>3. ASSUME NEW h \in Handlers, NEW w \in Wirings, NEW c \in Configs, BeginConfigure(h, w, c)
      PROVE  NoneOn'
    <2>1. PICK new : /\ new = [config |-> c, status |-> wiring[w].status,
                              version |-> wiring[w].version + 1]
                     /\ Begin(h, w, new)
        BY <1>3 DEF BeginConfigure
    <2>2. wiring[w].status = "disabled"
        BY <2>1, RowsOff DEF Begin
    <2> QED
        BY <2>1, <2>2, BeginOff
<1>4. ASSUME NEW h \in Handlers, NEW w \in Wirings, NEW s \in Statuses,
             BeginChangeStatus(h, w, s)
      PROVE  NoneOn'
    <2>1. wiring[w] \in Rows
        BY <1>4 DEF BeginChangeStatus, IInv, TypeOK
    <2>2. PICK new : new = [wiring[w] EXCEPT !.status = s] /\ Begin(h, w, new)
        BY <1>4 DEF BeginChangeStatus
    <2>3. new.version = wiring[w].version
        BY <2>1, <2>2 DEF Rows
    <2> QED
        BY <2>2, <2>3, BeginOff
<1>5. ASSUME NEW h \in Handlers, NEW w \in Wirings, NEW s \in snapshots, BeginRollback(h, w, s)
      PROVE  NoneOn'
    <2>1. PICK new : /\ new = [config |-> s.config, status |-> s.status,
                              version |-> wiring[w].version + 1]
                     /\ Begin(h, w, new)
        BY <1>5 DEF BeginRollback
    <2>2. s.status = "disabled"
        BY DEF NoneOn
    <2> QED
        BY <2>1, <2>2, BeginOff
<1>6. ASSUME NEW h \in Handlers, Commit(h) PROVE NoneOn'
    <2>1. \A g \in Handlers : request'[g] # Idle => request'[g] = request[g]
        BY <1>6 DEF Commit, IInv, TypeOK
    <2>2. \A s \in snapshots' : s.status = "disabled"
        <3>1. CASE VersionTaken(request[h])
            BY <1>6, <3>1 DEF Commit, NoneOn
        <3>2. CASE ~VersionTaken(request[h])
            <4>1. PICK q \in Writes : q = request[h]
                BY <1>6, <3>2, CommitIsNext DEF Commit
            <4>2. q # Idle /\ q.new.version = q.seen.version + 1
                BY <1>6, <3>2, <4>1, CommitIsNext DEF Commit
            <4>3. q.new.version # q.seen.version
                BY <4>2, NoRowIsNone DEF Writes
            <4>4. Snapshot(q.wiring, q.new).status = "disabled"
                BY <4>1, <4>2, <4>3 DEF NoneOn, Snapshot
            <4>5. snapshots' = snapshots \cup {Snapshot(q.wiring, q.new)}
                BY <1>6, <3>2, <4>1 DEF Commit
            <4> QED
                BY <4>4, <4>5 DEF NoneOn
        <3> QED
            BY <3>1, <3>2
    <2> QED
        BY <2>1, <2>2 DEF NoneOn
<1> QED
    BY <1>1, <1>2, <1>3, <1>4, <1>5, <1>6 DEF Next

\* What SwitchingWorks finds on one wiring holds for all of them and for ever: no operation
\* of feature_wiring/api/routes.py leaves a wiring enabled, because enable and disable are
\* refused, the others keep the status, and a rollback restores one that was never on.
THEOREM NothingIsEverEnabled ==
    Spec => [](\A w \in Wirings : wiring[w] # NoRow => wiring[w].status = "disabled")
<1>1. Init => NoneOn
    BY DEF Init, NoneOn
<1>2. IInv /\ NoneOn => \A w \in Wirings : wiring[w] # NoRow => wiring[w].status = "disabled"
    BY RowsOff
<1> QED
    BY <1>1, <1>2, OffStep, Inductive, PTL DEF Spec

\* enable and disable are always refused (_change_status): a handler that would keep the
\* version changes neither the wirings nor their history, whoever else is at work.
THEOREM SwitchesAreRefused ==
    Spec => [][\A h \in Handlers :
                  LET q == request[h] IN
                  q # Idle /\ request'[h] = Idle /\ q.new.version = q.seen.version =>
                      UNCHANGED <<wiring, snapshots>>]_vars
<1>1. ASSUME IInv, Next, NEW h \in Handlers, request[h] # Idle, request'[h] = Idle,
             request[h].new.version = request[h].seen.version
      PROVE  UNCHANGED <<wiring, snapshots>>
    <2>1. Commit(h)
        <3>1. ASSUME NEW g \in Handlers, Commit(g), g # h PROVE FALSE
            BY <1>1, <3>1 DEF Commit, IInv, TypeOK
        <3>2. ASSUME NEW g \in Handlers, NEW w \in Wirings, NEW new, Begin(g, w, new)
              PROVE  FALSE
            BY <1>1, <3>2 DEF Begin, IInv, TypeOK
        <3>3. ASSUME request' = request PROVE FALSE
            BY <1>1, <3>3
        <3> QED
            BY <1>1, <3>1, <3>2, <3>3
               DEF Next, CreateWiring, BeginConfigure, BeginChangeStatus, BeginRollback, Publish
    <2>2. VersionTaken(request[h])
        BY <1>1, NoRowIsNone, CommitIsNext DEF Writes
    <2> QED
        BY <2>1, <2>2 DEF Commit
<1>2. IInv /\ [Next]_vars =>
        [\A h \in Handlers :
            LET q == request[h] IN
            q # Idle /\ request'[h] = Idle /\ q.new.version = q.seen.version =>
                UNCHANGED <<wiring, snapshots>>]_vars
    BY <1>1
<1> QED
    BY <1>2, Inductive, PTL DEF Spec
===============================================================================
