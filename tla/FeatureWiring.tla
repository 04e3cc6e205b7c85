----------------------------- MODULE FeatureWiring -----------------------------
(***************************************************************************)
(* Feature wirings of organisations and their version history              *)
(* (backend/app/modules/feature_wiring).                                   *)
(*                                                                         *)
(* A handler reads the wiring, changes it, adds a snapshot row and commits  *)
(* both; handlers interleave between the read and the commit.  As in the    *)
(* rest of the code, an UPDATE carries only the columns that differ from    *)
(* the row that was read.                                                  *)
(***************************************************************************)
EXTENDS Naturals

CONSTANTS
    Wirings,       \* (organisation, feature) pairs a wiring row can have
    Configs,       \* configurations
    Handlers,      \* requests being served at a time
    MaxVersion     \* bound: version of a wiring

ASSUME MaxVersionType == MaxVersion \in Nat \ {0}

VARIABLES
    wiring,      \* feature_wirings rows
    published,   \* wirings with a published_at
    snapshots,   \* feature_wiring_versions rows
    request      \* what each handler has read and is about to write

vars == <<wiring, published, snapshots, request>>

Statuses == {"disabled", "enabled"}
Versions == 1 .. MaxVersion
Rows     == [config : Configs, status : Statuses, version : Versions]
NoRow    == [version |-> 0]
Snapshots == [wiring : Wirings, config : Configs, status : Statuses, version : Versions]

\* new: the row as the handler is going to leave it; seen: as it was read.
Writes == [wiring : Wirings, seen : Rows, new : Rows]
Idle   == [wiring |-> "none"]

Snapshot(w, row) ==
    [wiring |-> w, config |-> row.config, status |-> row.status, version |-> row.version]

Init ==
    /\ wiring = [w \in Wirings |-> NoRow]
    /\ published = {}
    /\ snapshots = {}
    /\ request = [h \in Handlers |-> Idle]

-------------------------------------------------------------------------------
\* POST "": the row is disabled (no payload sets its status), and its snapshot is the
\* first.  A feature that is already wired fails on the unique index.
CreateWiring(w, c) ==
    LET row == [config |-> c, status |-> "disabled", version |-> 1] IN
    /\ wiring[w] = NoRow
    /\ wiring' = [wiring EXCEPT ![w] = row]
    /\ snapshots' = snapshots \cup {Snapshot(w, row)}
    /\ UNCHANGED <<published, request>>

\* The handler has read wiring w and is going to leave it as new.
Begin(h, w, new) ==
    /\ request[h] = Idle
    /\ wiring[w] # NoRow
    /\ request' = [request EXCEPT ![h] = [wiring |-> w, seen |-> wiring[w], new |-> new]]
    /\ UNCHANGED <<wiring, published, snapshots>>

\* PATCH with a configuration (without one nothing is written).
BeginConfigure(h, w, c) ==
    /\ wiring[w].version < MaxVersion
    /\ Begin(h, w, [config |-> c, status |-> wiring[w].status,
                    version |-> wiring[w].version + 1])

\* enable and disable: the version stays as it is.
BeginChangeStatus(h, w, s) ==
    wiring[w] # NoRow /\ Begin(h, w, [wiring[w] EXCEPT !.status = s])

\* rollback: the content of an older snapshot, as a new version.
BeginRollback(h, w, snapshot) ==
    /\ snapshot.wiring = w
    /\ wiring[w].version < MaxVersion
    /\ Begin(h, w, [config |-> snapshot.config, status |-> snapshot.status,
                    version |-> wiring[w].version + 1])

-------------------------------------------------------------------------------
\* A column is written when its new value differs from the value that was read.
Column(seen, new, stored) == IF new = seen THEN stored ELSE new

Written(q, stored) ==
    [config  |-> Column(q.seen.config, q.new.config, stored.config),
     status  |-> Column(q.seen.status, q.new.status, stored.status),
     version |-> Column(q.seen.version, q.new.version, stored.version)]

\* UniqueConstraint(wiring_id, version) of feature_wiring_versions.
VersionTaken(q) ==
    \E s \in snapshots : s.wiring = q.wiring /\ s.version = q.new.version

\* Mutant: snapshots without their unique constraint.
CommitUnchecked(h) ==
    LET q == request[h] IN
    /\ q # Idle
    /\ wiring' = [wiring EXCEPT ![q.wiring] = Written(q, @)]
    /\ snapshots' = snapshots \cup {Snapshot(q.wiring, q.new)}
    /\ request' = [request EXCEPT ![h] = Idle]
    /\ UNCHANGED published

\* Mutant: the snapshot of a version that exists is replaced.
CommitReplacing(h) ==
    LET q == request[h] IN
    /\ q # Idle
    /\ wiring' = [wiring EXCEPT ![q.wiring] = Written(q, @)]
    /\ snapshots' = {s \in snapshots : s.wiring # q.wiring \/ s.version # q.new.version}
                        \cup {Snapshot(q.wiring, q.new)}
    /\ request' = [request EXCEPT ![h] = Idle]
    /\ UNCHANGED published

\* Row and snapshot are committed together, or the constraint refuses both.
Commit(h) ==
    LET q == request[h] IN
    /\ q # Idle
    /\ IF VersionTaken(q)
       THEN UNCHANGED <<wiring, snapshots>>
       ELSE /\ wiring' = [wiring EXCEPT ![q.wiring] = Written(q, @)]
            /\ snapshots' = snapshots \cup {Snapshot(q.wiring, q.new)}
    /\ request' = [request EXCEPT ![h] = Idle]
    /\ UNCHANGED published

\* publish sets published_at and nothing else.
Publish(w) ==
    /\ wiring[w] # NoRow
    /\ published' = published \cup {w}
    /\ UNCHANGED <<wiring, snapshots, request>>

Next ==
    \/ \E w \in Wirings, c \in Configs : CreateWiring(w, c)
    \/ \E h \in Handlers, w \in Wirings :
          \/ \E c \in Configs : BeginConfigure(h, w, c)
          \/ \E s \in Statuses : BeginChangeStatus(h, w, s)
          \/ \E s \in snapshots : BeginRollback(h, w, s)
    \/ \E h \in Handlers : Commit(h)
    \/ \E w \in Wirings : Publish(w)

Spec == Init /\ [][Next]_vars

-------------------------------------------------------------------------------
\* Every variable holds a value of its type.
TypeOK ==
    /\ wiring \in [Wirings -> Rows \cup {NoRow}]
    /\ published \subseteq Wirings
    /\ snapshots \subseteq Snapshots
    /\ request \in [Handlers -> Writes \cup {Idle}]

\* "full history retained" (ARCHITECTURE.md:237): the snapshots of a wiring are its
\* versions 1, 2, ... up to the current one, one each, and the current one is the row,
\* whichever configurations and rollbacks were made at the same time.
HistoryIsComplete ==
    \A w \in Wirings :
        LET past == {s \in snapshots : s.wiring = w} IN
        /\ {s.version : s \in past} = 1 .. wiring[w].version
        /\ \A s, t \in past : s.version = t.version => s = t
        /\ wiring[w] # NoRow => Snapshot(w, wiring[w]) \in past

\* "no destructive changes": a step keeps every snapshot, and the version of a wiring
\* only ever grows, by one at a time.
HistoryOnlyGrows ==
    [][/\ snapshots \subseteq snapshots'
       /\ \A w \in Wirings :
             wiring'[w].version \in {wiring[w].version, wiring[w].version + 1}]_vars

\* The wiring's "status[enabled/disabled]" (ARCHITECTURE.md:236) is switched by the
\* operations made for it: a status change that nobody else interferes with takes effect.
SwitchingWorks ==
    [][\A h \in Handlers :
          LET q == request[h] IN
          q # Idle /\ request'[h] = Idle /\ q.seen = wiring[q.wiring] =>
              wiring'[q.wiring].status = q.new.status]_vars
===============================================================================
