-------------------------- MODULE AccountAccessProofs --------------------------
(***************************************************************************)
(* Proofs about AccountAccess, for any accounts, roles, limits, number of   *)
(* sign-ins and requests at a time, and bounds on them.                    *)
(***************************************************************************)
EXTENDS AccountAccess, FiniteSetTheorems, WellFoundedInduction, TLAPS

\* What a handler goes on to write was decided on a row that let it: a sign-in on an
\* active, unlocked one, and a request on a row it may change.  Rows are never removed.
OwnsOrAdministers(owner, u) ==
    owner = u \/ owner \in Admins \/ (owner \in Users /\ OrgOf[owner] = OrgOf[u])

Decided ==
    /\ \A h \in Handlers : signin[h].step = "commit" =>
          /\ account[signin[h].account] # NoRow
          /\ signin[h].seen.active
          /\ signin[h].seen.lock # "locked"
    /\ \A c \in Callers : call[c].step = "write" =>
          /\ account[call[c].user] # NoRow
          /\ OwnsOrAdministers(call[c].session.owner, call[c].user)

IInv == TypeOK /\ Decided

-------------------------------------------------------------------------------
\* A row as it is left by a handler is a row, and differs from the one it was made from
\* as the handler's operation says.
LEMMA RowsAreNot == ASSUME NEW row \in Rows PROVE row # NoRow
BY RolesKnown DEF Rows, NoRow, Permissions

LEMMA ClearedRow ==
    ASSUME NEW row \in Rows
    PROVE  /\ Cleared(row) \in Rows
           /\ Cleared(row).active = row.active
           /\ Cleared(row).lock = "none"
BY DEF Cleared, Rows, Locks

LEMMA BlamedRow ==
    ASSUME NEW row \in Rows
    PROVE  /\ Blamed(row) \in Rows
           /\ Blamed(row).active = row.active
           /\ Blamed(row).lock \in {"locked", row.lock}
<1> DEFINE lock == IF row.failed + 1 >= MaxFailed THEN "locked" ELSE row.lock
<1>1. lock \in Locks /\ lock \in {"locked", row.lock}
    BY DEF Rows, Locks
<1>2. Blamed(row) = [row EXCEPT !.failed = row.failed + 1, !.lock = lock]
    BY DEF Blamed
<1>3. row.failed + 1 \in Nat
    BY DEF Rows
<1> HIDE DEF lock
<1>4. Blamed(row).active = row.active /\ Blamed(row).lock = lock
    BY <1>2 DEF Rows
<1>5. Blamed(row) \in Rows
    BY <1>1, <1>2, <1>3 DEF Rows
<1> QED
    BY <1>1, <1>4, <1>5

LEMMA AfterRow ==
    ASSUME NEW row \in Rows, NEW op \in Operations
    PROVE  /\ After(op, row) \in Rows
           /\ op # "activate" => (After(op, row).active => row.active)
           /\ op \notin {"reset", "change"} => After(op, row).lock = row.lock
<1>1. CASE op = "activate"
    BY <1>1 DEF After, Rows
<1>2. CASE op = "deactivate"
    BY <1>2 DEF After, Rows
<1>3. CASE op = "force"
    BY <1>3 DEF After, Rows
<1>4. CASE op = "reset"
    BY <1>4, ClearedRow DEF After, Rows
<1>5. CASE op = "change"
    BY <1>5, ClearedRow DEF After, Rows
<1> QED
    BY <1>1, <1>2, <1>3, <1>4, <1>5 DEF Operations

LEMMA WrittenRow ==
    ASSUME NEW seen \in Rows, NEW new \in Rows, NEW stored \in Rows
    PROVE  /\ Written(seen, new, stored) \in Rows
           /\ new.active = seen.active => Written(seen, new, stored).active = stored.active
           /\ Written(seen, new, stored).active \in {new.active, stored.active}
           /\ new.lock = seen.lock => Written(seen, new, stored).lock = stored.lock
           /\ Written(seen, new, stored).lock \in {new.lock, stored.lock}
BY DEF Written, Column, Rows

LEMMA FreshRow == ASSUME NEW role \in Roles \cup {"PLATFORM"} PROVE Fresh(role) \in Rows
BY DEF Fresh, Rows, Locks

-------------------------------------------------------------------------------
\* The shape of what a handler holds, by its step.
LEMMA SignInShape ==
    ASSUME NEW q \in SignIns \cup {Idle}
    PROVE  /\ q.step \in {"idle", "hit", "expire", "read", "commit", "open"}
           /\ q = Idle <=> q.step = "idle"
           /\ q.step \in {"hit", "expire"} =>
                 q \in [step : {"hit", "expire"}, account : Admins, key : Keys, allowed : BOOLEAN]
           /\ q.step \in {"read", "open"} => q \in [step : {"read", "open"}, account : Accounts]
           /\ q.step = "commit" =>
                 q \in [step : {"commit"}, account : Accounts, seen : Rows, right : BOOLEAN]
BY DEF SignIns, Idle

LEMMA RequestShape ==
    ASSUME NEW q \in Requests \cup {Idle}
    PROVE  /\ q.step \in {"idle", "authenticate", "act", "write"}
           /\ q = Idle <=> q.step = "idle"
           /\ q # Idle => q.session \in Sessions
           /\ q.step \in {"authenticate", "act"} =>
                 q \in [step : {"authenticate", "act"}, session : Sessions]
           /\ q.step = "write" =>
                 q \in [step : {"write"}, session : Sessions, op : Operations, user : Users,
                        seen : Rows]
BY DEF Requests, Idle

LEMMA AfterHitTyped ==
    ASSUME NEW q \in [step : {"hit", "expire"}, account : Admins, key : Keys, allowed : BOOLEAN],
           NEW allowed \in BOOLEAN
    PROVE  /\ AfterHit(q, allowed) \in SignIns \cup {Idle}
           /\ AfterHit(q, allowed).step \in {"hit", "read", "idle"}
<1>1. CASE q.key = Address
    <2>1. AfterHit(q, allowed) = [q EXCEPT !.step = "hit", !.key = q.account, !.allowed = allowed]
        BY <1>1 DEF AfterHit
    <2>2. [q EXCEPT !.step = "hit", !.key = q.account, !.allowed = allowed]
              \in [step : {"hit", "expire"}, account : Admins, key : Keys, allowed : BOOLEAN]
        BY DEF Keys
    <2> QED
        BY <2>1, <2>2 DEF SignIns
<1>2. CASE q.key # Address /\ allowed
    BY <1>2 DEF AfterHit, SignIns, Accounts
<1>3. CASE q.key # Address /\ ~allowed
    BY <1>3 DEF AfterHit, Idle
<1> QED
    BY <1>1, <1>2, <1>3

LEMMA LoggedTyped ==
    ASSUME TypeOK, NEW a \in Accounts, NEW outcome \in {"succeeded", "failed"}
    PROVE  Logged(a, outcome) \in [Users -> [succeeded : Nat, failed : Nat]]
BY DEF TypeOK, Logged

-------------------------------------------------------------------------------
\* A step keeps Decided if it keeps rows and adds no decision that is not one.
LEMMA DecidedKept ==
    ASSUME IInv,
           \A a \in Accounts : account[a] # NoRow => account'[a] # NoRow,
           \A h \in Handlers : \/ signin'[h] = signin[h]
                               \/ signin'[h].step # "commit"
                               \/ /\ signin'[h].account \in Accounts
                                  /\ account[signin'[h].account] # NoRow
                                  /\ signin'[h].seen.active
                                  /\ signin'[h].seen.lock # "locked",
           \A c \in Callers : \/ call'[c] = call[c]
                              \/ call'[c].step # "write"
                              \/ /\ call'[c].user \in Users
                                 /\ account[call'[c].user] # NoRow
                                 /\ OwnsOrAdministers(call'[c].session.owner, call'[c].user)
    PROVE  Decided'
<1>1. ASSUME NEW h \in Handlers, signin'[h].step = "commit"
      PROVE  /\ account'[signin'[h].account] # NoRow
             /\ signin'[h].seen.active
             /\ signin'[h].seen.lock # "locked"
    <2>1. CASE signin'[h] = signin[h]
        <3>1. signin[h] \in SignIns \cup {Idle}
            BY DEF IInv, TypeOK
        <3>2. signin[h].account \in Accounts
            BY <1>1, <2>1, <3>1, SignInShape
        <3> QED
            BY <1>1, <2>1, <3>2 DEF IInv, Decided
    <2> QED
        BY <1>1, <2>1
<1>2. ASSUME NEW c \in Callers, call'[c].step = "write"
      PROVE  /\ account'[call'[c].user] # NoRow
             /\ OwnsOrAdministers(call'[c].session.owner, call'[c].user)
    <2>1. CASE call'[c] = call[c]
        <3>1. call[c] \in Requests \cup {Idle}
            BY DEF IInv, TypeOK
        <3>2. call[c].user \in Accounts
            BY <1>2, <2>1, <3>1, RequestShape DEF Accounts
        <3> QED
            BY <1>2, <2>1, <3>2 DEF IInv, Decided
    <2> QED
        BY <1>2, <2>1 DEF Accounts
<1> QED
    BY <1>1, <1>2 DEF Decided, OwnsOrAdministers

LEMMA InitOK == ASSUME Init PROVE IInv
<1>1. account \in [Accounts -> Rows \cup {NoRow}]
    <2>1. Fresh("PLATFORM") \in Rows /\ \A r \in Roles : Fresh(r) \in Rows
        BY FreshRow
    <2> QED
        BY <2>1 DEF Init
<1>2. events \in [Users -> [succeeded : Nat, failed : Nat]]
    BY DEF Init
<1>3. hits \in [Keys -> [count : Nat, expires : BOOLEAN]]
    BY DEF Init
<1>4. TypeOK
    BY <1>1, <1>2, <1>3 DEF Init, TypeOK
<1>5. Decided
    BY DEF Init, Decided, Idle
<1> QED
    BY <1>4, <1>5 DEF IInv

LEMMA SignInKeeps == ASSUME IInv, NEW h \in Handlers, SignIn(h) PROVE IInv'
<1> DEFINE q == signin[h]
<1>0. /\ TypeOK
      /\ q \in SignIns \cup {Idle}
      /\ \A c \in Callers : call[c] \in Requests \cup {Idle}
    BY DEF IInv, TypeOK
<1>1. ASSUME NEW a \in Accounts, Begin(h, a) PROVE IInv'
    <2>1. signin' \in [Handlers -> SignIns \cup {Idle}] /\ signin'[h].step # "commit"
        <3>1. CASE a \in Admins
            BY <1>0, <1>1, <3>1 DEF Begin, TypeOK, SignIns, Keys
        <3>2. CASE a \notin Admins
            BY <1>0, <1>1, <3>2 DEF Begin, TypeOK, SignIns
        <3> QED
            BY <3>1, <3>2
    <2>2. TypeOK'
        BY <1>0, <1>1, <2>1 DEF Begin, TypeOK, history
    <2>3. Decided'
        BY <1>0, <1>1, <2>1, DecidedKept DEF Begin, TypeOK
    <2> QED
        BY <2>2, <2>3 DEF IInv
<1>2. CASE Increment(h)
    <2> DEFINE count == hits[q.key].count + 1
               ok    == q.allowed /\ count <= RateLimit
    <2>1. /\ q \in [step : {"hit", "expire"}, account : Admins, key : Keys, allowed : BOOLEAN]
          /\ ok \in BOOLEAN
        BY <1>0, <1>2, SignInShape DEF Increment
    <2>2. count \in Nat
        BY <1>0, <2>1 DEF TypeOK
    <2>3. hits' \in [Keys -> [count : Nat, expires : BOOLEAN]]
        <3>1. hits' = [hits EXCEPT ![q.key] = [hits[q.key] EXCEPT !.count = count]]
            BY <1>2 DEF Increment
        <3>2. [hits[q.key] EXCEPT !.count = count] \in [count : Nat, expires : BOOLEAN]
            BY <1>0, <2>1, <2>2 DEF TypeOK
        <3> QED
            BY <1>0, <3>1, <3>2 DEF TypeOK
    <2>4. signin' \in [Handlers -> SignIns \cup {Idle}] /\ signin'[h].step # "commit"
        <3> HIDE DEF ok
        <3>1. /\ AfterHit(q, ok) \in SignIns \cup {Idle}
              /\ AfterHit(q, ok).step # "commit"
            BY <2>1, AfterHitTyped
        <3>2. /\ [q EXCEPT !.step = "expire", !.allowed = ok] \in SignIns \cup {Idle}
              /\ [q EXCEPT !.step = "expire", !.allowed = ok].step # "commit"
            BY <2>1 DEF SignIns
        <3>3. \/ signin' = [signin EXCEPT ![h] = AfterHit(q, ok)]
              \/ signin' = [signin EXCEPT ![h] = [q EXCEPT !.step = "expire", !.allowed = ok]]
            BY <1>2 DEF Increment, ok
        <3> QED
            BY <1>0, <3>1, <3>2, <3>3 DEF TypeOK
    <2>5. TypeOK'
        BY <1>0, <1>2, <2>3, <2>4 DEF Increment, TypeOK, history, budget
    <2>6. Decided'
        BY <1>0, <1>2, <2>4, DecidedKept DEF Increment, TypeOK
    <2> QED
        BY <2>5, <2>6 DEF IInv
<1>3. CASE SetExpiry(h)
    <2>1. q \in [step : {"hit", "expire"}, account : Admins, key : Keys, allowed : BOOLEAN]
        BY <1>0, <1>3, SignInShape DEF SetExpiry
    <2>2. hits' \in [Keys -> [count : Nat, expires : BOOLEAN]]
        <3>1. hits' = [hits EXCEPT ![q.key] = [hits[q.key] EXCEPT !.expires = TRUE]]
            BY <1>3 DEF SetExpiry
        <3>2. [hits[q.key] EXCEPT !.expires = TRUE] \in [count : Nat, expires : BOOLEAN]
            <4>1. hits[q.key] \in [count : Nat, expires : BOOLEAN]
                BY <1>0, <2>1 DEF TypeOK
            <4> QED
                BY <4>1
        <3> QED
            BY <1>0, <3>1, <3>2 DEF TypeOK
    <2>3. signin' \in [Handlers -> SignIns \cup {Idle}] /\ signin'[h].step # "commit"
        BY <1>0, <1>3, <2>1, AfterHitTyped DEF SetExpiry, TypeOK
    <2>4. TypeOK'
        BY <1>0, <1>3, <2>2, <2>3 DEF SetExpiry, TypeOK, history, budget
    <2>5. Decided'
        BY <1>0, <1>3, <2>3, DecidedKept DEF SetExpiry, TypeOK
    <2> QED
        BY <2>4, <2>5 DEF IInv
<1>4. CASE Refuse(h)
    <2>1. q.account \in Accounts
        BY <1>0, <1>4, SignInShape DEF Refuse
    <2>2. events' \in [Users -> [succeeded : Nat, failed : Nat]]
        BY <1>0, <1>4, <2>1, LoggedTyped DEF Refuse, TypeOK
    <2>3. signin' \in [Handlers -> SignIns \cup {Idle}] /\ signin'[h].step # "commit"
        BY <1>0, <1>4 DEF Refuse, TypeOK, Idle
    <2>4. TypeOK'
        BY <1>0, <1>4, <2>2, <2>3 DEF Refuse, TypeOK, history, budget
    <2>5. Decided'
        BY <1>0, <1>4, <2>3, DecidedKept DEF Refuse, TypeOK
    <2> QED
        BY <2>4, <2>5 DEF IInv
<1>5. ASSUME NEW right \in BOOLEAN, Verify(h, right) PROVE IInv'
    <2>1. q.account \in Accounts
        BY <1>0, <1>5, SignInShape DEF Verify
    <2>2. /\ account[q.account] # NoRow
          /\ account[q.account] \in Rows
          /\ account[q.account].active
          /\ account[q.account].lock # "locked"
        BY <1>0, <1>5, <2>1 DEF Verify, MayTry, TypeOK
    <2>3. /\ signin' \in [Handlers -> SignIns \cup {Idle}]
          /\ signin'[h].account = q.account
          /\ signin'[h].seen = account[q.account]
          /\ \A k \in Handlers \ {h} : signin'[k] = signin[k]
        BY <1>0, <1>5, <2>1, <2>2 DEF Verify, TypeOK, SignIns
    <2>4. TypeOK'
        BY <1>0, <1>5, <2>3 DEF Verify, TypeOK, history, budget
    <2>5. Decided'
        BY <1>0, <1>5, <2>1, <2>2, <2>3, DecidedKept DEF Verify, TypeOK
    <2> QED
        BY <2>4, <2>5 DEF IInv
<1>6. CASE Record(h)
    <2> DEFINE new == IF q.right THEN Cleared(q.seen) ELSE Blamed(q.seen)
    <2>1. /\ q.account \in Accounts /\ q.seen \in Rows
          /\ account[q.account] \in Rows
        BY <1>0, <1>6, SignInShape DEF Record, IInv, Decided, TypeOK
    <2>2. new \in Rows
        BY <2>1, ClearedRow, BlamedRow
    <2>3. /\ account' = [account EXCEPT ![q.account] = Written(q.seen, new, account[q.account])]
          /\ Written(q.seen, new, account[q.account]) \in Rows
        BY <1>6, <2>1, <2>2, WrittenRow DEF Record
    <2>4. /\ account' \in [Accounts -> Rows \cup {NoRow}]
          /\ \A a \in Accounts : account[a] # NoRow => account'[a] # NoRow
        BY <1>0, <2>3, RowsAreNot DEF TypeOK
    <2>5. events' \in [Users -> [succeeded : Nat, failed : Nat]]
        <3>1. CASE q.right
            BY <1>0, <1>6, <2>1, <3>1, LoggedTyped DEF Record
        <3>2. CASE ~q.right
            BY <1>0, <1>6, <2>1, <3>2, LoggedTyped DEF Record
        <3> QED
            BY <3>1, <3>2
    <2>6. guesses' \in [Accounts -> Nat]
        <3>1. \E n \in Nat : guesses' = [guesses EXCEPT ![q.account] = n]
            <4>1. guesses[q.account] \in Nat /\ guesses[q.account] + 1 \in Nat
                BY <1>0, <2>1 DEF TypeOK
            <4> QED
                BY <1>6, <4>1 DEF Record
        <3> QED
            BY <1>0, <3>1 DEF TypeOK
    <2>7. signin' \in [Handlers -> SignIns \cup {Idle}] /\ signin'[h].step # "commit"
        <3>1. CASE q.right
            BY <1>0, <1>6, <2>1, <3>1 DEF Record, TypeOK, SignIns
        <3>2. CASE ~q.right
            BY <1>0, <1>6, <3>2 DEF Record, TypeOK, Idle
        <3> QED
            BY <3>1, <3>2
    <2>8. TypeOK'
        BY <1>0, <1>6, <2>4, <2>5, <2>6, <2>7 DEF Record, TypeOK, budget
    <2>9. Decided'
        BY <1>0, <1>6, <2>4, <2>7, DecidedKept DEF Record, TypeOK
    <2> QED
        BY <2>8, <2>9 DEF IInv
<1>7. CASE Open(h)
    <2>1. q.account \in Accounts
        BY <1>0, <1>7, SignInShape DEF Open
    <2>2. opened' \in [Accounts -> Nat] /\ sessions' \subseteq Sessions
        BY <1>0, <1>7, <2>1 DEF Open, TypeOK, Sessions
    <2>3. signin' \in [Handlers -> SignIns \cup {Idle}] /\ signin'[h].step # "commit"
        BY <1>0, <1>7 DEF Open, TypeOK, Idle
    <2>4. TypeOK'
        BY <1>0, <1>7, <2>2, <2>3 DEF Open, TypeOK, budget
    <2>5. Decided'
        BY <1>0, <1>7, <2>3, DecidedKept DEF Open, TypeOK
    <2> QED
        BY <2>4, <2>5 DEF IInv
<1>8. CASE Die(h)
    <2>1. signin' \in [Handlers -> SignIns \cup {Idle}] /\ signin'[h].step # "commit"
        BY <1>0, <1>8 DEF Die, TypeOK, Idle
    <2>2. TypeOK'
        BY <1>0, <1>8, <2>1 DEF Die, TypeOK, history
    <2>3. Decided'
        BY <1>0, <1>8, <2>1, DecidedKept DEF Die, TypeOK
    <2> QED
        BY <2>2, <2>3 DEF IInv
<1> QED
    BY <1>1, <1>2, <1>3, <1>4, <1>5, <1>6, <1>7, <1>8 DEF SignIn

LEMMA RequestKeeps == ASSUME IInv, NEW c \in Callers, Request(c) PROVE IInv'
<1> DEFINE q == call[c]
<1>0. /\ TypeOK
      /\ q \in Requests \cup {Idle}
      /\ \A h \in Handlers : signin[h] \in SignIns \cup {Idle}
    BY DEF IInv, TypeOK
<1>1. ASSUME NEW s \in sessions, Resolve(c, s) PROVE IInv'
    <2>1. call' \in [Callers -> Requests \cup {Idle}] /\ call'[c].step # "write"
        BY <1>0, <1>1 DEF Resolve, TypeOK, Requests
    <2>2. TypeOK'
        BY <1>0, <1>1, <2>1 DEF Resolve, TypeOK, history
    <2>3. Decided'
        BY <1>0, <1>1, <2>1, DecidedKept DEF Resolve, TypeOK
    <2> QED
        BY <2>2, <2>3 DEF IInv
<1>2. CASE Authenticate(c)
    <2>1. call' \in [Callers -> Requests \cup {Idle}] /\ call'[c].step # "write"
        BY <1>0, <1>2, RequestShape DEF Authenticate, TypeOK, Requests
    <2>2. TypeOK'
        BY <1>0, <1>2, <2>1 DEF Authenticate, TypeOK, history, budget
    <2>3. Decided'
        BY <1>0, <1>2, <2>1, DecidedKept DEF Authenticate, TypeOK
    <2> QED
        BY <2>2, <2>3 DEF IInv
<1>3. CASE Leave(c)
    <2>1. call' \in [Callers -> Requests \cup {Idle}] /\ call'[c].step # "write"
        BY <1>0, <1>3 DEF Leave, TypeOK, Idle
    <2>2. TypeOK'
        BY <1>0, <1>3, <2>1 DEF Leave, TypeOK, history, budget
    <2>3. Decided'
        BY <1>0, <1>3, <2>1, DecidedKept DEF Leave, TypeOK
    <2> QED
        BY <2>2, <2>3 DEF IInv
<1>4. CASE Logout(c)
    <2>1. call' \in [Callers -> Requests \cup {Idle}] /\ call'[c].step # "write"
        BY <1>0, <1>4 DEF Logout, TypeOK, Idle
    <2>2. TypeOK'
        BY <1>0, <1>4, <2>1 DEF Logout, TypeOK, history, budget
    <2>3. Decided'
        BY <1>0, <1>4, <2>1, DecidedKept DEF Logout, TypeOK
    <2> QED
        BY <2>2, <2>3 DEF IInv
<1>5. ASSUME NEW u \in Users, NEW role \in Roles, CreateUser(c, u, role) PROVE IInv'
    <2>1. call' \in [Callers -> Requests \cup {Idle}] /\ call'[c].step # "write"
        BY <1>0, <1>5 DEF CreateUser, TypeOK, Idle
    <2>2. /\ account' \in [Accounts -> Rows \cup {NoRow}]
          /\ \A a \in Accounts : account[a] # NoRow => account'[a] # NoRow
        <3>1. Fresh(role) \in Rows
            BY FreshRow
        <3> QED
            BY <1>0, <1>5, <3>1, RowsAreNot DEF CreateUser, TypeOK, Accounts
    <2>3. TypeOK'
        BY <1>0, <1>5, <2>1, <2>2 DEF CreateUser, TypeOK, history, budget
    <2>4. Decided'
        BY <1>0, <1>5, <2>1, <2>2, DecidedKept DEF CreateUser, TypeOK
    <2> QED
        BY <2>3, <2>4 DEF IInv
<1>6. ASSUME NEW u \in Users, NEW op \in Operations, ReadUser(c, op, u) PROVE IInv'
    <2>1. q.session \in Sessions /\ q.session.owner \in Accounts
        BY <1>0, <1>6, RequestShape DEF ReadUser, Idle, Sessions
    <2>2. account[u] \in Rows /\ account[u] # NoRow
        BY <1>0, <1>6 DEF ReadUser, TypeOK, Accounts
    <2>3. OwnsOrAdministers(q.session.owner, u)
        <3>1. CASE op = "change"
            BY <1>6, <3>1 DEF ReadUser, OwnsOrAdministers
        <3>2. CASE op # "change"
            <4>1. MayDo(q.session.owner, op, u)
                BY <1>6, <3>2 DEF ReadUser
            <4> QED
                BY <2>1, <4>1 DEF MayDo, OwnsOrAdministers, Accounts
        <3> QED
            BY <3>1, <3>2
    <2>4. /\ call' \in [Callers -> Requests \cup {Idle}]
          /\ call'[c].user = u
          /\ call'[c].session = q.session
          /\ \A d \in Callers \ {c} : call'[d] = call[d]
        BY <1>0, <1>6, <2>1, <2>2 DEF ReadUser, TypeOK, Requests
    <2>5. TypeOK'
        BY <1>0, <1>6, <2>4 DEF ReadUser, TypeOK, history, budget
    <2>6. Decided'
        BY <1>0, <1>6, <2>2, <2>3, <2>4, DecidedKept DEF ReadUser, TypeOK
    <2> QED
        BY <2>5, <2>6 DEF IInv
<1>7. CASE WriteUser(c)
    <2>1. /\ q.user \in Users /\ q.user \in Accounts
          /\ q.op \in Operations /\ q.seen \in Rows
          /\ account[q.user] \in Rows
        BY <1>0, <1>7, RequestShape DEF WriteUser, IInv, Decided, TypeOK, Accounts
    <2>2. After(q.op, q.seen) \in Rows
        BY <2>1, AfterRow
    <2>3. /\ account' \in [Accounts -> Rows \cup {NoRow}]
          /\ \A a \in Accounts : account[a] # NoRow => account'[a] # NoRow
        <3>1. Written(q.seen, After(q.op, q.seen), account[q.user]) \in Rows
            BY <2>1, <2>2, WrittenRow
        <3>2. account' = [account EXCEPT
                  ![q.user] = Written(q.seen, After(q.op, q.seen), account[q.user])]
            BY <1>7 DEF WriteUser
        <3> QED
            BY <1>0, <3>1, <3>2, RowsAreNot DEF TypeOK
    <2>4. guesses' \in [Accounts -> Nat]
        <3>1. \E n \in Nat : guesses' = [guesses EXCEPT ![q.user] = n]
            BY <1>0, <1>7, <2>1 DEF WriteUser, TypeOK
        <3> QED
            BY <1>0, <3>1 DEF TypeOK
    <2>5. call' \in [Callers -> Requests \cup {Idle}] /\ call'[c].step # "write"
        BY <1>0, <1>7 DEF WriteUser, TypeOK, Idle
    <2>6. TypeOK'
        BY <1>0, <1>7, <2>3, <2>4, <2>5 DEF WriteUser, TypeOK, budget
    <2>7. Decided'
        BY <1>0, <1>7, <2>3, <2>5, DecidedKept DEF WriteUser, TypeOK
    <2> QED
        BY <2>6, <2>7 DEF IInv
<1> QED
    BY <1>1, <1>2, <1>3, <1>4, <1>5, <1>6, <1>7 DEF Request

LEMMA TimeKeeps ==
    ASSUME IInv,
           \/ \E a \in Accounts : LockEnds(a)
           \/ \E k \in Keys : WindowEnds(k)
           \/ \E s \in sessions : SessionEnds(s)
    PROVE  IInv'
<1>0. TypeOK
    BY DEF IInv
<1>1. ASSUME NEW a \in Accounts, LockEnds(a) PROVE IInv'
    <2>1. /\ account' \in [Accounts -> Rows \cup {NoRow}]
          /\ \A b \in Accounts : account[b] # NoRow => account'[b] # NoRow
        <3>1. account[a] \in Rows
            BY <1>0, <1>1 DEF LockEnds, TypeOK
        <3>2. [account[a] EXCEPT !.lock = "expired"] \in Rows
            BY <3>1 DEF Rows, Locks
        <3>3. account' = [account EXCEPT ![a] = [account[a] EXCEPT !.lock = "expired"]]
            BY <1>1 DEF LockEnds
        <3> QED
            BY <1>0, <3>2, <3>3, RowsAreNot DEF TypeOK
    <2>2. TypeOK'
        BY <1>0, <1>1, <2>1 DEF LockEnds, TypeOK, history, budget
    <2>3. Decided'
        BY <1>0, <1>1, <2>1, DecidedKept DEF LockEnds, TypeOK
    <2> QED
        BY <2>2, <2>3 DEF IInv
<1>2. ASSUME NEW k \in Keys, WindowEnds(k) PROVE IInv'
    <2>1. TypeOK'
        BY <1>0, <1>2 DEF WindowEnds, TypeOK, history, budget
    <2>2. Decided'
        BY <1>2, DecidedKept DEF WindowEnds
    <2> QED
        BY <2>1, <2>2 DEF IInv
<1>3. ASSUME NEW s \in sessions, SessionEnds(s) PROVE IInv'
    <2>1. TypeOK'
        BY <1>0, <1>3 DEF SessionEnds, TypeOK, history, budget
    <2>2. Decided'
        BY <1>3, DecidedKept DEF SessionEnds
    <2> QED
        BY <2>1, <2>2 DEF IInv
<1> QED
    BY <1>1, <1>2, <1>3

LEMMA NextOK == ASSUME IInv, [Next]_vars PROVE IInv'
<1>1. CASE Next
    BY <1>1, SignInKeeps, RequestKeeps, TimeKeeps DEF Next
<1>2. CASE UNCHANGED vars
    BY <1>2 DEF vars, history, budget, IInv, TypeOK, Decided
<1> QED
    BY <1>1, <1>2

\* Every variable holds a value of its type.
THEOREM TypeCorrect == Spec => []TypeOK
<1>1. Spec => []IInv
    BY InitOK, NextOK, PTL DEF Spec
<1> QED
    BY <1>1, PTL DEF IInv

-------------------------------------------------------------------------------
\* A counter gets stuck only when the handler that should give it an expiry dies.
LEMMA CountersStep ==
    ASSUME IInv, [Next]_vars, NEW k \in Keys, k \in Stuck', k \notin Stuck
    PROVE  \E h \in Handlers : Die(h) /\ signin[h].key = k
<1>0. TypeOK
    BY DEF IInv
<1> SUFFICES ASSUME ~\E h \in Handlers : Die(h) /\ signin[h].key = k
             PROVE  \E h \in Handlers : signin'[h].step = "expire" /\ signin'[h].key = k
    BY DEF Stuck
<1>a. hits'[k].count > 0 /\ ~hits'[k].expires
    BY DEF Stuck
<1>1. ASSUME hits'[k] = hits[k],
             \A h \in Handlers : signin[h].step = "expire" =>
                 signin'[h].step = "expire" /\ signin'[h].key = signin[h].key
      PROVE  \E h \in Handlers : signin'[h].step = "expire" /\ signin'[h].key = k
    BY <1>0, <1>1, <1>a DEF Stuck
<1>2. CASE UNCHANGED <<hits, signin>>
    BY <1>1, <1>2
<1>3. ASSUME NEW h \in Handlers, SignIn(h)
      PROVE  \E i \in Handlers : signin'[i].step = "expire" /\ signin'[i].key = k
    <2> DEFINE q == signin[h]
    <2>0. q \in SignIns \cup {Idle} /\ signin \in [Handlers -> SignIns \cup {Idle}]
        BY <1>0 DEF TypeOK
    <2>1. CASE Increment(h)
        <3>1. q \in [step : {"hit", "expire"}, account : Admins, key : Keys, allowed : BOOLEAN]
            BY <2>0, <2>1, SignInShape DEF Increment
        <3>2. CASE q.key # k
            <4>1. hits'[k] = hits[k]
                BY <1>0, <2>1, <3>2 DEF Increment, TypeOK
            <4> QED
                BY <1>1, <2>0, <2>1, <4>1 DEF Increment, budget
        <3>3. CASE q.key = k /\ hits[k].count = 0
            <4>1. signin' = [signin EXCEPT ![h] = [q EXCEPT !.step = "expire",
                                 !.allowed = q.allowed /\ 1 <= RateLimit]]
                BY <2>1, <3>3 DEF Increment
            <4>2. signin'[h].step = "expire" /\ signin'[h].key = k
                BY <2>0, <3>1, <3>3, <4>1
            <4> QED
                BY <4>2
        <3>4. CASE q.key = k /\ hits[k].count # 0
            <4>1. hits[k] \in [count : Nat, expires : BOOLEAN]
                BY <1>0 DEF TypeOK
            <4>2. hits'[k] = [hits[k] EXCEPT !.count = hits[k].count + 1]
                BY <1>0, <2>1, <3>4 DEF Increment, TypeOK
            <4>3. hits'[k].expires = hits[k].expires
                BY <4>1, <4>2
            <4>4. PICK i \in Handlers : signin[i].step = "expire" /\ signin[i].key = k
                BY <1>a, <3>4, <4>1, <4>3 DEF Stuck
            <4>5. i # h
                BY <2>1, <4>4 DEF Increment
            <4>6. signin'[i] = signin[i]
                BY <2>0, <2>1, <4>5 DEF Increment
            <4> QED
                BY <4>4, <4>6
        <3> QED
            BY <3>2, <3>3, <3>4
    <2>2. CASE SetExpiry(h)
        <3>1. q \in [step : {"hit", "expire"}, account : Admins, key : Keys, allowed : BOOLEAN]
            BY <2>0, <2>2, SignInShape DEF SetExpiry
        <3>2. q.key # k
            <4>1. ASSUME q.key = k PROVE hits'[k].expires
                <5>1. hits[k] \in [count : Nat, expires : BOOLEAN]
                    BY <1>0 DEF TypeOK
                <5>2. hits'[k] = [hits[k] EXCEPT !.expires = TRUE]
                    BY <1>0, <2>2, <4>1 DEF SetExpiry, TypeOK
                <5> QED
                    BY <5>1, <5>2
            <4> QED
                BY <1>a, <4>1
        <3>3. hits'[k] = hits[k]
            BY <1>0, <2>2, <3>2 DEF SetExpiry, TypeOK
        <3>4. PICK i \in Handlers : signin[i].step = "expire" /\ signin[i].key = k
            BY <1>a, <3>3 DEF Stuck
        <3>5. i # h
            BY <3>2, <3>4
        <3>6. signin'[i] = signin[i]
            BY <2>0, <2>2, <3>5 DEF SetExpiry
        <3> QED
            BY <3>4, <3>6
    <2>3. CASE Die(h)
        <3>1. \A i \in Handlers \ {h} : signin'[i] = signin[i]
            BY <2>0, <2>3 DEF Die
        <3>2. PICK i \in Handlers : signin[i].step = "expire" /\ signin[i].key = k
            BY <1>a, <2>3 DEF Die, Stuck
        <3>3. i # h
            BY <2>3, <3>2
        <3> QED
            BY <3>1, <3>2, <3>3
    <2>4. ASSUME q.step # "expire", hits' = hits,
                 \A i \in Handlers \ {h} : signin'[i] = signin[i]
          PROVE  \E i \in Handlers : signin'[i].step = "expire" /\ signin'[i].key = k
        BY <1>1, <2>4
    <2>5. ASSUME NEW a \in Accounts, Begin(h, a)
          PROVE  \E i \in Handlers : signin'[i].step = "expire" /\ signin'[i].key = k
        BY <2>0, <2>4, <2>5 DEF Begin, Idle
    <2>6. CASE Refuse(h)
        BY <2>0, <2>4, <2>6 DEF Refuse, budget
    <2>7. ASSUME NEW right \in BOOLEAN, Verify(h, right)
          PROVE  \E i \in Handlers : signin'[i].step = "expire" /\ signin'[i].key = k
        BY <2>0, <2>4, <2>7 DEF Verify, budget
    <2>8. CASE Record(h)
        BY <2>0, <2>4, <2>8 DEF Record, budget
    <2>9. CASE Open(h)
        BY <2>0, <2>4, <2>9 DEF Open, budget
    <2> QED
        BY <1>3, <2>1, <2>2, <2>3, <2>5, <2>6, <2>7, <2>8, <2>9 DEF SignIn
<1>4. ASSUME NEW c \in Callers, Request(c) PROVE UNCHANGED <<hits, signin>>
    BY <1>4 DEF Request, Resolve, Authenticate, Leave, Logout, CreateUser, ReadUser, WriteUser, budget
<1>5. ASSUME NEW j \in Keys, WindowEnds(j)
      PROVE  \E i \in Handlers : signin'[i].step = "expire" /\ signin'[i].key = k
    <2>1. CASE j = k
        BY <1>0, <1>5, <1>a, <2>1 DEF WindowEnds, TypeOK
    <2>2. CASE j # k
        BY <1>0, <1>1, <1>5, <2>2 DEF WindowEnds, TypeOK, budget
    <2> QED
        BY <2>1, <2>2
<1>6. CASE \/ \E a \in Accounts : LockEnds(a)
           \/ \E s \in sessions : SessionEnds(s)
    BY <1>2, <1>6 DEF LockEnds, SessionEnds, budget
<1>7. CASE UNCHANGED vars
    BY <1>2, <1>7 DEF vars, budget
<1> QED
    BY <1>2, <1>3, <1>4, <1>5, <1>6, <1>7 DEF Next

\* Every counter that is stuck has a death of its own behind it.
Paid == IsFiniteSet(Stuck) /\ Cardinality(Stuck) <= faults

LEMMA PaidStep == ASSUME IInv, Paid, [Next]_vars PROVE Paid'
<1>0. faults \in Nat /\ Stuck \subseteq Keys /\ Stuck' \subseteq Keys
    BY DEF IInv, TypeOK, Stuck
<1>1. Cardinality(Stuck) \in Nat
    BY FS_CardinalityType DEF Paid
<1>2. CASE Stuck' \subseteq Stuck
    <2>1. IsFiniteSet(Stuck') /\ Cardinality(Stuck') <= Cardinality(Stuck)
             /\ Cardinality(Stuck') \in Nat
        BY <1>2, FS_Subset, FS_CardinalityType DEF Paid
    <2>2. faults' \in Nat /\ faults <= faults'
        <3>1. ASSUME NEW h \in Handlers, SignIn(h) PROVE faults' \in {faults, faults + 1}
            BY <3>1 DEF SignIn, Begin, Increment, SetExpiry, Refuse, Verify, Record, Open, Die,
                        budget
        <3>2. ASSUME NEW c \in Callers, Request(c) PROVE faults' = faults
            BY <3>2 DEF Request, Resolve, Authenticate, Leave, Logout, CreateUser, ReadUser,
                        WriteUser, budget
        <3>3. ASSUME \/ \E a \in Accounts : LockEnds(a)
                     \/ \E k \in Keys : WindowEnds(k)
                     \/ \E s \in sessions : SessionEnds(s)
                     \/ UNCHANGED vars
              PROVE  faults' = faults
            BY <3>3 DEF LockEnds, WindowEnds, SessionEnds, vars, budget
        <3>4. faults' \in {faults, faults + 1}
            BY <3>1, <3>2, <3>3 DEF Next
        <3> QED
            BY <1>0, <3>4
    <2> QED
        BY <1>0, <1>1, <2>1, <2>2 DEF Paid
<1>3. CASE ~(Stuck' \subseteq Stuck)
    <2>1. PICK k \in Keys : k \in Stuck' /\ k \notin Stuck
        BY <1>0, <1>3
    <2>2. PICK h \in Handlers : Die(h) /\ signin[h].key = k
        BY <2>1, CountersStep
    <2>3. Stuck' \subseteq Stuck \cup {k}
        <3>1. ASSUME NEW j \in Keys, j \in Stuck', j \notin Stuck PROVE j = k
            <4>1. PICK i \in Handlers : Die(i) /\ signin[i].key = j
                BY <3>1, CountersStep
            <4>2. i = h
                <5>1. signin[i] # Idle /\ signin'[i] = Idle /\ signin' = [signin EXCEPT ![h] = Idle]
                    BY <2>2, <4>1 DEF Die, IInv, TypeOK
                <5> QED
                    BY <5>1 DEF IInv, TypeOK
            <4> QED
                BY <2>2, <4>1, <4>2
        <3> QED
            BY <1>0, <3>1
    <2>4. IsFiniteSet(Stuck \cup {k}) /\ Cardinality(Stuck \cup {k}) = Cardinality(Stuck) + 1
        BY <2>1, FS_AddElement DEF Paid
    <2>5. IsFiniteSet(Stuck') /\ Cardinality(Stuck') <= Cardinality(Stuck) + 1
             /\ Cardinality(Stuck') \in Nat
        BY <2>3, <2>4, FS_Subset, FS_CardinalityType
    <2>6. faults' = faults + 1
        BY <2>2 DEF Die
    <2> QED
        BY <1>0, <1>1, <2>5, <2>6 DEF Paid
<1> QED
    BY <1>2, <1>3

\* No more counters stay without an expiry than handlers have died, between INCR and EXPIRE
\* (rate_limiter.py:21-23): nobody else is shut out for good.
THEOREM CountersExpire == Spec => []OnlyFaultsKeepCounters
<1>1. Init => Paid
    <2> SUFFICES ASSUME Init PROVE Paid
        OBVIOUS
    <2>1. Stuck = {}
        BY DEF Init, Stuck
    <2> QED
        BY <2>1, FS_EmptySet DEF Init, Paid
<1>2. Paid => OnlyFaultsKeepCounters
    BY DEF Paid, OnlyFaultsKeepCounters
<1> QED
    BY <1>1, <1>2, InitOK, NextOK, PaidStep, PTL DEF Spec

-------------------------------------------------------------------------------
\* What a step does to a user's row, and by whose request.
LEMMA TenantStep ==
    ASSUME IInv, Next, NEW c \in Callers, NEW u \in Users,
           call[c] # Idle, account'[u] # account[u], call'[c] # call[c]
    PROVE  LET owner == call[c].session.owner IN
           owner \in Admins \/ OrgOf[owner] = OrgOf[u]
<1>0. TypeOK /\ Decided /\ call \in [Callers -> Requests \cup {Idle}]
    BY DEF IInv, TypeOK
<1>1. PICK d \in Callers : Request(d)
    <2>1. ASSUME NEW h \in Handlers, SignIn(h) PROVE call' = call
        BY <2>1 DEF SignIn, Begin, Increment, SetExpiry, Refuse, Verify, Record, Open, Die
    <2>2. ASSUME NEW a \in Accounts, LockEnds(a) PROVE call' = call
        BY <2>2 DEF LockEnds
    <2>3. ASSUME NEW k \in Keys, WindowEnds(k) PROVE call' = call
        BY <2>3 DEF WindowEnds
    <2>4. ASSUME NEW s \in sessions, SessionEnds(s) PROVE call' = call
        BY <2>4 DEF SessionEnds
    <2> QED
        BY <2>1, <2>2, <2>3, <2>4 DEF Next
<1>2. d = c
    BY <1>0, <1>1 DEF Request, Resolve, Authenticate, Leave, Logout, CreateUser, ReadUser, WriteUser
<1>3. CASE \E role \in Roles, v \in Users : CreateUser(c, v, role)
    <2>1. MayDo(call[c].session.owner, "create", u)
        BY <1>0, <1>3 DEF CreateUser, TypeOK, Accounts
    <2>2. call[c].session.owner \in Accounts
        BY <1>0, RequestShape DEF Sessions
    <2> QED
        BY <2>1, <2>2 DEF MayDo, Accounts
<1>4. CASE WriteUser(c)
    <2>1. call[c].step = "write" /\ call[c].user = u
        BY <1>0, <1>4 DEF WriteUser, TypeOK, Accounts
    <2> QED
        BY <1>0, <2>1 DEF Decided, OwnsOrAdministers
<1>5. CASE account' = account
    BY <1>5
<1>6. \/ account' = account
      \/ \E role \in Roles, v \in Users : CreateUser(c, v, role)
      \/ WriteUser(c)
    BY <1>1, <1>2 DEF Request, Resolve, Authenticate, Leave, Logout, ReadUser
<1> QED
    BY <1>3, <1>4, <1>5, <1>6

\* "Cross-organisation access is not allowed." (organisations/api/routes.py:132), also
\* while other requests change who may do what between the check and the commit.
THEOREM TenancyKept == Spec => UsersStayInTenant
<1>1. IInv /\ [Next]_vars =>
          [\A c \in Callers, u \in Users :
              call[c] # Idle /\ account'[u] # account[u] /\ call'[c] # call[c] =>
                  LET owner == call[c].session.owner IN
                  owner \in Admins \/ OrgOf[owner] = OrgOf[u]]_vars
    BY TenantStep
<1> QED
    BY <1>1, InitOK, NextOK, PTL DEF Spec, UsersStayInTenant

-------------------------------------------------------------------------------
\* Who may have changed the row of account a, and how.
LEMMA StaleStep ==
    ASSUME IInv, Next, NEW a \in Accounts, account[a] # NoRow
    PROVE  /\ account'[a] # NoRow
           /\ ~account[a].active /\ account'[a].active =>
                \E c \in Callers : call[c].step = "write" /\ call[c].op = "activate"
                                       /\ call[c].user = a /\ call'[c] = Idle
           /\ account[a].lock = "locked" /\ account'[a].lock = "none" =>
                \/ \E c \in Callers : call[c].step = "write" /\ call[c].op \in {"reset", "change"}
                                          /\ call[c].user = a /\ call'[c] = Idle
                \/ \E h \in Handlers : signin[h].step = "commit" /\ signin[h].account = a
                                           /\ signin[h].seen.lock = "expired" /\ signin[h].right
<1>0. TypeOK /\ Decided /\ account \in [Accounts -> Rows \cup {NoRow}] /\ account[a] \in Rows
    BY DEF IInv, TypeOK
<1>1. CASE account'[a] = account[a]
    BY <1>0, <1>1
<1>2. ASSUME NEW h \in Handlers, Record(h), signin[h].account = a
      PROVE  /\ account'[a] # NoRow
             /\ account'[a].active = account[a].active
             /\ account[a].lock = "locked" /\ account'[a].lock = "none" =>
                    signin[h].seen.lock = "expired" /\ signin[h].right
    <2> DEFINE q   == signin[h]
               new == IF q.right THEN Cleared(q.seen) ELSE Blamed(q.seen)
    <2>1. q \in SignIns \cup {Idle} /\ q.step = "commit"
        BY <1>0, <1>2 DEF Record, TypeOK
    <2>2. q.seen \in Rows /\ q.right \in BOOLEAN /\ q.seen.active /\ q.seen.lock # "locked"
        BY <1>0, <2>1, SignInShape DEF Decided
    <2>3. /\ new \in Rows /\ new.active = q.seen.active
          /\ q.right => new.lock = "none"
          /\ ~q.right => new.lock \in {"locked", q.seen.lock}
        BY <2>2, ClearedRow, BlamedRow
    <2>4. account'[a] = Written(q.seen, new, account[a])
        BY <1>0, <1>2 DEF Record
    <2> HIDE DEF new
    <2>5. /\ account'[a] \in Rows
          /\ account'[a].active = account[a].active
          /\ new.lock = q.seen.lock => account'[a].lock = account[a].lock
          /\ account'[a].lock \in {new.lock, account[a].lock}
        <3> DEFINE w == Written(q.seen, new, account[a])
        <3>1. /\ w \in Rows
              /\ new.active = q.seen.active => w.active = account[a].active
              /\ new.lock = q.seen.lock => w.lock = account[a].lock
              /\ w.lock \in {new.lock, account[a].lock}
            BY <1>0, <2>2, <2>3, WrittenRow
        <3> HIDE DEF w
        <3>2. account'[a] = w
            BY <2>4 DEF w
        <3> QED
            BY <2>3, <3>1, <3>2
    <2>6. q.seen.lock \in {"none", "expired"}
        BY <2>2 DEF Rows, Locks
    <2> QED
        BY <2>2, <2>3, <2>5, <2>6, RowsAreNot
<1>3. ASSUME NEW c \in Callers, WriteUser(c), call[c].user = a
      PROVE  /\ account'[a] # NoRow
             /\ call[c].step = "write" /\ call'[c] = Idle
             /\ ~account[a].active /\ account'[a].active => call[c].op = "activate"
             /\ account[a].lock = "locked" /\ account'[a].lock = "none" =>
                    call[c].op \in {"reset", "change"}
    <2> DEFINE q   == call[c]
               new == After(q.op, q.seen)
    <2>1. q \in Requests \cup {Idle} /\ q.step = "write"
        BY <1>0, <1>3 DEF WriteUser, TypeOK
    <2>2. q.op \in Operations /\ q.seen \in Rows
        BY <2>1, RequestShape
    <2>3. /\ new \in Rows
          /\ q.op # "activate" => (new.active => q.seen.active)
          /\ q.op \notin {"reset", "change"} => new.lock = q.seen.lock
        BY <2>2, AfterRow
    <2>4. account'[a] = Written(q.seen, new, account[a])
        BY <1>0, <1>3 DEF WriteUser
    <2>5. call'[c] = Idle
        BY <1>0, <1>3 DEF WriteUser, TypeOK
    <2> HIDE DEF new
    <2>6. /\ account'[a] \in Rows
          /\ new.active = q.seen.active => account'[a].active = account[a].active
          /\ account'[a].active \in {new.active, account[a].active}
          /\ new.lock = q.seen.lock => account'[a].lock = account[a].lock
        BY <1>0, <2>2, <2>3, <2>4, WrittenRow
    <2>7. /\ new.active \in BOOLEAN /\ q.seen.active \in BOOLEAN
          /\ account[a].active \in BOOLEAN /\ account'[a].active \in BOOLEAN
        BY <1>0, <2>2, <2>3, <2>6 DEF Rows
    <2>8. ~account[a].active /\ account'[a].active => q.op = "activate"
        BY <2>3, <2>6, <2>7
    <2> QED
        BY <2>1, <2>3, <2>5, <2>6, <2>8, RowsAreNot
<1>4. ASSUME NEW b \in Accounts, LockEnds(b), a = b
      PROVE  account'[a] # NoRow /\ account'[a].active = account[a].active /\ account'[a].lock = "expired"
    <2>1. account'[a] = [account[a] EXCEPT !.lock = "expired"]
        BY <1>0, <1>4 DEF LockEnds
    <2>2. [account[a] EXCEPT !.lock = "expired"] \in Rows
        BY <1>0 DEF Rows, Locks
    <2> QED
        BY <1>0, <2>1, <2>2, RowsAreNot DEF Rows
<1>5. \/ account'[a] = account[a]
      \/ \E h \in Handlers : Record(h) /\ signin[h].account = a
      \/ \E c \in Callers : WriteUser(c) /\ call[c].user = a
      \/ \E b \in Accounts : LockEnds(b) /\ a = b
    <2>1. ASSUME NEW h \in Handlers, SignIn(h)
          PROVE  account'[a] = account[a] \/ (Record(h) /\ signin[h].account = a)
        <3>1. CASE Record(h)
            BY <1>0, <3>1 DEF Record
        <3> QED
            BY <2>1, <3>1 DEF SignIn, Begin, Increment, SetExpiry, Refuse, Verify, Open, Die
    <2>2. ASSUME NEW c \in Callers, Request(c)
          PROVE  account'[a] = account[a] \/ (WriteUser(c) /\ call[c].user = a)
        <3>1. CASE WriteUser(c)
            BY <1>0, <3>1 DEF WriteUser
        <3>2. ASSUME NEW u \in Users, NEW role \in Roles, CreateUser(c, u, role)
              PROVE  account'[a] = account[a]
            BY <1>0, <3>2 DEF CreateUser
        <3> QED
            BY <2>2, <3>1, <3>2 DEF Request, Resolve, Authenticate, Leave, Logout, ReadUser
    <2>3. ASSUME NEW b \in Accounts, LockEnds(b) PROVE account'[a] = account[a] \/ a = b
        BY <1>0, <2>3 DEF LockEnds
    <2>4. ASSUME NEW k \in Keys, WindowEnds(k) PROVE account' = account
        BY <2>4 DEF WindowEnds
    <2>5. ASSUME NEW s \in sessions, SessionEnds(s) PROVE account' = account
        BY <2>5 DEF SessionEnds
    <2> QED
        BY <2>1, <2>2, <2>3, <2>4, <2>5 DEF Next
<1>6. CASE \E h \in Handlers : Record(h) /\ signin[h].account = a
    <2>1. PICK h \in Handlers : Record(h) /\ signin[h].account = a
        BY <1>6
    <2>2. signin[h].step = "commit"
        BY <2>1 DEF Record
    <2> QED
        BY <1>2, <2>1, <2>2
<1>7. CASE \E c \in Callers : WriteUser(c) /\ call[c].user = a
    BY <1>3, <1>7
<1>8. CASE \E b \in Accounts : LockEnds(b) /\ a = b
    BY <1>4, <1>8
<1> QED
    BY <1>1, <1>5, <1>6, <1>7, <1>8

\* Whatever else changed the row since it was read: only an activation makes a disabled
\* account active again, and a lock that has not run out is lifted by a new password or
\* by a sign-in that found an earlier lock expired, and by nothing else.
THEOREM StaleWritesHarmless == Spec => StaleWritesUndoNothing
<1>1. IInv /\ [Next]_vars =>
    [\A a \in Accounts :
          /\ account[a] # NoRow => account'[a] # NoRow
          /\ account[a] # NoRow /\ ~account[a].active /\ account'[a].active =>
                \E c \in Callers : call[c].step = "write" /\ call[c].op = "activate"
                                       /\ call[c].user = a /\ call'[c] = Idle
          /\ account[a] # NoRow /\ account[a].lock = "locked" /\ account'[a].lock = "none" =>
                \/ \E c \in Callers : call[c].step = "write" /\ call[c].op \in {"reset", "change"}
                                          /\ call[c].user = a /\ call'[c] = Idle
                \/ \E h \in Handlers : signin[h].step = "commit" /\ signin[h].account = a
                                           /\ signin[h].seen.lock = "expired" /\ signin[h].right
      ]_vars
    BY StaleStep
<1> QED
    BY <1>1, InitOK, NextOK, PTL DEF Spec, StaleWritesUndoNothing

-------------------------------------------------------------------------------
\* SessionsAreLogged for one user, with the sign-ins about to open a session named.
Opening(u) == {h \in Handlers : signin[h].step = "open" /\ signin[h].account = u}

Accounted(u) ==
    LET due == opened[u] + Cardinality(Opening(u)) IN
    due <= events[u].succeeded /\ events[u].succeeded <= due + faults

LEMMA LoggedIsAccounted == SessionsAreLogged <=> \A u \in Users : Accounted(u)
BY DEF SessionsAreLogged, Accounted, Opening

LEMMA OpeningFinite ==
    ASSUME NEW u
    PROVE  IsFiniteSet(Opening(u)) /\ Cardinality(Opening(u)) \in Nat
<1>1. Opening(u) \subseteq Handlers
    BY DEF Opening
<1>2. IsFiniteSet(Opening(u))
    BY <1>1, HandlersFinite, FS_Subset
<1> QED
    BY <1>2, FS_CardinalityType

\* The numbers Accounted relates.
LEMMA AccountedTyped ==
    ASSUME TypeOK, NEW u \in Users
    PROVE  opened[u] \in Nat /\ events[u].succeeded \in Nat /\ faults \in Nat
<1>1. opened[u] \in Nat /\ events[u] \in [succeeded : Nat, failed : Nat] /\ faults \in Nat
    BY DEF TypeOK, Accounts
<1> QED
    BY <1>1

LEMMA AccountedStep ==
    ASSUME IInv, Next, NEW u \in Users, Accounted(u)
    PROVE  Accounted(u)'
<1>0. /\ TypeOK /\ TypeOK'
      /\ signin \in [Handlers -> SignIns \cup {Idle}]
      /\ u \in Accounts
    BY NextOK DEF IInv, TypeOK, Accounts
<1>1. /\ opened[u] \in Nat /\ events[u].succeeded \in Nat /\ faults \in Nat
      /\ Cardinality(Opening(u)) \in Nat
      /\ IsFiniteSet(Opening(u))
    BY <1>0, OpeningFinite, AccountedTyped
<1>2. ASSUME opened'[u] = opened[u], events'[u].succeeded = events[u].succeeded,
             faults' = faults, Opening(u)' = Opening(u)
      PROVE  Accounted(u)'
    BY <1>2 DEF Accounted
<1>3. ASSUME NEW h \in Handlers, signin[h].step # "open",
             signin'[h].step = "open" => signin'[h].account # u,
             \A k \in Handlers \ {h} : signin'[k] = signin[k]
      PROVE  Opening(u)' = Opening(u)
    BY <1>3 DEF Opening
<1>4. ASSUME NEW h \in Handlers, NEW a \in Accounts, Begin(h, a) PROVE Accounted(u)'
    <2>1. signin[h].step # "open" /\ signin'[h].step # "open"
        BY <1>0, <1>4 DEF Begin, Idle
    <2> QED
        BY <1>0, <1>2, <1>3, <1>4, <2>1 DEF Begin, history
<1>5. ASSUME NEW h \in Handlers, Increment(h) \/ SetExpiry(h) PROVE Accounted(u)'
    <2> DEFINE q == signin[h]
    <2>1. q \in [step : {"hit", "expire"}, account : Admins, key : Keys, allowed : BOOLEAN]
        BY <1>0, <1>5, SignInShape DEF Increment, SetExpiry
    <2>2. signin[h].step # "open" /\ signin'[h].step # "open"
        <3>1. ASSUME NEW allowed \in BOOLEAN PROVE AfterHit(q, allowed).step # "open"
            BY <2>1, AfterHitTyped
        <3>2. ASSUME NEW allowed \in BOOLEAN
              PROVE  [q EXCEPT !.step = "expire", !.allowed = allowed].step = "expire"
            BY <2>1
        <3>3. CASE Increment(h)
            BY <1>0, <2>1, <3>1, <3>2, <3>3 DEF Increment
        <3>4. CASE SetExpiry(h)
            BY <1>0, <2>1, <3>1, <3>4 DEF SetExpiry
        <3> QED
            BY <1>5, <2>1, <3>3, <3>4
    <2>3. /\ UNCHANGED <<opened, events, faults>>
          /\ \A k \in Handlers \ {h} : signin'[k] = signin[k]
        BY <1>0, <1>5 DEF Increment, SetExpiry, history, budget
    <2> QED
        BY <1>2, <1>3, <2>2, <2>3
<1>6. ASSUME NEW h \in Handlers, Refuse(h) PROVE Accounted(u)'
    <2>1. events'[u].succeeded = events[u].succeeded
        <3>1. events[u] \in [succeeded : Nat, failed : Nat]
            BY <1>0 DEF TypeOK
        <3>2. \/ events'[u] = events[u]
              \/ events'[u] = [events[u] EXCEPT !.failed = events[u].failed + 1]
            BY <1>0, <1>6 DEF Refuse, Logged, TypeOK
        <3> QED
            BY <3>1, <3>2
    <2>2. /\ signin[h].step # "open" /\ signin'[h].step # "open"
          /\ \A k \in Handlers \ {h} : signin'[k] = signin[k]
        BY <1>0, <1>6 DEF Refuse, Idle
    <2> QED
        BY <1>2, <1>3, <1>6, <2>1, <2>2 DEF Refuse, history, budget
<1>7. ASSUME NEW h \in Handlers, NEW right \in BOOLEAN, Verify(h, right) PROVE Accounted(u)'
    <2>1. /\ signin[h].step # "open" /\ signin'[h].step # "open"
          /\ \A k \in Handlers \ {h} : signin'[k] = signin[k]
        BY <1>0, <1>7 DEF Verify
    <2> QED
        BY <1>2, <1>3, <1>7, <2>1 DEF Verify, history, budget
<1>8. ASSUME NEW h \in Handlers, Record(h) PROVE Accounted(u)'
    <2> DEFINE q == signin[h]
    <2>1. /\ q.step # "open"
          /\ \A k \in Handlers \ {h} : signin'[k] = signin[k]
          /\ UNCHANGED <<opened, faults>>
          /\ events[u] \in [succeeded : Nat, failed : Nat]
        BY <1>0, <1>8 DEF Record, TypeOK, budget
    <2>2. CASE q.account = u /\ q.right
        <3>1. events'[u] = [events[u] EXCEPT !.succeeded = events[u].succeeded + 1]
            BY <1>0, <1>8, <2>2 DEF Record, Logged, TypeOK
        <3>2. events'[u].succeeded = events[u].succeeded + 1
            BY <2>1, <3>1
        <3>3. signin'[h] = [step |-> "open", account |-> u]
            BY <1>0, <1>8, <2>2 DEF Record
        <3>4. Opening(u)' = Opening(u) \cup {h} /\ h \notin Opening(u)
            BY <2>1, <3>3 DEF Opening
        <3>5. Cardinality(Opening(u))' = Cardinality(Opening(u)) + 1
            BY <1>1, <3>4, FS_AddElement
        <3> QED
            BY <1>1, <2>1, <3>2, <3>5 DEF Accounted
    <2>3. CASE q.account # u
        <3>1. events'[u] = events[u]
            BY <1>0, <1>8, <2>3 DEF Record, Logged, TypeOK
        <3>2. signin'[h] = Idle \/ signin'[h].account # u
            BY <1>0, <1>8, <2>3 DEF Record
        <3> QED
            BY <1>2, <1>3, <2>1, <3>1, <3>2 DEF Idle
    <2>4. CASE ~q.right
        <3>1. \/ events'[u] = events[u]
              \/ events'[u] = [events[u] EXCEPT !.failed = events[u].failed + 1]
            BY <1>0, <1>8, <2>4 DEF Record, Logged, TypeOK
        <3>2. events'[u].succeeded = events[u].succeeded
            BY <2>1, <3>1
        <3>3. signin'[h] = Idle
            BY <1>0, <1>8, <2>4 DEF Record
        <3> QED
            BY <1>2, <1>3, <2>1, <3>2, <3>3 DEF Idle
    <2> QED
        BY <2>2, <2>3, <2>4
<1>9. ASSUME NEW h \in Handlers, Open(h) \/ Die(h), h \in Opening(u)
      PROVE  Accounted(u)'
    <2>1. signin'[h] = Idle /\ \A k \in Handlers \ {h} : signin'[k] = signin[k]
        BY <1>0, <1>9 DEF Open, Die
    <2>2. Opening(u)' = Opening(u) \ {h}
        BY <2>1 DEF Opening, Idle
    <2>3. Cardinality(Opening(u))' = Cardinality(Opening(u)) - 1
        BY <1>1, <1>9, <2>2, FS_RemoveElement
    <2>4. CASE Open(h)
        <3>1. opened'[u] = opened[u] + 1 /\ events' = events /\ faults' = faults
            BY <1>0, <1>9, <2>4 DEF Open, Opening, TypeOK, budget
        <3> QED
            BY <1>1, <2>3, <3>1 DEF Accounted
    <2>5. CASE Die(h)
        <3>1. opened' = opened /\ events' = events /\ faults' = faults + 1
            BY <2>5 DEF Die, history
        <3> QED
            BY <1>1, <2>3, <3>1 DEF Accounted
    <2> QED
        BY <1>9, <2>4, <2>5
<1>10. ASSUME NEW h \in Handlers, Open(h) \/ Die(h), h \notin Opening(u)
       PROVE  Accounted(u)'
    <2>1. signin'[h] = Idle /\ \A k \in Handlers \ {h} : signin'[k] = signin[k]
        BY <1>0, <1>10 DEF Open, Die
    <2>2. Opening(u)' = Opening(u)
        BY <1>10, <2>1 DEF Opening, Idle
    <2>3. CASE Open(h)
        <3>1. opened'[u] = opened[u] /\ events' = events /\ faults' = faults
            BY <1>0, <1>10, <2>3 DEF Open, Opening, TypeOK, budget
        <3> QED
            BY <1>2, <2>2, <3>1
    <2>4. CASE Die(h)
        <3>1. opened' = opened /\ events' = events /\ faults' = faults + 1
            BY <2>4 DEF Die, history
        <3> QED
            BY <1>1, <2>2, <3>1 DEF Accounted
    <2> QED
        BY <1>10, <2>3, <2>4
<1>11. ASSUME UNCHANGED <<opened, events, faults, signin>> PROVE Accounted(u)'
    BY <1>2, <1>11 DEF Opening
<1>12. ASSUME NEW c \in Callers, Request(c) PROVE UNCHANGED <<opened, events, faults, signin>>
    BY <1>12 DEF Request, Resolve, Authenticate, Leave, Logout, CreateUser, ReadUser, WriteUser,
                 history, budget
<1>13. CASE \/ \E a \in Accounts : LockEnds(a)
            \/ \E k \in Keys : WindowEnds(k)
            \/ \E s \in sessions : SessionEnds(s)
    BY <1>11, <1>13 DEF LockEnds, WindowEnds, SessionEnds, history, budget
<1>14. ASSUME NEW h \in Handlers, SignIn(h) PROVE Accounted(u)'
    BY <1>4, <1>5, <1>6, <1>7, <1>8, <1>9, <1>10, <1>14 DEF SignIn
<1> QED
    BY <1>11, <1>12, <1>13, <1>14 DEF Next

\* The login history and the session store keep step: no session without its event, and
\* no more successes than sessions, sign-ins about to open one, and deaths.
THEOREM SessionsLogged == Spec => []SessionsAreLogged
<1>1. Init => \A u \in Users : Accounted(u)
    <2> SUFFICES ASSUME Init, NEW u \in Users PROVE Accounted(u)
        OBVIOUS
    <2>1. Opening(u) = {} /\ opened[u] = 0 /\ events[u].succeeded = 0 /\ faults = 0
        BY DEF Init, Opening, Idle, Accounts
    <2> QED
        BY <2>1, FS_EmptySet DEF Accounted
<1>2. IInv /\ (\A u \in Users : Accounted(u)) /\ [Next]_vars => (\A u \in Users : Accounted(u))'
    <2>1. CASE UNCHANGED vars
        BY <2>1 DEF vars, history, budget, Accounted, Opening
    <2> QED
        BY <2>1, AccountedStep
<1>3. (\A u \in Users : Accounted(u)) => SessionsAreLogged
    BY LoggedIsAccounted
<1> QED
    BY <1>1, <1>2, <1>3, InitOK, NextOK, PTL DEF Spec
-------------------------------------------------------------------------------
\* A set of naturals that is not empty has a least element: induction without an operator
\* as parameter.
LEMMA LeastNumber ==
    ASSUME NEW T \in SUBSET Nat, T # {}
    PROVE  \E n \in T : \A m \in T : n <= m
<1> DEFINE R == OpToRel(<, Nat)
<1>1. IsWellFoundedOn(R, Nat)
    BY NatLessThanWellFounded
<1>2. \A x, y \in Nat : <<y, x>> \in R <=> y < x
    BY DEF OpToRel
<1> HIDE DEF R
<1>3. PICK x \in T : \A y \in T : <<y, x>> \notin R
    BY <1>1, WFMin
<1>4. \A m \in T : ~(m < x)
    BY <1>2, <1>3
<1> QED
    BY <1>4

\* The bound on guesses is a function, and grows with the levels there are to climb.
LEMMA GuessableExists ==
    ASSUME NEW C \in Nat, NEW n \in Nat
    PROVE  \E g \in [0 .. n -> Nat] :
               g = [k \in 0 .. n |-> IF k = 0 THEN 0 ELSE C * (1 + g[k - 1])]
<1> DEFINE Solved(m) == \E g \in [0 .. m -> Nat] :
                            g = [k \in 0 .. m |-> IF k = 0 THEN 0 ELSE C * (1 + g[k - 1])]
           T == {m \in Nat : ~Solved(m)}
<1> SUFFICES ASSUME T # {} PROVE FALSE
    OBVIOUS
<1>1. PICK m \in T : \A l \in T : m <= l
    <2> HIDE DEF Solved
    <2> QED
        BY LeastNumber
<1>2. CASE m = 0
    <2>1. [k \in 0 .. 0 |-> 0] \in [0 .. 0 -> Nat]
        OBVIOUS
    <2>2. [k \in 0 .. 0 |-> 0]
              = [k \in 0 .. 0 |-> IF k = 0 THEN 0 ELSE C * (1 + [j \in 0 .. 0 |-> 0][k - 1])]
        OBVIOUS
    <2> QED
        BY <1>1, <1>2, <2>1, <2>2
<1>3. CASE m # 0
    <2>1. m - 1 \in Nat /\ Solved(m - 1)
        <3> HIDE DEF Solved
        <3>1. m \in Nat /\ m - 1 \in Nat /\ m - 1 < m
            BY <1>3
        <3>2. m - 1 \notin T
            BY <1>1, <3>1
        <3> QED
            BY <3>1, <3>2
    <2>2. PICK g \in [0 .. m - 1 -> Nat] :
              g = [k \in 0 .. m - 1 |-> IF k = 0 THEN 0 ELSE C * (1 + g[k - 1])]
        BY <2>1
    <2> DEFINE h == [k \in 0 .. m |-> IF k = m THEN C * (1 + g[m - 1]) ELSE g[k]]
    <2>3. C * (1 + g[m - 1]) \in Nat
        BY <1>3
    <2>4. h \in [0 .. m -> Nat]
        BY <1>3, <2>3
    <2>5. ASSUME NEW k \in 0 .. m
          PROVE  h[k] = IF k = 0 THEN 0 ELSE C * (1 + h[k - 1])
        <3>1. CASE k = m
            BY <1>3, <3>1
        <3>2. CASE k # m
            <4>1. k \in 0 .. m - 1 /\ (k # 0 => k - 1 \in 0 .. m - 1 /\ k - 1 # m)
                BY <3>2
            <4> QED
                BY <2>2, <3>2, <4>1
        <3> QED
            BY <3>1, <3>2
    <2>6. h = [k \in 0 .. m |-> IF k = 0 THEN 0 ELSE C * (1 + h[k - 1])]
        <3> HIDE DEF h
        <3> QED
            BY <2>4, <2>5
    <2> HIDE DEF h
    <2> QED
        BY <1>1, <2>4, <2>6
<1> QED
    BY <1>2, <1>3

LEMMA GuessableDef ==
    /\ Cardinality(Handlers) \in Nat
    /\ \A k \in 0 .. MaxFailed - 1 :
          Guessable[k] = IF k = 0 THEN 0 ELSE Cardinality(Handlers) * (1 + Guessable[k - 1])
<1> DEFINE C == Cardinality(Handlers)
           n == MaxFailed - 1
           Solves(f) == f = [k \in 0 .. n |-> IF k = 0 THEN 0 ELSE C * (1 + f[k - 1])]
<1>1. C \in Nat /\ n \in Nat
    BY HandlersFinite, LimitTypes, FS_CardinalityType
<1>2. \E f : Solves(f)
    <2>1. \E g \in [0 .. n -> Nat] : Solves(g)
        <3> HIDE DEF C, n
        <3> QED
            BY <1>1, GuessableExists
    <2> HIDE DEF Solves
    <2> QED
        BY <2>1
<1>3. Guessable = CHOOSE f : Solves(f)
    BY DEF Guessable
<1>4. Solves(Guessable)
    <2> HIDE DEF Solves
    <2> QED
        BY <1>2, <1>3
<1>5. ASSUME NEW k \in 0 .. n
      PROVE  Guessable[k] = IF k = 0 THEN 0 ELSE C * (1 + Guessable[k - 1])
    <2> HIDE DEF C, n
    <2> QED
        BY <1>4
<1> QED
    BY <1>1, <1>5

LEMMA GuessableGrows ==
    \A k \in 0 .. MaxFailed - 1 :
        \A j \in 0 .. k : Guessable[j] \in Nat /\ Guessable[j] <= Guessable[k]
<1> DEFINE C == Cardinality(Handlers)
           Good(k) == \A j \in 0 .. k : /\ Guessable[j] \in Nat
                                        /\ Guessable[j] <= Guessable[k]
                                        /\ C = 0 => Guessable[j] = 0
           T == {k \in 0 .. MaxFailed - 1 : ~Good(k)}
<1> SUFFICES ASSUME T # {} PROVE FALSE
    OBVIOUS
<1>1. C \in Nat
    BY GuessableDef
<1>2. PICK k \in T : \A l \in T : k <= l
    <2> HIDE DEF Good
    <2>1. T \in SUBSET Nat
        BY LimitTypes
    <2> QED
        BY <2>1, LeastNumber
<1>3. Guessable[k] = IF k = 0 THEN 0 ELSE C * (1 + Guessable[k - 1])
    BY GuessableDef
<1>4. k \in Nat /\ k <= MaxFailed - 1
    BY LimitTypes
<1>5. CASE k = 0
    BY <1>2, <1>3, <1>5
<1>6. CASE k # 0
    <2>1. k - 1 \in 0 .. MaxFailed - 1 /\ k - 1 \notin T
        BY LimitTypes, <1>2, <1>4, <1>6
    <2>2. Good(k - 1)
        BY <2>1
    <2>3. \A x \in Nat : /\ C * (1 + x) \in Nat
                         /\ C # 0 => x <= C * (1 + x)
                         /\ C = 0 => C * (1 + x) = 0
        <3> HIDE DEF C
        <3> QED
            BY <1>1
    <2>4. Guessable[k - 1] \in Nat /\ (C = 0 => Guessable[k - 1] = 0)
        BY <1>4, <1>6, <2>2
    <2>5. /\ Guessable[k] \in Nat /\ Guessable[k - 1] <= Guessable[k]
          /\ C = 0 => Guessable[k] = 0
        BY <1>3, <1>6, <2>3, <2>4
    <2>6. \A j \in 0 .. k : j = k \/ j \in 0 .. k - 1
        BY <1>4
    <2>7. Good(k)
        BY <2>2, <2>4, <2>5, <2>6
    <2> QED
        BY <1>2, <2>7
<1> QED
    BY <1>5, <1>6

-------------------------------------------------------------------------------
\* The counter a handler will go on from: the one it has read, if that is lower than the
\* one that is stored.
Level(h, a) ==
    IF /\ signin[h].step = "commit" /\ signin[h].account = a
       /\ signin[h].seen.failed < account[a].failed
    THEN signin[h].seen.failed
    ELSE account[a].failed

\* How many wrong passwords one handler at a level still makes possible: its own, and
\* what all of them can take from the next level on.
Worth(n) == IF n + 1 < MaxFailed THEN 1 + Guessable[MaxFailed - 2 - n] ELSE 0

\* The wrong passwords that may lie ahead, by the handler they are owed to.
Ahead(a) == {t \in Handlers \X (1 .. Worth(0)) : t[2] <= Worth(Level(t[1], a))}

\* What makes GuessesAreBounded inductive: guesses taken and guesses ahead.
Paced(a) ==
    IF account[a] = NoRow THEN guesses[a] = 0
    ELSE guesses[a] + Cardinality(Ahead(a)) <= Guessable[MaxFailed - 1]

LEMMA WorthFacts ==
    LET C == Cardinality(Handlers) IN
    /\ \A n \in Nat :
          /\ Worth(n) \in Nat
          /\ \A m \in 0 .. n : Worth(n) <= Worth(m)
          /\ n + 1 < MaxFailed => Worth(n) = 1 + C * Worth(n + 1)
    /\ Guessable[MaxFailed - 1] = C * Worth(0)
<1> DEFINE C == Cardinality(Handlers)
<1>1. C \in Nat /\ C * 0 = 0
    BY GuessableDef
<1>2. ASSUME NEW n \in Nat PROVE Worth(n) \in Nat
    <2>1. n + 1 < MaxFailed => MaxFailed - 2 - n \in 0 .. MaxFailed - 1
        BY LimitTypes
    <2> QED
        BY <2>1, GuessableGrows DEF Worth
<1>3. ASSUME NEW n \in Nat, NEW m \in 0 .. n PROVE Worth(n) <= Worth(m)
    <2>1. CASE n + 1 < MaxFailed
        <3>1. /\ MaxFailed - 2 - m \in 0 .. MaxFailed - 1
              /\ MaxFailed - 2 - n \in 0 .. MaxFailed - 2 - m
              /\ m + 1 < MaxFailed
            BY <2>1, LimitTypes
        <3>2. /\ Guessable[MaxFailed - 2 - n] <= Guessable[MaxFailed - 2 - m]
              /\ Guessable[MaxFailed - 2 - n] \in Nat
            BY <3>1, GuessableGrows
        <3>3. Guessable[MaxFailed - 2 - m] \in Nat
            BY <3>1, GuessableGrows
        <3> QED
            BY <2>1, <3>1, <3>2, <3>3 DEF Worth
    <2>2. CASE ~(n + 1 < MaxFailed)
        BY <1>2, <2>2 DEF Worth
    <2> QED
        BY <2>1, <2>2
<1>4. ASSUME NEW n \in Nat, n + 1 < MaxFailed PROVE Worth(n) = 1 + C * Worth(n + 1)
    <2>1. MaxFailed - 2 - n \in 0 .. MaxFailed - 1
        BY <1>4, LimitTypes
    <2>2. CASE MaxFailed - 2 - n = 0
        <3>1. Guessable[MaxFailed - 2 - n] = 0
            BY <2>1, <2>2, GuessableDef
        <3>2. Worth(n + 1) = 0
            BY <2>2, LimitTypes DEF Worth
        <3> QED
            BY <1>1, <1>4, <3>1, <3>2 DEF Worth
    <2>3. CASE MaxFailed - 2 - n # 0
        <3>1. (MaxFailed - 2 - n) - 1 = MaxFailed - 2 - (n + 1) /\ (n + 1) + 1 < MaxFailed
            BY <1>4, <2>3, LimitTypes
        <3>2. Guessable[MaxFailed - 2 - n] = C * (1 + Guessable[MaxFailed - 2 - (n + 1)])
            BY <2>1, <2>3, <3>1, GuessableDef
        <3> QED
            BY <1>4, <3>1, <3>2 DEF Worth
    <2> QED
        BY <2>2, <2>3
<1>5. Guessable[MaxFailed - 1] = C * Worth(0)
    <2>1. MaxFailed - 1 \in 0 .. MaxFailed - 1
        BY LimitTypes
    <2>2. CASE MaxFailed = 1
        <3>1. Guessable[MaxFailed - 1] = 0 /\ Worth(0) = 0
            BY <2>1, <2>2, GuessableDef DEF Worth
        <3> QED
            BY <1>1, <3>1
    <2>3. CASE MaxFailed # 1
        <3>1. (MaxFailed - 1) - 1 = MaxFailed - 2 - 0 /\ MaxFailed - 1 # 0 /\ 0 + 1 < MaxFailed
            BY <2>3, LimitTypes
        <3>2. Guessable[MaxFailed - 1] = C * (1 + Guessable[MaxFailed - 2 - 0])
            BY <2>1, <3>1, GuessableDef
        <3> QED
            BY <3>1, <3>2 DEF Worth
    <2> QED
        BY <2>2, <2>3
<1> QED
    BY <1>2, <1>3, <1>4, <1>5

\* No more can be owed than all handlers at the lowest level make possible.
LEMMA OwedBounded ==
    ASSUME NEW n \in Nat, NEW S \in SUBSET (Handlers \X (1 .. n))
    PROVE  /\ IsFiniteSet(S) /\ Cardinality(S) \in Nat
           /\ IsFiniteSet(Handlers \X (1 .. n))
           /\ Cardinality(Handlers \X (1 .. n)) = Cardinality(Handlers) * n
           /\ Cardinality(S) <= Cardinality(Handlers) * n
<1>1. IsFiniteSet(1 .. n) /\ Cardinality(1 .. n) = n
    BY FS_Interval
<1>2. /\ IsFiniteSet(Handlers \X (1 .. n))
      /\ Cardinality(Handlers \X (1 .. n)) = Cardinality(Handlers) * n
    BY <1>1, HandlersFinite, FS_Product
<1>3. IsFiniteSet(S) /\ Cardinality(S) <= Cardinality(Handlers \X (1 .. n))
    BY <1>2, FS_Subset
<1> QED
    BY <1>2, <1>3, FS_CardinalityType

LEMMA OwedAlone ==
    ASSUME NEW n \in Nat, NEW h
    PROVE  IsFiniteSet({h} \X (1 .. n)) /\ Cardinality({h} \X (1 .. n)) = n
<1>1. IsFiniteSet({h}) /\ Cardinality({h}) = 1
    BY FS_Singleton
<1>2. IsFiniteSet(1 .. n) /\ Cardinality(1 .. n) = n
    BY FS_Interval
<1>3. /\ IsFiniteSet({h} \X (1 .. n))
      /\ Cardinality({h} \X (1 .. n)) = Cardinality({h}) * Cardinality(1 .. n)
    BY <1>1, <1>2, FS_Product
<1> QED
    BY <1>1, <1>2, <1>3

LEMMA LevelTyped ==
    ASSUME TypeOK, NEW a \in Accounts, account[a] # NoRow, NEW h \in Handlers
    PROVE  /\ account[a] \in Rows /\ account[a].failed \in Nat
           /\ signin[h].step = "commit" => signin[h].seen \in Rows /\ signin[h].seen.failed \in Nat
           /\ Level(h, a) \in Nat /\ Level(h, a) <= account[a].failed
<1>1. account[a] \in Rows /\ account[a].failed \in Nat
    <2>1. account[a] \in Rows
        BY DEF TypeOK
    <2> QED
        BY <2>1 DEF Rows
<1>2. signin[h].step = "commit" => signin[h].seen \in Rows /\ signin[h].seen.failed \in Nat
    <2>1. signin[h] \in SignIns \cup {Idle}
        BY DEF TypeOK
    <2>2. ASSUME signin[h].step = "commit" PROVE signin[h].seen \in Rows
        BY <2>1, <2>2, SignInShape
    <2> QED
        BY <2>2 DEF Rows
<1> QED
    BY <1>1, <1>2 DEF Level

\* When the guesses of an account are forgotten, nothing ahead can be too much.
LEMMA PacedAfresh ==
    ASSUME NEW a \in Accounts, guesses'[a] = 0
    PROVE  Paced(a)'
<1>1. /\ Cardinality(Handlers) \in Nat /\ Worth(0) \in Nat
      /\ Guessable[MaxFailed - 1] = Cardinality(Handlers) * Worth(0)
    BY WorthFacts, GuessableDef
<1>2. Ahead(a)' \subseteq Handlers \X (1 .. Worth(0))
    BY DEF Ahead
<1>3. Cardinality(Ahead(a)') \in Nat /\ Cardinality(Ahead(a)') <= Guessable[MaxFailed - 1]
    BY <1>1, <1>2, OwedBounded
<1> QED
    BY <1>3 DEF Paced

\* A step that leaves the counter alone, and lets nobody have read a lower one.
LEMMA PacedQuietly ==
    ASSUME TypeOK, TypeOK', NEW a \in Accounts, Paced(a), guesses'[a] = guesses[a],
           account[a] = NoRow \/ (account'[a] # NoRow /\ account'[a].failed = account[a].failed),
           \A h \in Handlers :
               signin'[h].step = "commit" /\ signin'[h].account = a =>
                   \/ signin'[h] = signin[h]
                   \/ account[a] # NoRow /\ signin'[h].seen.failed = account[a].failed
    PROVE  Paced(a)'
<1>1. CASE account[a] = NoRow
    BY <1>1, PacedAfresh DEF Paced
<1>2. CASE account[a] # NoRow
    <2>1. account'[a] # NoRow /\ account'[a].failed = account[a].failed
        BY <1>2
    <2>2. ASSUME NEW h \in Handlers
          PROVE  /\ Level(h, a) \in Nat /\ Level(h, a)' \in Nat
                 /\ Level(h, a) <= Level(h, a)'
        <3>1. /\ account[a].failed \in Nat
              /\ Level(h, a) \in Nat /\ Level(h, a) <= account[a].failed
            BY <1>2, LevelTyped
        <3>2. CASE /\ signin'[h].step = "commit" /\ signin'[h].account = a
                   /\ signin'[h].seen.failed < account[a].failed
            BY <2>1, <3>1, <3>2 DEF Level
        <3>3. CASE ~(/\ signin'[h].step = "commit" /\ signin'[h].account = a
                     /\ signin'[h].seen.failed < account[a].failed)
            BY <2>1, <3>1, <3>3 DEF Level
        <3> QED
            BY <3>2, <3>3
    <2>3. ASSUME NEW t \in Ahead(a)' PROVE t \in Ahead(a)
        <3>1. /\ t \in Handlers \X (1 .. Worth(0)) /\ t[1] \in Handlers /\ t[2] \in Nat
              /\ t[2] <= Worth(Level(t[1], a)')
            BY DEF Ahead
        <3>2. /\ Level(t[1], a)' \in Nat /\ Level(t[1], a) \in 0 .. Level(t[1], a)'
              /\ Level(t[1], a) \in Nat
            BY <2>2, <3>1
        <3>3. /\ Worth(Level(t[1], a)') <= Worth(Level(t[1], a))
              /\ Worth(Level(t[1], a)') \in Nat /\ Worth(Level(t[1], a)) \in Nat
            BY <3>2, WorthFacts
        <3> QED
            BY <3>1, <3>3 DEF Ahead
    <2>4. Ahead(a) \in SUBSET (Handlers \X (1 .. Worth(0))) /\ Worth(0) \in Nat
        BY WorthFacts DEF Ahead
    <2>5. /\ Ahead(a)' \in SUBSET Ahead(a)
          /\ IsFiniteSet(Ahead(a)) /\ Cardinality(Ahead(a)) \in Nat
        BY <2>3, <2>4, OwedBounded
    <2>6. Cardinality(Ahead(a)') <= Cardinality(Ahead(a)) /\ Cardinality(Ahead(a)') \in Nat
        BY <2>5, FS_Subset, FS_CardinalityType
    <2>7. guesses[a] \in Nat /\ Guessable[MaxFailed - 1] \in Nat
        <3>1. MaxFailed - 1 \in 0 .. MaxFailed - 1
            BY LimitTypes
        <3> QED
            BY <3>1, GuessableGrows DEF TypeOK
    <2> QED
        BY <1>2, <2>1, <2>5, <2>6, <2>7 DEF Paced
<1> QED
    BY <1>1, <1>2

\* A wrong password that does not lock the account: what its handler was owed pays for
\* the guess and for everything the others can do from the next level on.
LEMMA PacedGuess ==
    ASSUME IInv, TypeOK', NEW h \in Handlers, NEW a \in Accounts, Paced(a),
           Record(h), signin[h].account = a, ~signin[h].right,
           signin[h].seen.failed + 1 < MaxFailed
    PROVE  Paced(a)'
<1> DEFINE j == signin[h].seen.failed
           C == Cardinality(Handlers)
           Mine == {h} \X (1 .. Worth(j))
           All == Handlers \X (1 .. Worth(j + 1))
<1>0. /\ TypeOK /\ Decided /\ signin[h].step = "commit" /\ account[a] # NoRow
      /\ signin[h].seen \in Rows /\ j \in Nat /\ account[a] \in Rows
    <2>1. TypeOK /\ Decided /\ signin[h].step = "commit" /\ account[a] # NoRow
        BY DEF IInv, Record, Decided
    <2> QED
        BY <2>1, LevelTyped
<1>1. /\ account'[a] \in Rows /\ account'[a] # NoRow /\ account'[a].failed = j + 1
    <2>1. account'[a] = Written(signin[h].seen, Blamed(signin[h].seen), account[a])
        BY <1>0 DEF Record, TypeOK
    <2>2. Blamed(signin[h].seen).failed = j + 1
        BY <1>0 DEF Blamed, Rows
    <2>3. account'[a].failed = j + 1
        BY <1>0, <2>1, <2>2 DEF Written, Column
    <2>4. account'[a] \in Rows
        BY <1>0, <2>1, BlamedRow, WrittenRow
    <2> QED
        BY <2>3, <2>4, RowsAreNot
<1>2. guesses'[a] = guesses[a] + 1 /\ guesses[a] \in Nat
    <2>1. Blamed(signin[h].seen).lock # "locked"
        <3>1. signin[h].seen.lock # "locked"
            BY <1>0 DEF Decided
        <3>2. ~(signin[h].seen.failed + 1 >= MaxFailed)
            BY <1>0, LimitTypes
        <3> QED
            BY <1>0, <3>1, <3>2 DEF Blamed, Rows
    <2> QED
        BY <1>0, <2>1 DEF Record, TypeOK
<1>3. signin' = [signin EXCEPT ![h] = Idle] /\ signin'[h] = Idle
    BY <1>0 DEF Record, TypeOK
<1>4. /\ C \in Nat /\ j + 1 \in Nat
      /\ Worth(j) \in Nat /\ Worth(j + 1) \in Nat /\ Worth(0) \in Nat
      /\ Worth(j) = 1 + C * Worth(j + 1) /\ Worth(j) <= Worth(0)
    BY <1>0, WorthFacts, GuessableDef
<1>5. Level(h, a) \in 0 .. j /\ \A i \in Handlers : Level(i, a) \in Nat
    <2>1. Level(h, a) \in Nat /\ account[a].failed \in Nat
        BY <1>0, LevelTyped
    <2>2. Level(h, a) <= j
        BY <1>0, <2>1 DEF Level
    <2> QED
        BY <1>0, <2>1, <2>2, LevelTyped
<1>6. Mine \subseteq Ahead(a)
    <2>1. Worth(j) <= Worth(Level(h, a)) /\ Worth(Level(h, a)) \in Nat
        BY <1>0, <1>5, WorthFacts
    <2> SUFFICES ASSUME NEW t \in Mine PROVE t \in Ahead(a)
        OBVIOUS
    <2>2. t \in Handlers \X (1 .. Worth(0)) /\ t[1] = h /\ t[2] \in 1 .. Worth(j)
        BY <1>4
    <2>3. t[2] <= Worth(Level(h, a))
        BY <1>4, <2>1, <2>2
    <2> QED
        BY <2>2, <2>3 DEF Ahead
<1>7. Ahead(a)' \subseteq (Ahead(a) \ Mine) \cup All
    <2> SUFFICES ASSUME NEW t \in Ahead(a)', t \notin All PROVE t \in Ahead(a) \ Mine
        OBVIOUS
    <2> DEFINE i == t[1]
    <2>1. /\ t \in Handlers \X (1 .. Worth(0)) /\ i \in Handlers /\ t[2] \in 1 .. Worth(0)
          /\ t[2] <= Worth(Level(i, a)') /\ t = <<i, t[2]>>
        BY DEF Ahead
    <2>2. Level(i, a)' # j + 1
        <3>1. ASSUME Level(i, a)' = j + 1 PROVE t \in All
            <4>1. t[2] <= Worth(j + 1)
                BY <2>1, <3>1
            <4> QED
                BY <1>4, <2>1, <4>1
        <3> QED
            BY <3>1
    <2>3. /\ signin'[i].step = "commit" /\ signin'[i].account = a
          /\ signin'[i].seen.failed < j + 1
          /\ Level(i, a)' = signin'[i].seen.failed
        BY <1>1, <2>2 DEF Level
    <2>4. i # h /\ signin'[i] = signin[i]
        BY <1>0, <1>3, <2>1, <2>3 DEF Idle, TypeOK
    <2>5. signin[i].seen.failed \in Nat /\ account[a].failed \in Nat
        BY <1>0, <2>1, <2>3, <2>4, LevelTyped
    <2>6. Level(i, a) <= signin[i].seen.failed
        BY <2>3, <2>4, <2>5 DEF Level
    <2>7. Level(i, a) \in 0 .. signin[i].seen.failed
        BY <1>5, <2>1, <2>5, <2>6
    <2>8. /\ Worth(signin[i].seen.failed) <= Worth(Level(i, a))
          /\ Worth(signin[i].seen.failed) \in Nat /\ Worth(Level(i, a)) \in Nat
        BY <2>5, <2>7, WorthFacts
    <2>9. t[2] <= Worth(Level(i, a))
        BY <2>1, <2>3, <2>4, <2>8
    <2> QED
        BY <2>1, <2>4, <2>9 DEF Ahead
<1>8. /\ IsFiniteSet(Ahead(a)) /\ Cardinality(Ahead(a)) \in Nat
      /\ IsFiniteSet(All) /\ Cardinality(All) = C * Worth(j + 1)
    <2>1. Ahead(a) \in SUBSET (Handlers \X (1 .. Worth(0)))
        BY DEF Ahead
    <2>2. {} \in SUBSET (Handlers \X (1 .. Worth(j + 1)))
        OBVIOUS
    <2> QED
        BY <1>4, <2>1, <2>2, OwedBounded
<1>9. IsFiniteSet(Mine) /\ Cardinality(Mine) = Worth(j)
    BY <1>4, OwedAlone
<1> HIDE DEF j, C, Mine, All
<1>10. /\ IsFiniteSet(Ahead(a) \ Mine)
       /\ Cardinality(Ahead(a) \ Mine) = Cardinality(Ahead(a)) - Worth(j)
    <2>1. Ahead(a) \cap Mine = Mine
        BY <1>6
    <2>2. /\ IsFiniteSet(Ahead(a) \ Mine)
          /\ Cardinality(Ahead(a) \ Mine) = Cardinality(Ahead(a)) - Cardinality(Ahead(a) \cap Mine)
        <3>1. IsFiniteSet(Ahead(a))
            BY <1>8
        <3> QED
            BY <3>1, FS_Difference
    <2> QED
        BY <1>9, <2>1, <2>2
<1>11. /\ IsFiniteSet((Ahead(a) \ Mine) \cup All)
       /\ Cardinality((Ahead(a) \ Mine) \cup All) <= Cardinality(Ahead(a)) - 1
    <2>1. /\ IsFiniteSet((Ahead(a) \ Mine) \cup All)
          /\ Cardinality((Ahead(a) \ Mine) \cup All) =
                Cardinality(Ahead(a) \ Mine) + Cardinality(All)
                    - Cardinality((Ahead(a) \ Mine) \cap All)
        BY <1>8, <1>10, FS_Union
    <2>2. Cardinality((Ahead(a) \ Mine) \cap All) \in Nat
        BY <1>10, FS_Intersection, FS_CardinalityType
    <2>3. Cardinality(All) \in Nat
        BY <1>8, FS_CardinalityType
    <2> QED
        BY <1>4, <1>8, <1>10, <2>1, <2>2, <2>3
<1>12. Cardinality(Ahead(a)') \in Nat /\ Cardinality(Ahead(a)') <= Cardinality(Ahead(a)) - 1
    <2>1. /\ IsFiniteSet(Ahead(a)')
          /\ Cardinality(Ahead(a)') <= Cardinality((Ahead(a) \ Mine) \cup All)
        BY <1>7, <1>11, FS_Subset
    <2>2. Cardinality(Ahead(a)') \in Nat /\ Cardinality((Ahead(a) \ Mine) \cup All) \in Nat
        BY <1>11, <2>1, FS_CardinalityType
    <2> QED
        BY <1>8, <1>11, <2>1, <2>2
<1>13. Guessable[MaxFailed - 1] \in Nat
    <2>1. MaxFailed - 1 \in 0 .. MaxFailed - 1
        BY LimitTypes
    <2> QED
        BY <2>1, GuessableGrows
<1> QED
    BY <1>0, <1>1, <1>2, <1>8, <1>12, <1>13 DEF Paced

LEMMA PacedStep ==
    ASSUME IInv, Next, NEW a \in Accounts, Paced(a)
    PROVE  Paced(a)'
<1>0. /\ TypeOK /\ TypeOK' /\ Decided
      /\ signin \in [Handlers -> SignIns \cup {Idle}]
      /\ account \in [Accounts -> Rows \cup {NoRow}]
    BY NextOK DEF IInv, TypeOK
<1>1. ASSUME account' = account, guesses' = guesses,
             \A h \in Handlers :
                 signin'[h].step = "commit" /\ signin'[h].account = a =>
                     \/ signin'[h] = signin[h]
                     \/ account[a] # NoRow /\ signin'[h].seen.failed = account[a].failed
      PROVE  Paced(a)'
    BY <1>0, <1>1, PacedQuietly
<1>2. ASSUME NEW h \in Handlers, account' = account, guesses' = guesses,
             signin'[h].step # "commit",
             \A i \in Handlers \ {h} : signin'[i] = signin[i]
      PROVE  Paced(a)'
    BY <1>1, <1>2
<1>3. ASSUME NEW h \in Handlers, NEW b \in Accounts, Begin(h, b) PROVE Paced(a)'
    <2>1. signin'[h].step # "commit"
        BY <1>0, <1>3 DEF Begin
    <2> QED
        BY <1>0, <1>2, <1>3, <2>1 DEF Begin, history
<1>4. ASSUME NEW h \in Handlers, Increment(h) \/ SetExpiry(h) PROVE Paced(a)'
    <2> DEFINE q == signin[h]
    <2>1. q \in [step : {"hit", "expire"}, account : Admins, key : Keys, allowed : BOOLEAN]
        BY <1>0, <1>4, SignInShape DEF Increment, SetExpiry
    <2>2. signin'[h].step # "commit"
        <3>1. ASSUME NEW allowed \in BOOLEAN PROVE AfterHit(q, allowed).step # "commit"
            BY <2>1, AfterHitTyped
        <3>2. ASSUME NEW allowed \in BOOLEAN
              PROVE  [q EXCEPT !.step = "expire", !.allowed = allowed].step = "expire"
            BY <2>1
        <3>3. CASE Increment(h)
            BY <1>0, <2>1, <3>1, <3>2, <3>3 DEF Increment
        <3>4. CASE SetExpiry(h)
            BY <1>0, <2>1, <3>1, <3>4 DEF SetExpiry
        <3> QED
            BY <1>4, <2>1, <3>3, <3>4
    <2>3. /\ UNCHANGED <<account, guesses>>
          /\ \A i \in Handlers \ {h} : signin'[i] = signin[i]
        BY <1>0, <1>4 DEF Increment, SetExpiry, history
    <2> QED
        BY <1>2, <2>2, <2>3
<1>5. ASSUME NEW h \in Handlers, Refuse(h) \/ Open(h) \/ Die(h) PROVE Paced(a)'
    <2>1. /\ UNCHANGED <<account, guesses>> /\ signin'[h] = Idle
          /\ \A i \in Handlers \ {h} : signin'[i] = signin[i]
        BY <1>0, <1>5 DEF Refuse, Open, Die, history
    <2> QED
        BY <1>2, <2>1 DEF Idle
<1>6. ASSUME NEW h \in Handlers, NEW right \in BOOLEAN, Verify(h, right) PROVE Paced(a)'
    <2>1. /\ UNCHANGED <<account, guesses>>
          /\ signin'[h] = [step |-> "commit", account |-> signin[h].account,
                           seen |-> account[signin[h].account], right |-> right]
          /\ account[signin[h].account] # NoRow
          /\ \A i \in Handlers \ {h} : signin'[i] = signin[i]
        BY <1>0, <1>6 DEF Verify, MayTry, history
    <2> QED
        BY <1>1, <2>1
<1>7. ASSUME NEW h \in Handlers, Record(h) PROVE Paced(a)'
    <2> DEFINE q == signin[h]
               new == IF q.right THEN Cleared(q.seen) ELSE Blamed(q.seen)
    <2>1. /\ q.step = "commit" /\ q.account \in Accounts /\ q.right \in BOOLEAN
          /\ q.seen \in Rows
        BY <1>0, <1>7, SignInShape DEF Record
    <2>2. /\ account' = [account EXCEPT
                            ![q.account] = Written(q.seen, new, account[q.account])]
          /\ guesses' = [guesses EXCEPT
                            ![q.account] = IF q.right \/ new.lock = "locked" THEN 0
                                           ELSE guesses[q.account] + 1]
          /\ signin'[h].step # "commit"
          /\ \A i \in Handlers \ {h} : signin'[i] = signin[i]
        BY <1>0, <1>7 DEF Record, Idle
    <2>3. CASE q.account # a
        <3>1. account'[a] = account[a] /\ guesses'[a] = guesses[a]
            BY <1>0, <2>1, <2>2, <2>3 DEF TypeOK
        <3>2. \A i \in Handlers : signin'[i].step = "commit" => signin'[i] = signin[i]
            BY <2>2
        <3> QED
            BY <1>0, <3>1, <3>2, PacedQuietly
    <2>4. CASE q.account = a /\ (q.right \/ q.seen.failed + 1 >= MaxFailed)
        <3>1. q.right \/ new.lock = "locked"
            BY <2>1, <2>4 DEF Blamed, Rows
        <3>2. guesses'[a] = 0
            BY <1>0, <2>2, <2>4, <3>1 DEF TypeOK
        <3> QED
            BY <3>2, PacedAfresh
    <2>5. CASE q.account = a /\ ~q.right /\ q.seen.failed + 1 < MaxFailed
        BY <1>0, <1>7, <2>5, PacedGuess
    <2>6. q.seen.failed + 1 < MaxFailed \/ q.seen.failed + 1 >= MaxFailed
        BY <2>1, LimitTypes DEF Rows
    <2> QED
        BY <2>3, <2>4, <2>5, <2>6
<1>8. ASSUME NEW h \in Handlers, SignIn(h) PROVE Paced(a)'
    BY <1>3, <1>4, <1>5, <1>6, <1>7, <1>8 DEF SignIn
<1>9. ASSUME NEW c \in Callers, NEW u \in Users, NEW role \in Roles, CreateUser(c, u, role)
      PROVE  Paced(a)'
    <2>1. u \in Accounts /\ signin' = signin /\ guesses' = guesses /\ account[u] = NoRow
          /\ account' = [account EXCEPT ![u] = Fresh(role)]
        BY <1>9 DEF CreateUser, Accounts, history
    <2>2. account'[a] = account[a] \/ account[a] = NoRow
        BY <1>0, <2>1
    <2> QED
        BY <1>0, <2>1, <2>2, PacedQuietly
<1>10. ASSUME NEW c \in Callers, WriteUser(c) PROVE Paced(a)'
    <2> DEFINE q == call[c]
    <2>1. q \in [step : {"write"}, session : Sessions, op : Operations, user : Users, seen : Rows]
        BY <1>0, <1>10, RequestShape DEF WriteUser, TypeOK
    <2>2. /\ q.user \in Accounts /\ account[q.user] # NoRow /\ signin' = signin
          /\ account' = [account EXCEPT
                            ![q.user] = Written(q.seen, After(q.op, q.seen), account[q.user])]
          /\ guesses' = [guesses EXCEPT
                            ![q.user] = IF q.op \in {"reset", "change"} THEN 0
                                        ELSE guesses[q.user]]
        BY <1>0, <1>10, <2>1 DEF WriteUser, Accounts, Decided
    <2>3. CASE q.user # a
        <3>1. account'[a] = account[a] /\ guesses'[a] = guesses[a]
            BY <1>0, <2>2, <2>3 DEF TypeOK
        <3> QED
            BY <1>0, <2>2, <3>1, PacedQuietly
    <2>4. CASE q.user = a /\ q.op \in {"reset", "change"}
        <3>1. guesses'[a] = 0
            BY <1>0, <2>2, <2>4 DEF TypeOK
        <3> QED
            BY <3>1, PacedAfresh
    <2>5. CASE q.user = a /\ q.op \notin {"reset", "change"}
        <3>1. After(q.op, q.seen).failed = q.seen.failed
            BY <2>1, <2>5 DEF After, Operations, Rows
        <3>2. account'[a] = Written(q.seen, After(q.op, q.seen), account[a])
            BY <1>0, <2>2, <2>5
        <3>3. account'[a].failed = account[a].failed
            BY <3>1, <3>2 DEF Written, Column
        <3>4. account'[a] # NoRow
            BY <1>0, <2>1, <2>2, <2>5, <3>2, AfterRow, WrittenRow, RowsAreNot
        <3>5. guesses'[a] = guesses[a]
            BY <1>0, <2>2, <2>5 DEF TypeOK
        <3> QED
            BY <1>0, <2>2, <3>3, <3>4, <3>5, PacedQuietly
    <2> QED
        BY <2>3, <2>4, <2>5
<1>11. ASSUME NEW c \in Callers, Request(c) PROVE Paced(a)'
    <2>1. ASSUME UNCHANGED <<account, guesses, signin>> PROVE Paced(a)'
        BY <1>1, <2>1
    <2>2. CASE Authenticate(c) \/ Leave(c) \/ Logout(c)
        BY <2>1, <2>2 DEF Authenticate, Leave, Logout, history
    <2>3. CASE \E s \in sessions : Resolve(c, s)
        BY <2>1, <2>3 DEF Resolve, history
    <2>4. CASE \E u \in Users, op \in Operations : ReadUser(c, op, u)
        BY <2>1, <2>4 DEF ReadUser, history
    <2> QED
        BY <1>9, <1>10, <1>11, <2>2, <2>3, <2>4 DEF Request
<1>12. ASSUME NEW b \in Accounts, LockEnds(b) PROVE Paced(a)'
    <2>1. /\ account[b] \in Rows /\ signin' = signin /\ guesses' = guesses
          /\ account' = [account EXCEPT ![b] = [account[b] EXCEPT !.lock = "expired"]]
        BY <1>0, <1>12 DEF LockEnds, history
    <2>2. /\ [account[b] EXCEPT !.lock = "expired"].failed = account[b].failed
          /\ [account[b] EXCEPT !.lock = "expired"] \in Rows
        BY <2>1 DEF Rows, Locks
    <2>3. account'[a] = account[a] \/ (account'[a] # NoRow /\ account'[a].failed = account[a].failed)
        BY <1>0, <2>1, <2>2, RowsAreNot
    <2>4. account[a] = NoRow => account'[a] = account[a]
        BY <1>0, <2>1, RowsAreNot
    <2> QED
        BY <1>0, <2>1, <2>3, <2>4, PacedQuietly
<1>13. CASE \/ \E k \in Keys : WindowEnds(k)
            \/ \E s \in sessions : SessionEnds(s)
    BY <1>1, <1>13 DEF WindowEnds, SessionEnds, history
<1> QED
    BY <1>8, <1>11, <1>12, <1>13 DEF Next

\* Overlapping sign-ins lose increments of the failure counter, but only so many: guessing
\* is bounded by the limit and the number of sign-ins served at a time, however requests
\* and the administration of the account interleave with them.
THEOREM GuessingIsBounded == Spec => []GuessesAreBounded
<1>1. Init => \A a \in Accounts : Paced(a)
    <2> SUFFICES ASSUME Init, NEW a \in Accounts PROVE Paced(a)
        OBVIOUS
    <2>1. guesses[a] = 0
        BY DEF Init
    <2>2. Ahead(a) \in SUBSET (Handlers \X (1 .. Worth(0)))
        BY DEF Ahead
    <2>3. Cardinality(Ahead(a)) \in Nat /\ Cardinality(Ahead(a)) <= Guessable[MaxFailed - 1]
        BY <2>2, WorthFacts, OwedBounded
    <2> QED
        BY <2>1, <2>3 DEF Paced
<1>2. IInv /\ (\A a \in Accounts : Paced(a)) /\ [Next]_vars => (\A a \in Accounts : Paced(a))'
    <2>1. CASE UNCHANGED vars
        BY <2>1 DEF vars, history, Paced, Ahead, Level
    <2> QED
        BY <2>1, PacedStep
<1>3. IInv /\ (\A a \in Accounts : Paced(a)) => GuessesAreBounded
    <2> SUFFICES ASSUME TypeOK, NEW a \in Accounts, Paced(a)
                 PROVE  guesses[a] <= Guessable[MaxFailed - 1]
        BY DEF IInv, GuessesAreBounded
    <2>1. MaxFailed - 1 \in 0 .. MaxFailed - 1
        BY LimitTypes
    <2>2. guesses[a] \in Nat /\ Guessable[MaxFailed - 1] \in Nat /\ 0 <= Guessable[MaxFailed - 1]
        BY <2>1, GuessableGrows DEF TypeOK
    <2>3. Ahead(a) \in SUBSET (Handlers \X (1 .. Worth(0)))
        BY DEF Ahead
    <2>4. Cardinality(Ahead(a)) \in Nat
        BY <2>3, WorthFacts, OwedBounded
    <2> QED
        BY <2>2, <2>4 DEF Paced
<1> QED
    BY <1>1, <1>2, <1>3, InitOK, NextOK, PTL DEF Spec
================================================================================
