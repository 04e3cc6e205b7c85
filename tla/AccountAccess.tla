----------------------------- MODULE AccountAccess -----------------------------
(***************************************************************************)
(* Who gets in: sign-in of platform admins and organisation users, lockout  *)
(* and rate limiting, sessions, and the administration of users             *)
(* (backend/app/modules/identity, organisations, permissions).              *)
(*                                                                         *)
(* A handler reads an account row, decides, and commits; sessions and       *)
(* rate-limit counters are in Redis, one command per step.  An UPDATE names  *)
(* the columns whose new value differs from the one that was read.          *)
(* A password is only ever right or wrong.  A lock is a date: "locked" while *)
(* it lies ahead, "expired" once it has passed and nobody has cleared it.    *)
(***************************************************************************)
EXTENDS Naturals, FiniteSets

CONSTANTS
    Admins,        \* platform admins, by e-mail address
    Users,         \* (organisation, e-mail) pairs an organisation user can have
    OrgOf,         \* the organisation of each of them
    Roles,         \* roles users are created with
    Address,       \* the IP address the sign-ins of admins come from
    Handlers,      \* sign-ins being served at a time
    Callers,       \* authenticated requests being served at a time
    MaxFailed,     \* max_failed_login_attempts
    RateLimit,     \* login_rate_limit_attempts
    MaxAttempts,   \* bound: sign-ins
    MaxCalls,      \* bound: authenticated requests
    MaxFaults      \* bound: handlers that die

Accounts == Admins \cup Users
Keys     == {Address} \cup Admins

\* What a role may do to the users of its organisation.
Permissions == [ORGANISATION_ADMIN   |-> {"create", "activate", "reset", "force", "deactivate"},
                ORGANISATION_MANAGER |-> {"create", "activate", "reset", "force"},
                PROFESSIONAL_USER    |-> {},
                USER                 |-> {}]

ASSUME LimitTypes == MaxFailed \in Nat \ {0} /\ RateLimit \in Nat \ {0}
ASSUME HandlersFinite == IsFiniteSet(Handlers)
ASSUME RolesKnown == Roles \subseteq DOMAIN Permissions
ASSUME AccountsDiffer == Admins \cap Users = {} /\ Address \notin Admins

VARIABLES
    account,    \* platform_admins and organisation_users rows
    events,     \* organisation_login_events: how many succeeded and failed
    hits,       \* rate-limit counters in Redis
    sessions,   \* sessions in Redis
    signin,     \* where each sign-in is
    call,       \* where each authenticated request is
    opened,     \* history: sessions ever opened for an account
    guesses,    \* history: wrong passwords since the account was last locked or cleared
    attempts, calls, faults   \* counted against the bounds

history == <<opened, guesses>>
budget  == <<attempts, calls, faults>>
vars == <<account, events, hits, sessions, signin, call, history, budget>>

Locks == {"none", "locked", "expired"}
Rows  == [active : BOOLEAN, failed : Nat, lock : Locks, mustChange : BOOLEAN,
          role : Roles \cup {"PLATFORM"}]
NoRow == [role |-> "none"]

\* A row as it is created: a user has to change the temporary password.
Fresh(role) == [active |-> TRUE, failed |-> 0, lock |-> "none",
                mustChange |-> role # "PLATFORM", role |-> role]

Sessions == [owner : Accounts, number : Nat \ {0}]

\* Where a sign-in and an authenticated request can be, and what they have read.
Operations == {"activate", "deactivate", "force", "reset", "change"}
Idle     == [step |-> "idle"]
SignIns  == [step : {"hit", "expire"}, account : Admins, key : Keys, allowed : BOOLEAN]
                \cup [step : {"read", "open"}, account : Accounts]
                \cup [step : {"commit"}, account : Accounts, seen : Rows, right : BOOLEAN]
Requests == [step : {"authenticate", "act"}, session : Sessions]
                \cup [step : {"write"}, session : Sessions, op : Operations, user : Users,
                      seen : Rows]

\* The setup has made its admins; each user may have been created already.
Init ==
    /\ account \in {f \in [Accounts -> {NoRow, Fresh("PLATFORM")} \cup {Fresh(r) : r \in Roles}] :
                       /\ \A a \in Admins : f[a] = Fresh("PLATFORM")
                       /\ \A u \in Users : f[u] # Fresh("PLATFORM")}
    /\ events = [u \in Users |-> [succeeded |-> 0, failed |-> 0]]
    /\ hits = [k \in Keys |-> [count |-> 0, expires |-> FALSE]]
    /\ sessions = {}
    /\ signin = [h \in Handlers |-> Idle]
    /\ call = [c \in Callers |-> Idle]
    /\ opened = [a \in Accounts |-> 0]
    /\ guesses = [a \in Accounts |-> 0]
    /\ attempts = 0 /\ calls = 0 /\ faults = 0

-------------------------------------------------------------------------------
\* Mutant: the account is locked one wrong password too late.
BlamedLate(row) == [row EXCEPT !.failed = @ + 1,
                               !.lock = IF row.failed + 1 > MaxFailed THEN "locked" ELSE @]

\* What the handlers do to a row they have read.
Cleared(row) == [row EXCEPT !.failed = 0, !.lock = "none"]
Blamed(row)  == [row EXCEPT !.failed = @ + 1,
                            !.lock = IF row.failed + 1 >= MaxFailed THEN "locked" ELSE @]

\* Mutant: every column is written.
ColumnAlways(seen, new, stored) == new

\* A column is written when its new value differs from the value that was read.
Column(seen, new, stored) == IF new = seen THEN stored ELSE new

Written(seen, new, stored) ==
    [active     |-> Column(seen.active, new.active, stored.active),
     failed     |-> Column(seen.failed, new.failed, stored.failed),
     lock       |-> Column(seen.lock, new.lock, stored.lock),
     mustChange |-> Column(seen.mustChange, new.mustChange, stored.mustChange),
     role       |-> stored.role]

\* organisation_login writes one event with each outcome; Login writes none.
Logged(a, outcome) ==
    IF a \in Users THEN [events EXCEPT ![a][outcome] = @ + 1] ELSE events

-------------------------------------------------------------------------------
\* Login starts with the rate limiter, organisation_login with the row.
Begin(h, a) ==
    /\ signin[h] = Idle
    /\ attempts < MaxAttempts
    /\ attempts' = attempts + 1
    /\ signin' = [signin EXCEPT ![h] =
           IF a \in Admins THEN [step |-> "hit", account |-> a, key |-> Address, allowed |-> TRUE]
                           ELSE [step |-> "read", account |-> a]]
    /\ UNCHANGED <<account, events, hits, sessions, call, history, calls, faults>>

\* Where an admin's sign-in is after a hit: the address is counted first, then the
\* e-mail, both whatever the first one said; then the row is read or the answer is 429.
AfterHit(q, allowed) ==
    IF q.key = Address THEN [q EXCEPT !.step = "hit", !.key = q.account, !.allowed = allowed]
    ELSE IF allowed THEN [step |-> "read", account |-> q.account]
    ELSE Idle

\* Mutant: the expiry is set when the limit is reached.
IncrementLate(h) ==
    LET q     == signin[h]
        count == hits[q.key].count + 1
        ok    == q.allowed /\ count <= RateLimit IN
    /\ q.step = "hit"
    /\ hits' = [hits EXCEPT ![q.key].count = count]
    /\ signin' = [signin EXCEPT ![h] =
           IF count = RateLimit THEN [q EXCEPT !.step = "expire", !.allowed = ok] ELSE AfterHit(q, ok)]
    /\ UNCHANGED <<account, events, sessions, call, history, budget>>

\* INCR: only the handler that gets 1 goes on to EXPIRE.
Increment(h) ==
    LET q     == signin[h]
        count == hits[q.key].count + 1
        ok    == q.allowed /\ count <= RateLimit IN
    /\ q.step = "hit"
    /\ hits' = [hits EXCEPT ![q.key].count = count]
    /\ signin' = [signin EXCEPT ![h] =
           IF count = 1 THEN [q EXCEPT !.step = "expire", !.allowed = ok] ELSE AfterHit(q, ok)]
    /\ UNCHANGED <<account, events, sessions, call, history, budget>>

\* EXPIRE
SetExpiry(h) ==
    LET q == signin[h] IN
    /\ q.step = "expire"
    /\ hits' = [hits EXCEPT ![q.key].expires = TRUE]
    /\ signin' = [signin EXCEPT ![h] = AfterHit(q, q.allowed)]
    /\ UNCHANGED <<account, events, sessions, call, history, budget>>

\* Somebody has that address, and the account is neither disabled nor locked.
MayTry(row) == row # NoRow /\ row.active /\ row.lock # "locked"

\* The answer is 401 or 423; an existing user gets an event.
Refuse(h) ==
    LET q == signin[h] IN
    /\ q.step = "read"
    /\ ~MayTry(account[q.account])
    /\ events' = IF account[q.account] = NoRow THEN events ELSE Logged(q.account, "failed")
    /\ signin' = [signin EXCEPT ![h] = Idle]
    /\ UNCHANGED <<account, hits, sessions, call, history, budget>>

\* The row is read and the password compared with its hash.
Verify(h, right) ==
    LET q == signin[h] IN
    /\ q.step = "read"
    /\ MayTry(account[q.account])
    /\ signin' = [signin EXCEPT ![h] = [step |-> "commit", account |-> q.account,
                                        seen |-> account[q.account], right |-> right]]
    /\ UNCHANGED <<account, events, hits, sessions, call, history, budget>>

\* Mutant: the event of a success is added after the commit, and lost.
RecordUnlogged(h) ==
    LET q   == signin[h]
        a   == q.account
        new == IF q.right THEN Cleared(q.seen) ELSE Blamed(q.seen) IN
    /\ q.step = "commit"
    /\ account' = [account EXCEPT ![a] = Written(q.seen, new, @)]
    /\ events' = IF q.right THEN events ELSE Logged(a, "failed")
    /\ guesses' = [guesses EXCEPT ![a] = IF q.right \/ new.lock = "locked" THEN 0 ELSE @ + 1]
    /\ signin' = [signin EXCEPT ![h] =
           IF q.right THEN [step |-> "open", account |-> a] ELSE Idle]
    /\ UNCHANGED <<hits, sessions, call, opened, budget>>

\* The outcome is committed, with its event; after a wrong password the answer is 401.
Record(h) ==
    LET q   == signin[h]
        a   == q.account
        new == IF q.right THEN Cleared(q.seen) ELSE Blamed(q.seen) IN
    /\ q.step = "commit"
    /\ account' = [account EXCEPT ![a] = Written(q.seen, new, @)]
    /\ events' = Logged(a, IF q.right THEN "succeeded" ELSE "failed")
    /\ guesses' = [guesses EXCEPT ![a] = IF q.right \/ new.lock = "locked" THEN 0 ELSE @ + 1]
    /\ signin' = [signin EXCEPT ![h] =
           IF q.right THEN [step |-> "open", account |-> a] ELSE Idle]
    /\ UNCHANGED <<hits, sessions, call, opened, budget>>

\* The session is opened after the commit, under a token of its own.
Open(h) ==
    LET a == signin[h].account IN
    /\ signin[h].step = "open"
    /\ opened' = [opened EXCEPT ![a] = @ + 1]
    /\ sessions' = sessions \cup {[owner |-> a, number |-> opened[a] + 1]}
    /\ signin' = [signin EXCEPT ![h] = Idle]
    /\ UNCHANGED <<account, events, hits, call, guesses, budget>>

\* The process dies, or Redis or the database refuses the next command.
Die(h) ==
    /\ signin[h] # Idle
    /\ faults < MaxFaults
    /\ faults' = faults + 1
    /\ signin' = [signin EXCEPT ![h] = Idle]
    /\ UNCHANGED <<account, events, hits, sessions, call, history, attempts, calls>>

-------------------------------------------------------------------------------
\* Time passes: for a lock, for a counter, for a session.
LockEnds(a) ==
    /\ account[a] # NoRow
    /\ account[a].lock = "locked"
    /\ account' = [account EXCEPT ![a].lock = "expired"]
    /\ UNCHANGED <<events, hits, sessions, signin, call, history, budget>>

WindowEnds(k) ==
    /\ hits[k].expires
    /\ hits' = [hits EXCEPT ![k] = [count |-> 0, expires |-> FALSE]]
    /\ UNCHANGED <<account, events, sessions, signin, call, history, budget>>

SessionEnds(s) ==
    /\ s \in sessions
    /\ sessions' = sessions \ {s}
    /\ UNCHANGED <<account, events, hits, signin, call, history, budget>>

-------------------------------------------------------------------------------
\* A request presents a token; the store still has its session.
Resolve(c, s) ==
    /\ call[c] = Idle
    /\ calls < MaxCalls
    /\ s \in sessions
    /\ calls' = calls + 1
    /\ call' = [call EXCEPT ![c] = [step |-> "authenticate", session |-> s]]
    /\ UNCHANGED <<account, events, hits, sessions, signin, history, attempts, faults>>

\* The account behind the session is read: it must exist and be active.
Authenticate(c) ==
    LET q == call[c] IN
    /\ q.step = "authenticate"
    /\ account[q.session.owner] # NoRow
    /\ account[q.session.owner].active
    /\ call' = [call EXCEPT ![c] = [step |-> "act", session |-> q.session]]
    /\ UNCHANGED <<account, events, hits, sessions, signin, history, budget>>

\* The answer is a refusal, or the request ends without a commit.
Leave(c) ==
    /\ call[c] # Idle
    /\ call' = [call EXCEPT ![c] = Idle]
    /\ UNCHANGED <<account, events, hits, sessions, signin, history, budget>>

\* logout and DELETE sessions/current.
Logout(c) ==
    /\ call[c].step = "act"
    /\ sessions' = sessions \ {call[c].session}
    /\ call' = [call EXCEPT ![c] = Idle]
    /\ UNCHANGED <<account, events, hits, signin, history, budget>>

\* Mutant: the role is checked, the organisation is not.
MayDoAnywhere(caller, op, u) ==
    caller \in Users => op \in Permissions[account[caller].role]

\* require_permission, then _target_organisation: a platform admin may do anything
\* anywhere, a user what the role allows in the user's own organisation.
MayDo(caller, op, u) ==
    caller \in Users =>
        op \in Permissions[account[caller].role] /\ OrgOf[caller] = OrgOf[u]

\* Mutant: a role outside the catalogue is accepted.
CreateUserUnchecked(c, u, role) ==
    /\ call[c].step = "act"
    /\ MayDo(call[c].session.owner, "create", u)
    /\ account[u] = NoRow
    /\ account' = [account EXCEPT ![u] = Fresh("OWNER")]
    /\ call' = [call EXCEPT ![c] = Idle]
    /\ UNCHANGED <<events, hits, sessions, signin, history, budget>>

\* users/create: the role is one of the catalogue, and the e-mail is new to the
\* organisation (its unique constraint).
CreateUser(c, u, role) ==
    /\ call[c].step = "act"
    /\ MayDo(call[c].session.owner, "create", u)
    /\ account[u] = NoRow
    /\ account' = [account EXCEPT ![u] = Fresh(role)]
    /\ call' = [call EXCEPT ![c] = Idle]
    /\ UNCHANGED <<events, hits, sessions, signin, history, budget>>

\* What each operation on a user leaves in the row.
After(op, row) ==
    CASE op = "activate"   -> [row EXCEPT !.active = TRUE]
      [] op = "deactivate" -> [row EXCEPT !.active = FALSE]
      [] op = "force"      -> [row EXCEPT !.mustChange = TRUE]
      [] op = "reset"      -> [Cleared(row) EXCEPT !.mustChange = TRUE]
      [] op = "change"     -> [Cleared(row) EXCEPT !.mustChange = FALSE]

\* The row of user u is read: by the user, who gives the current password to change it,
\* or by somebody who administers u.
ReadUser(c, op, u) ==
    LET caller == call[c].session.owner IN
    /\ call[c].step = "act"
    /\ account[u] # NoRow
    /\ IF op = "change" THEN caller = u /\ account[u].active ELSE MayDo(caller, op, u)
    /\ call' = [call EXCEPT ![c] = [step |-> "write", session |-> @.session, op |-> op,
                                    user |-> u, seen |-> account[u]]]
    /\ UNCHANGED <<account, events, hits, sessions, signin, history, budget>>

WriteUser(c) ==
    LET q == call[c] IN
    /\ q.step = "write"
    /\ account' = [account EXCEPT ![q.user] = Written(q.seen, After(q.op, q.seen), @)]
    /\ guesses' = [guesses EXCEPT ![q.user] = IF q.op \in {"reset", "change"} THEN 0 ELSE @]
    /\ call' = [call EXCEPT ![c] = Idle]
    /\ UNCHANGED <<events, hits, sessions, signin, opened, budget>>

-------------------------------------------------------------------------------
SignIn(h) ==
    \/ \E a \in Accounts : Begin(h, a)
    \/ Increment(h) \/ SetExpiry(h)
    \/ Refuse(h)
    \/ \E right \in BOOLEAN : Verify(h, right)
    \/ Record(h) \/ Open(h)
    \/ Die(h)

Request(c) ==
    \/ \E s \in sessions : Resolve(c, s)
    \/ Authenticate(c) \/ Leave(c) \/ Logout(c)
    \/ \E u \in Users :
          \/ \E role \in Roles : CreateUser(c, u, role)
          \/ \E op \in Operations : ReadUser(c, op, u)
    \/ WriteUser(c)

Next ==
    \/ \E h \in Handlers : SignIn(h)
    \/ \E c \in Callers : Request(c)
    \/ \E a \in Accounts : LockEnds(a)
    \/ \E k \in Keys : WindowEnds(k)
    \/ \E s \in sessions : SessionEnds(s)

Spec == Init /\ [][Next]_vars

-------------------------------------------------------------------------------
\* Every variable holds a value of its type.
TypeOK ==
    /\ account \in [Accounts -> Rows \cup {NoRow}]
    /\ events \in [Users -> [succeeded : Nat, failed : Nat]]
    /\ hits \in [Keys -> [count : Nat, expires : BOOLEAN]]
    /\ sessions \subseteq Sessions
    /\ signin \in [Handlers -> SignIns \cup {Idle}]
    /\ call \in [Callers -> Requests \cup {Idle}]
    /\ opened \in [Accounts -> Nat]
    /\ guesses \in [Accounts -> Nat]
    /\ faults \in Nat

\* How many wrong passwords handlers can have taken while a counter climbed k times: all of
\* them read it at each level, each may write it back there, and then it climbs from there.
Guessable[k \in 0 .. MaxFailed - 1] ==
    IF k = 0 THEN 0 ELSE Cardinality(Handlers) * (1 + Guessable[k - 1])

\* "brute-force protection via login attempt counters + ... lockout" (ARCHITECTURE.md:175):
\* sign-ins that overlap overwrite each other's increments, so an account can take more
\* wrong passwords than MaxFailed before it is locked; but never more than this many,
\* where each level of the counter can be reached again by whoever read the one below.
GuessesAreBounded ==
    \A a \in Accounts : guesses[a] <= Guessable[MaxFailed - 1]

\* What a handler decided on a row that changed since undoes nothing it did not mean to:
\* a disabled account is active again only when it is activated, and a lock that has not
\* run out is lifted only by a new password, or by a sign-in that had found the account's
\* earlier lock expired.
StaleWritesUndoNothing ==
    [][\A a \in Accounts :
          /\ account[a] # NoRow => account'[a] # NoRow
          /\ account[a] # NoRow /\ ~account[a].active /\ account'[a].active =>
                \E c \in Callers : call[c].step = "write" /\ call[c].op = "activate"
                                       /\ call[c].user = a /\ call'[c] = Idle
          /\ account[a] # NoRow /\ account[a].lock = "locked" /\ account'[a].lock = "none" =>
                \/ \E c \in Callers : call[c].step = "write" /\ call[c].op \in {"reset", "change"}
                                          /\ call[c].user = a /\ call'[c] = Idle
                \/ \E h \in Handlers : signin[h].step = "commit" /\ signin[h].account = a
                                           /\ signin[h].seen.lock = "expired" /\ signin[h].right
      ]_vars

\* The login history (organisations/api/routes.py:187) accounts for every session of a
\* user, which lives in another store: a session has its event, and a success without a
\* session is a sign-in that is about to open it or that died.
SessionsAreLogged ==
    \A u \in Users :
        LET opening == {h \in Handlers : signin[h].step = "open" /\ signin[h].account = u}
            due     == opened[u] + Cardinality(opening) IN
        due <= events[u].succeeded /\ events[u].succeeded <= due + faults

\* "Fixed-window counter" (rate_limiter.py:15): an address or an e-mail stays shut out for
\* good when its counter has no expiry and no handler is about to give it one.  A handler
\* that dies between INCR and EXPIRE leaves one such counter behind, and nothing else does:
\* however sign-ins, deaths and expiries interleave, there are never more than deaths.
Stuck == {k \in Keys : /\ hits[k].count > 0 /\ ~hits[k].expires
                       /\ ~\E h \in Handlers : signin[h].step = "expire" /\ signin[h].key = k}
OnlyFaultsKeepCounters == Cardinality(Stuck) <= faults

\* "Cross-organisation access is not allowed." (organisations/api/routes.py:132): when a
\* request changes a user's row, whoever opened its session is that user, is a user of
\* the same organisation, or is a platform admin.
UsersStayInTenant ==
    [][\A c \in Callers, u \in Users :
          call[c] # Idle /\ account'[u] # account[u] /\ call'[c] # call[c] =>
              LET owner == call[c].session.owner IN
              owner \in Admins \/ OrgOf[owner] = OrgOf[u]]_vars
===============================================================================
