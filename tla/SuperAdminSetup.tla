---------------------------- MODULE SuperAdminSetup ----------------------------
(***************************************************************************)
(* POST /identity/setup (backend/app/modules/identity): creating the first  *)
(* Super Administrator, once, whatever number of requests arrive together.  *)
(*                                                                         *)
(* The use case reads the completion marker, reads the admins, writes the   *)
(* marker inside a savepoint, adds the admin and commits both; the handler  *)
(* then opens a session in another store.  A marker row that is inserted    *)
(* but not committed makes the insert of another request wait.              *)
(***************************************************************************)
CONSTANT Requests   \* setup requests, one admin each at most

VARIABLES
    marker,     \* the initial_setup_completed row is committed
    admins,     \* requests whose platform_admins row is committed
    sessions,   \* requests whose admin was given a session
    at,         \* how far each request has got
    closed      \* history: requests refused because setup was complete

vars == <<marker, admins, sessions, at, closed>>

Stages == {"idle", "checked", "cleared", "marked", "committed", "answered"}

Init ==
    /\ marker = FALSE
    /\ admins = {}
    /\ sessions = {}
    /\ at = [r \in Requests |-> "idle"]
    /\ closed = {}

Goto(r, from, to) == at[r] = from /\ at' = [at EXCEPT ![r] = to]
Refuse(r, from) ==
    /\ Goto(r, from, "answered")
    /\ closed' = closed \cup {r}
    /\ UNCHANGED <<marker, admins, sessions>>

\* _is_setup_completed, first read: the marker.
CheckMarker(r) ==
    \/ marker /\ Refuse(r, "idle")
    \/ /\ ~marker /\ Goto(r, "idle", "checked")
       /\ UNCHANGED <<marker, admins, sessions, closed>>

\* _is_setup_completed, second read: any admin.
CheckAdmins(r) ==
    \/ admins # {} /\ Refuse(r, "checked")
    \/ /\ admins = {} /\ Goto(r, "checked", "cleared")
       /\ UNCHANGED <<marker, admins, sessions, closed>>

\* Setup is open, but the setup token or the password is not accepted.
RejectInput(r) ==
    /\ admins = {}
    /\ Goto(r, "checked", "answered")
    /\ UNCHANGED <<marker, admins, sessions, closed>>

\* Mutant: a marker row without its unique key.
MarkAlways(r) ==
    /\ Goto(r, "cleared", "marked")
    /\ UNCHANGED <<marker, admins, sessions, closed>>

\* Mutant: the marker is committed ahead of the admin.
MarkCommitted(r) ==
    \/ marker /\ Refuse(r, "cleared")
    \/ /\ ~marker /\ Goto(r, "cleared", "marked")
       /\ marker' = TRUE
       /\ UNCHANGED <<admins, sessions, closed>>

\* Mutant: a conflict on the marker is retried in place of refused.
MarkRetrying(r) ==
    /\ ~marker /\ \A s \in Requests : at[s] # "marked"
    /\ Goto(r, "cleared", "marked")
    /\ UNCHANGED <<marker, admins, sessions, closed>>

\* set_once: the insert waits for an uncommitted marker, and fails on a committed one.
Mark(r) ==
    /\ \A s \in Requests : at[s] # "marked"
    /\ \/ marker /\ Refuse(r, "cleared")
       \/ /\ ~marker /\ Goto(r, "cleared", "marked")
          /\ UNCHANGED <<marker, admins, sessions, closed>>

\* Marker and admin become visible together.
Commit(r) ==
    /\ Goto(r, "marked", "committed")
    /\ marker' = TRUE
    /\ admins' = admins \cup {r}
    /\ UNCHANGED <<sessions, closed>>

\* Mutant: the session is opened before the commit.
OpenSessionEarly(r) ==
    /\ at[r] \in {"marked", "committed"} /\ r \notin sessions
    /\ sessions' = sessions \cup {r}
    /\ at' = [at EXCEPT ![r] = IF @ = "committed" THEN "answered" ELSE @]
    /\ UNCHANGED <<marker, admins, closed>>

\* The caller is signed in.
OpenSession(r) ==
    /\ Goto(r, "committed", "answered")
    /\ sessions' = sessions \cup {r}
    /\ UNCHANGED <<marker, admins, closed>>

\* The process, the connection or a store fails: an open transaction rolls back.
RequestDies(r) ==
    /\ at[r] \notin {"idle", "answered"}
    /\ at' = [at EXCEPT ![r] = "answered"]
    /\ UNCHANGED <<marker, admins, sessions, closed>>

Step(r) ==
    \/ CheckAdmins(r) \/ RejectInput(r) \/ Mark(r) \/ Commit(r) \/ OpenSession(r)

Next == \E r \in Requests : CheckMarker(r) \/ Step(r) \/ RequestDies(r)

Spec == Init /\ [][Next]_vars

\* A request that has been received is worked on; none has to be sent.
FairSpec == Spec /\ \A r \in Requests : WF_vars(Step(r))

-------------------------------------------------------------------------------
\* Every variable holds a value of its type.
TypeOK ==
    /\ marker \in BOOLEAN
    /\ admins \subseteq Requests /\ sessions \subseteq Requests /\ closed \subseteq Requests
    /\ at \in [Requests -> Stages]

\* "even concurrent first requests can create exactly one admin" (setup_super_admin.py:6).
OneSuperAdmin == \A r, s \in admins : r = s

\* Setup is never closed with nobody able to sign in: a request is told that setup is
\* complete only if there is an admin, also after other requests died half-way.
ClosedMeansAdmin == closed # {} \/ marker => admins # {}

\* A session is only ever given to an admin whose row is committed.
SessionsAreAdmins == sessions \subseteq admins

\* Every request that passed the first check is answered, although it may wait for the
\* transaction of another one.
RequestsAnswered == \A r \in Requests : at[r] = "checked" ~> at[r] = "answered"
===============================================================================
