------------------------- MODULE SuperAdminSetupProofs -------------------------
(***************************************************************************)
(* Proofs about SuperAdminSetup, for any set of requests.                  *)
(***************************************************************************)
EXTENDS SuperAdminSetup, TLAPS

\* One request at most holds the uncommitted marker row, and only while none is committed.
MarkerIsGate ==
    \A r \in Requests : at[r] = "marked" =>
        ~marker /\ \A s \in Requests : at[s] = "marked" => s = r

IInv ==
    /\ TypeOK
    /\ OneSuperAdmin
    /\ ClosedMeansAdmin
    /\ SessionsAreAdmins
    /\ MarkerIsGate
    /\ admins # {} => marker
    /\ \A r \in Requests : at[r] = "committed" => r \in admins

\* The invariant holds in every reachable state.
THEOREM Inductive == Spec => []IInv
<1> USE DEF OneSuperAdmin, ClosedMeansAdmin, SessionsAreAdmins, MarkerIsGate
<1>1. Init => IInv
    BY DEF Init, IInv, TypeOK, Stages
<1>2. IInv /\ [Next]_vars => IInv'
    <2> SUFFICES ASSUME IInv, [Next]_vars PROVE IInv'
        OBVIOUS
    <2>1. CASE UNCHANGED vars
        BY <2>1 DEF vars, IInv, TypeOK
    <2>2. ASSUME NEW r \in Requests, CheckMarker(r) PROVE IInv'
        BY <2>2 DEF CheckMarker, Refuse, Goto, IInv, TypeOK, Stages
    <2>3. ASSUME NEW r \in Requests, CheckAdmins(r) PROVE IInv'
        BY <2>3 DEF CheckAdmins, Refuse, Goto, IInv, TypeOK, Stages
    <2>4. ASSUME NEW r \in Requests, RejectInput(r) PROVE IInv'
        BY <2>4 DEF RejectInput, Goto, IInv, TypeOK, Stages
    <2>5. ASSUME NEW r \in Requests, Mark(r) PROVE IInv'
        BY <2>5 DEF Mark, Refuse, Goto, IInv, TypeOK, Stages
    <2>6. ASSUME NEW r \in Requests, Commit(r) PROVE IInv'
        BY <2>6 DEF Commit, Goto, IInv, TypeOK, Stages
    <2>7. ASSUME NEW r \in Requests, OpenSession(r) PROVE IInv'
        BY <2>7 DEF OpenSession, Goto, IInv, TypeOK, Stages
    <2>8. ASSUME NEW r \in Requests, RequestDies(r) PROVE IInv'
        BY <2>8 DEF RequestDies, IInv, TypeOK, Stages
    <2> QED
        BY <2>1, <2>2, <2>3, <2>4, <2>5, <2>6, <2>7, <2>8 DEF Next, Step
<1> QED
    BY <1>1, <1>2, PTL DEF Spec

\* However many first requests arrive together, one Super Administrator is created.
THEOREM ExactlyOneAdmin == Spec => []OneSuperAdmin
<1>1. IInv => OneSuperAdmin
    BY DEF IInv
<1> QED
    BY <1>1, Inductive, PTL

\* Setup is reported complete only when there is an admin.
THEOREM NeverClosedEmpty == Spec => []ClosedMeansAdmin
<1>1. IInv => ClosedMeansAdmin
    BY DEF IInv
<1> QED
    BY <1>1, Inductive, PTL

\* Sessions of this handler belong to committed admins.
THEOREM SessionsBacked == Spec => []SessionsAreAdmins
<1>1. IInv => SessionsAreAdmins
    BY DEF IInv
<1> QED
    BY <1>1, Inductive, PTL
===============================================================================
