\* Four setup requests at the same time.
CONSTANTS
    Requests = {r1, r2, r3, r4}
SPECIFICATION FairSpec
INVARIANTS
    OneSuperAdmin
    ClosedMeansAdmin
    SessionsAreAdmins
PROPERTY RequestsAnswered
\* The system stops when every request has been answered.
CHECK_DEADLOCK FALSE
