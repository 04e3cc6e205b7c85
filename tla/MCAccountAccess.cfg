\* Two sign-ins and a request at a time, on one admin and one user of each organisation.
CONSTANTS
    u1 = u1
    u2 = u2
    o1 = o1
    o2 = o2
    Admins = {a1}
    Users = {u1, u2}
    OrgOf <- TwoTenants
    Roles = {"ORGANISATION_ADMIN"}
    Address = ip
    Handlers = {h1, h2}
    Callers = {c1}
    MaxFailed = 2
    RateLimit = 2
    MaxAttempts = 3
    MaxCalls = 2
    MaxFaults = 1
SPECIFICATION Spec
SYMMETRY Symmetric
INVARIANTS
    TypeOK
    
    SessionsAreLogged
    OnlyFaultsKeepCounters
PROPERTIES
    
    UsersStayInTenant
\* The instance stops when its sign-ins and requests have been used up.
CHECK_DEADLOCK FALSE
