SPECIFICATION Spec
CONSTANTS
  o1 = o1
  o2 = o2
  p1 = p1
  p2 = p2
  Orgs = {o1}
  Projects = {p1}
  OrgOf <- OneTenant
  Requests = {r1, r2}
  Workers = {w1, w2}
  NoRequest = NoRequest
  MaxFaults = 0
  MaxRedeliveries = 1
SYMMETRY Symmetric
INVARIANTS
  RetryIsIdempotent
CHECK_DEADLOCK FALSE
