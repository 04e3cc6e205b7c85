SPECIFICATION FairSpec
CONSTANTS
  o1 = o1
  o2 = o2
  p1 = p1
  p2 = p2
  Orgs = {o1}
  Projects = {p1}
  OrgOf <- OneTenant
  Requests = {r1, r2, r3}
  Workers = {w1, w2}
  NoRequest = NoRequest
  MaxFaults = 1
  MaxRedeliveries = 0
PROPERTIES
  SourcesAdvance
  JobsSettle
CHECK_DEADLOCK FALSE
