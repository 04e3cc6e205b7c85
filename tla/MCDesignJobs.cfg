SPECIFICATION Spec
CONSTANTS
  o1 = o1
  o2 = o2
  p1 = p1
  p2 = p2
  Orgs = {o1, o2}
  Projects = {p1, p2}
  OrgOf <- TwoTenants
  Requests = {r1, r2, r3}
  Workers = {w1, w2}
  NoRequest = NoRequest
  MaxFaults = 1
  MaxRedeliveries = 1
SYMMETRY Symmetric
INVARIANTS
  VersionsNumberedInOrder
  RowsAreBacked
  CompletedJobsDeliver
  WorkStaysInTenant
  OnlyFaultsStrandJobs
  UploadsAreAccountedFor
  
  ExtraVersionsAreRepeats
PROPERTIES
  VersionHistoryKept
  ImplementsOutcomes
CHECK_DEADLOCK FALSE
