SPECIFICATION Spec
CONSTANTS
  p1 = p1
  p2 = p2
  s1 = s1
  s2 = s2
  NumJobs = 2
  NumNodes = 2
  Projects = {p1}
  DefaultProject = p1
  Sessions = {s1}
  NoSession = NoSession
  ProjectOf <- OneProject
  GpuCount <- LargeFirst
  MaxRetries <- NoRetry
  MaxGpus = 2
  Inventories = {1, 2}
  Granular = FALSE
  NodeHealth = TRUE
  Quotas <- NoQuota
  Licences <- Renewals
  Drainable = {}
  Deletable = {}
INVARIANTS ExclusiveUse UsageCoherent
PROPERTIES WorkConserving GrowthLicensed
