SPECIFICATION Spec
CONSTANTS
  p1 = p1
  p2 = p2
  s1 = s1
  s2 = s2
  NumJobs = 4
  NumNodes = 1
  Projects = {p1}
  DefaultProject = p1
  Sessions = {s1}
  NoSession = NoSession
  ProjectOf <- OneProject
  GpuCount <- MixedGpus
  MaxRetries <- RetryFirst
  MaxGpus = 2
  Inventories = {1, 2}
  Granular = TRUE
  NodeHealth = TRUE
  Quotas <- Tightened
  Licences <- AnyLicence
  Drainable = {}
  Deletable = {}
INVARIANTS ExclusiveUse QueueQuota ActiveQuota
PROPERTIES WorkConserving
