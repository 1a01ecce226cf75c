SPECIFICATION PersistentSpec
CONSTANTS
  p1 = p1
  s1 = s1
  s2 = s2
  NumJobs = 2
  NumNodes = 1
  Projects = {p1}
  DefaultProject = p1
  Sessions = {s1, s2}
  NoSession = NoSession
  ProjectOf <- OneProject
  GpuCount <- LargeFirst
  MaxRetries <- NoRetry
  MaxGpus = 2
  Inventories = {1, 2}
  Granular = TRUE
  NodeHealth = TRUE
  Quotas <- AnyQuota
  Licences <- AnyLicence
  Drainable = {}
  Deletable = {}
  NoSnapshot = NoSnapshot
  MaxFailures = 2
INVARIANTS PersistenceTypeOK AcknowledgedIsStored SoundAfterFailures
SYMMETRY SessionSymmetry
