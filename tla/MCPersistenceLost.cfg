SPECIFICATION PersistentSpec
CONSTANTS
  p1 = p1
  s1 = s1
  s2 = s2
  NumJobs = 2
  NumNodes = 2
  Projects = {p1}
  DefaultProject = p1
  Sessions = {s1}
  NoSession = NoSession
  ProjectOf <- OneProject
  GpuCount <- OneGpuEach
  MaxRetries <- NoRetry
  MaxGpus = 2
  Inventories = {2}
  Granular = FALSE
  NodeHealth = FALSE
  Quotas <- AnyQuota
  Licences <- AnyLicence
  Drainable = {}
  Deletable = {}
  NoSnapshot = NoSnapshot
  MaxFailures = 2
INVARIANTS RunsAlone
