SPECIFICATION FairAgentSpec
CONSTANTS
  p1 = p1
  s1 = s1
  s2 = s2
  s3 = s3
  w1 = w1
  w2 = w2
  w3 = w3
  w4 = w4
  NumJobs = 1
  NumNodes = 1
  Projects = {p1}
  DefaultProject = p1
  Sessions = {s1, s2}
  NoSession = NoSession
  ProjectOf <- OneProject
  GpuCount <- OneGpuEach
  MaxRetries <- NoRetry
  MaxGpus = 1
  Inventories = {1}
  Granular = TRUE
  NodeHealth = FALSE
  Quotas <- AnyQuota
  Licences <- AnyLicence
  Drainable = {}
  Deletable = {}
  Workers = {w1, w2}
  NoWorker = NoWorker
  SessionOf <- OneWorkerEach
  Home <- OneHost
  Replaced = {}
  MaxProcesses = 2
  MaxFaults = 1
CHECK_DEADLOCK FALSE
PROPERTIES CancelCompletes
