SPECIFICATION Spec
CONSTANTS
  p1 = p1
  p2 = p2
  s1 = s1
  s2 = s2
  NumJobs = 2
  NumNodes = 1
  Projects = {p1, p2}
  DefaultProject = p1
  Sessions = {s1, s2}
  NoSession = NoSession
  ProjectOf <- TwoProjects
  GpuCount <- OneGpuEach
  MaxRetries <- RetryFirst
  MaxGpus = 2
  Inventories = {0, 2}
  Granular = TRUE
  NodeHealth = TRUE
  Quotas <- NoQuota
  Licences <- AnyLicence
  Drainable = {1}
  Deletable = {1}
SYMMETRY SessionSymmetry
INVARIANTS TypeOK OwnedOrFenced HeldByRunner AttemptBudget CancelHonoured
PROPERTIES HoldsUntilReported CleanupGate FinishedStaysFinished ImplementsLifecycle
