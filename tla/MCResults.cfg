SPECIFICATION ResultsSpec
CONSTANTS
  j1 = j1
  Jobs = {j1}
  Job = j1
  MaxRetries <- RetryOnce
  Uploads = {u1, u2, u3}
  NoUpload = NoUpload
  Bundles = {1}
  MaxFaults = 1
SYMMETRY UploadSymmetry
CHECK_DEADLOCK FALSE
INVARIANTS
  TypeOK
  ReferencesReadable
  ServedByItsRun
  SucceededIsServed
  WorkspaceKept
  DeletedLeavesNothing
PROPERTIES
  RetriesComputationOnly
