SPECIFICATION FairSpec
CONSTANTS
  p1 = p1
  p2 = p2
  NumJobs = 4
  Projects = {p1, p2}
  ProjectOf <- EvenAndOdd
  GpuCount <- MixedGpus
  Priority <- LaterFirst
  Weights = {1, 3}
  Stride = 2
  Scale = 3
  MaxVruntime = 3
CHECK_DEADLOCK FALSE
INVARIANTS FairShare
