SPECIFICATION Spec
CONSTANTS
  N = 3
  MaxJobs = 1
  Outs = {1, 2, 3}
  OutOf <- OwnOut
  MaxFds = 2
  MaxRuns = 1
INVARIANTS
  FailuresIsolated
