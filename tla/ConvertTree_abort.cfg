SPECIFICATION Spec
CONSTANTS
  N = 2
  MaxJobs = 2
  Outs = {1, 2}
  OutOf <- OwnOut
  MaxFds = 6
  MaxRuns = 1
INVARIANTS
  FailuresSkipped
