SPECIFICATION Spec
CONSTANTS
  N = 2
  MaxJobs = 2
  Outs = {1}
  OutOf <- SharedOut
  MaxFds = 6
  MaxRuns = 1
INVARIANTS
  OutNeverPartial
