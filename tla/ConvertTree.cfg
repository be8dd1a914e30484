SPECIFICATION FairSpec
CONSTANTS
  N = 2
  MaxJobs = 2
  Outs = {1, 2}
  OutOf <- OwnOut
  MaxFds = 4
  MaxRuns = 3
INVARIANTS
  TypeOK
  EveryFileAccounted
  OutNeverPartial
  ExitZeroMeansConverted
PROPERTIES
  OutputsSurvive
  RunEnds
