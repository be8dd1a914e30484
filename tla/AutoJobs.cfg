SPECIFICATION Spec
CONSTANTS
  Word = 65536
  Fixed = 64
  Unknown = Unknown
  Hosts <- MCHosts
  RowCounts <- MCRowCounts
  JobCounts = {0, 1, 3, 9}
  FileCounts = {1, 2, 5, 20}
INVARIANTS
  JobsInRange
  JobsFitMemory
  BuffersFit
