SPECIFICATION FairSpec
CONSTANTS
  Null = Null
  Inputs <- MCFiles
  Limits = {0, 2}
  InSize = 2
  OutChunk = 2
  PreludeLen = 1
  FixedLen = 1
  HeaderLen = 1
  MaxRecord = 3
INVARIANTS
  TypeOK
  RecordsFramed
  NoFalseTruncation
  BufferBounded
PROPERTIES
  Terminates
  ImplementsRecordSource
