SPECIFICATION FairSpec
CONSTANTS
  Null = Null
  Depth = 2
  BatchRows = 2
  MaxRecords <- MCMaxRecords
  AllowReclose = TRUE
INVARIANTS
  TypeOK
  ReservationHolds
  RowsInOrder
  CompleteFileHasAllRows
  NothingBehindPill
  MemoryWithinPeak
  FullRowGroups
PROPERTIES
  FailureSurfaces
  ImplementsRowSink
  ProducerReleased
