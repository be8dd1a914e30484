SPECIFICATION FairSpec
CONSTANTS
  Null = Null
  Depth = 1
  BatchRows = 2
  MaxRecords = 8
  Limits = {0, 3}
INVARIANTS
  OutputFaithful
PROPERTIES
  ConversionEnds
  ImplementsConvertTree
