SPECIFICATION FairSpec
CONSTANTS
  Null = Null
  Depth = 2
  Streams <- MCStreams
  WordSize = 2
  MetadataSize = 1
  BodySize = 2
  LogEvery = 2
  Addresses = 2
  Modes = {TRUE, FALSE}
INVARIANTS
  TypeOK
  BatchesInOrder
  EndsOnlyAtEnd
  DescriptorsReleased
PROPERTIES
  LinePerMark
  Released
  ImplementsPlayback
