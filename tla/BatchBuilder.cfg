SPECIFICATION Spec
CONSTANTS
  Mod64 = 64
  Mod32 = 16
  BatchRows = 2
  MsgSize = 5
  TsOutLen = 1
  Records <- MCRecords
  MaxRecords = 5
  Null = Null
  Garbage = Garbage
INVARIANTS
  TypeOK
  RowsFaithful
