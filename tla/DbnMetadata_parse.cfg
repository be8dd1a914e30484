SPECIFICATION Spec
CONSTANTS
  Lengths <- MCLengths
  Widths = {0, 1, 3}
  Counts <- MCCounts
  MaxReserve = 500
  Word = 65536
INVARIANTS
  TypeOK
  ParsedExactly
  WorkBounded
