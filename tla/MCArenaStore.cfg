\* The arena slab against the abstract store.
CONSTANTS
  PlainTables <- MCPlainTables
  MultiTables <- MCMultiTables
  Keys <- MCKeys
  Vals <- MCVals
  BigKeys <- MCBigKeys
  BigVals <- MCBigVals
  ScanRanges <- MCScanRanges
  BufLens <- MCBufLens
  COUNT_HDR = 2
  RECORD_SIZE = 3

SPECIFICATION Spec

INVARIANT TypeOK
INVARIANT SlabsSorted
INVARIANT PlainTablesSingle
INVARIANT WithinCapacity
PROPERTY RefusedStagesNothing
PROPERTY CallsActOnTheirArguments
PROPERTY ImplementsTableStore
