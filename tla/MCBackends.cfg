\* The memory, fjall and redb backends against the abstract store.
CONSTANTS
  PlainTables <- MCPlainTables
  MultiTables <- MCMultiTables
  Keys <- MCKeys
  Vals <- MCVals
  ScanRanges <- MCScanRanges
  NameFence <- MCNameFence

SPECIFICATION Spec

INVARIANT TypeOK
INVARIANT BoundsMissOnlyTheirKey
INVARIANT FenceLetsInOnlyLongerNames
PROPERTY CallsActOnTheirArguments
PROPERTY ImplementsTableStore

CONSTRAINT MCFewRows
