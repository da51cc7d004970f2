\* A memory scan without an upper bound of a table whose name another extends.
CONSTANTS
  PlainTables <- MCPlainTables
  MultiTables <- MCMultiTables
  Keys <- MCKeys
  Vals <- MCVals
  ScanRanges <- MCScanRanges
  NameFence <- MCNameFence

SPECIFICATION AnyScanSpec

INVARIANT ScansStayInTheirTable

CONSTRAINT MCFewRows
