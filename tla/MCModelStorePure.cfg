\* A live key of a pure model inserted again, against the tests of the pure layout.
CONSTANTS
  none = none
  t1 = t1
  b0 = b0
  b1 = b1
  b2 = b2
  None = none
  DefaultBlob = b0
  Pks <- MCPks
  Secs <- MCSecs
  Targets <- MCTargets
  Blobs <- MCBlobs
  Topics <- MCTopics
  Models <- MCVersions
  Policies <- MCAllOnly
  Layouts <- MCPure
  CarefulCallers = FALSE

SPECIFICATION Spec

PROPERTY GetReturnsInserted
