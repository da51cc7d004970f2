\* Two models with one indexed value, against the architecture document.
CONSTANTS
  none = none
  t1 = t1
  b0 = b0
  b1 = b1
  b2 = b2
  None = none
  DefaultBlob = b0
  Pks <- MCPks
  Secs <- MCSecs
  Targets <- MCTargets
  Blobs <- MCBlobs
  Topics <- MCTopics
  Models <- MCSharedModels
  Policies <- MCAllOnly
  Layouts <- MCSharded
  CarefulCallers = TRUE

SPECIFICATION Spec

INVARIANT LookupFindsModel
