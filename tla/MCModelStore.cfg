\* One model's tables against the map of models, in every layout.
CONSTANTS
  none = none
  t1 = t1
  b0 = b0
  b1 = b1
  b2 = b2
  None = none
  DefaultBlob = b0
  Pks <- MCPks
  Secs <- MCSecs
  Targets <- MCTargets
  Blobs <- MCBlobs
  Topics <- MCTopics
  Models <- MCModels
  Policies <- MCPolicies
  Layouts <- MCLayouts
  CarefulCallers = TRUE

SPECIFICATION Spec

INVARIANT TypeOK
INVARIANT NoOrphans
INVARIANT UniqueIndexExact
PROPERTY ImplementsModelMap
