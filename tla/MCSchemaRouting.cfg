\* The repository and definition levels against the book of their topics.
CONSTANTS
  Definitions <- MCDefinitions
  ModelsOf <- MCModelsOf
  x = x
  y = y
  Ids = {1}
  Contents <- MCContents
  RepoTopics <- MCRepoTopics
  DefTopics <- MCDefTopics
  ModelTopics <- MCModelTopics
  Primary = "primary"
  TopicLists <- MCTopicLists

SPECIFICATION Spec

INVARIANT TypeOK
INVARIANT ModelTopicsHaveRecords
PROPERTY RowsTellTheirRecord
PROPERTY MisroutedDeletesChangeNothing
PROPERTY CallsActOnTheirArguments
PROPERTY ImplementsTopicBook

CONSTRAINT MCFewCells
SYMMETRY MCSymmetry
