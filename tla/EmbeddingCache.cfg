SPECIFICATION CacheSpec
CONSTANTS
  Processes <- OneProcess
  Threads <- TwoThreads
  Home <- SameHome
  Signatures = {1, 2}
  Dimension <- TwoDimensions
  Documents = {"old", "new"}
  None = None
  Torn = Torn
INVARIANTS
  CacheTypeOK
  SearchesSomething
  AnswersFromIndexedDocuments
  ScoresWithOwnModel
