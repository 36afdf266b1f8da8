SPECIFICATION CacheSpec
CONSTANTS
  Processes <- TwoProcesses
  Threads <- TwoThreads
  Home <- OneEach
  Signatures = {1, 2}
  Dimension <- TwoDimensions
  Documents = {"old"}
  None = None
  Torn = Torn
INVARIANTS
  ScoresWithOwnModel
