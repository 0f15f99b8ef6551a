SPECIFICATION ContextSpec
CONSTANTS
  Files = {"a", "b", "c", "t"}
  Name <- TheName
  Bytes <- TheBytes
  Cost <- TheCost
  Hits <- TheHits
  Home <- TheHome
  RootName <- TheRootName
  Near <- TheNear
  Inline <- TheInline
  Overflows = {"a"}
  Kin <- TheKin
  Covers <- TheCovers
  Levels = {0, 3}
  Hunts <- TheHunts
  MaxCandidates = 2
  Excerpt = 2
  Reference = 1
  Threshold = 2
  MaxVanished = 1
  Outputs <- TheOutputs
  Tools = {"execute"}
  Calls = {1, 2}
  Settings <- TheSettings
  Batches <- TheBatches
  Loads <- TheLoads
  MaxEntries = 5
  MaxCompactions = 2
  MaxStarts = 2
INVARIANTS
  ExplorationIsAccounted
  NothingIsForgotten
PROPERTY
  ContextSettles
CHECK_DEADLOCK FALSE
