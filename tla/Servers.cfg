SPECIFICATION Spec
CONSTANTS
  Tools = {1, 2, 3}
  ServerOf <- TheServerOf
  Files <- TheFiles
  Trusted = TRUE
  Jobs = {1, 2}
  Queries = {1, 2}
  MaxEdits = 1
  Requests = {1, 2}
  Turns <- TheTurns
  Caps = {0, 2}
  Languages <- TheLanguages
  Replies <- TheReplies
  Admissions <- TheAdmissions
  Raws <- TheRaws
  Pages <- ThePages
  MaxMoves = 3
  Backends <- TheBackends
  Carries <- TheCarries
  Outputs <- TheOutputs
  Budget = 2
INVARIANTS
  NoProcessIsLost
  ToolsOfThisTurn
  WorkIsAccountedFor
PROPERTIES
  EverythingEnds
CHECK_DEADLOCK FALSE
