SPECIFICATION SessionSpec
CONSTANTS
  x = x
  y = y
  b1 = b1
  b2 = b2
  Models <- MCModels
  Levels = {"off", "high"}
  Default <- MCDefault
  Clamp <- MCClamp
  Remember = TRUE
  Home <- MCHome
  Picks = {"cloud", "opus"}
  FullName <- MCFullName
  Chain <- MCChain
  Texts <- MCTexts
  Branches <- MCBranches
  MaxEntries = 3
SYMMETRY Symmetric
INVARIANTS
  RestartKeepsManual
  RecapIsOfThisBranch
PROPERTIES
  TurnKeepsItsPlace
CHECK_DEADLOCK FALSE
