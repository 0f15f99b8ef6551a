\* The proof gate over the evidence of a turn.
SPECIFICATION Spec
CONSTANTS
  Contents = {"w1", "w2"}
  Ids = {1, 2}
  Names <- MCNames
  Canonical <- MCCanonical
  Covered <- MCCovered
  DefaultScope <- MCDefaultScope
  Scopes = {"src", "tests", "workspace", "parse"}
  NoScope = "none"
  Contracts <- MCContracts
  Outcomes <- MCOutcomes
  MaxEdits = 1
INVARIANTS
  TurnIsProved
  RecoveryIsSpentWell
PROPERTIES
  SiblingsUndisturbed
  TurnIsDecided
  AttemptsKeepPromise
