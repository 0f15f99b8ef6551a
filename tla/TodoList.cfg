SPECIFICATION Spec
CONSTANTS
  ac1 = ac1
  ac2 = ac2
  user = user
  tool = tool
  NoCriterion = NoCriterion
  NoPlace = NoPlace
  Criteria <- TwoCriteria
  Rank <- InOrder
  Callers <- UserAndTool
  Users <- OneUser
  Lanes <- PrdLane
  NamedBy <- NamedByPrd
  MaxManual = 1
  MaxEvents = 2
INVARIANTS
  ListIsSound
PROPERTIES
  SyncReconciles
  WorkGoesOn
