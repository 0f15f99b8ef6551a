\* The goal engine over the turns of a session.
SPECIFICATION Spec
CONSTANTS
  Contents = {"w1", "w2"}
  Ids = {1}
  Names <- MCNames
  Canonical <- MCCanonical
  Covered = {"targeted_test", "full_suite"}
  DefaultScope <- MCDefaultScope
  Scopes = {"workspace"}
  NoScope = "none"
  Goals <- MCGoals
  Limits <- MCLimits
  Producible = {"targeted_test", "full_suite", "git_status"}
  Measured <- MCMeasured
  NoGoal = NoGoal
  MaxCost = 1
  MaxTurns = 1
  MaxSets = 1
  MaxChanges = 1
INVARIANTS
  GoalIsGrounded
PROPERTIES
  BoundaryIsJust
  LoopEnds
