\* An isolated run and a prune, both of which may die at any step.
SPECIFICATION Spec
CONSTANTS
  Tracked = {"tracked"}
  New = {"new"}
  Ignored = {"ignored"}
  Contents = {"work", "late"}
  Base = "base"
  Unlisted = "unlisted"
  NoPatch = NoPatch
  MaxLate = 1
INVARIANTS
  NothingIsLost
PROPERTIES
  LiveRunsAreLeftAlone
CHECK_DEADLOCK FALSE
