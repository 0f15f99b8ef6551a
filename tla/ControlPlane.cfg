SPECIFICATION Spec
CONSTANTS
  Asks = {gate, complexity}
  Attempts = 2
  MaxSwaps = 1
INVARIANTS
  AsksAreAccounted
  NoServerIsOrphaned
PROPERTIES
  EverythingSettles
