SPECIFICATION Spec
CONSTANTS
  Ladder <- MCLadder
  Paths = {0, 800, 1200, Dead}
  Dead = Dead
  RequiredSuccesses = 2
  MaxTransient = 2
  Cap = 2
INVARIANTS
  TypeOK
  HintProven
PROPERTIES
  NoCrossedWait
  LostEndNoticed
