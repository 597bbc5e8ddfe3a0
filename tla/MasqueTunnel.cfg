SPECIFICATION Spec
CONSTANTS
  Settings <- MCSettings
  RequiredSuccesses = 2
  MaxQueued = 2
INVARIANTS
  CarrierSafety
  ReadyIsEarned
PROPERTIES
  LeftMeansEnded
  FarEndLost
CHECK_DEADLOCK FALSE
