SPECIFICATION Spec
CONSTANTS
  Setups <- StopOnly
INVARIANTS
  ByeInTime
CHECK_DEADLOCK FALSE
