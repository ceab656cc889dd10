SPECIFICATION Spec
CONSTANTS
  Setups <- StartAgain
INVARIANTS
  NeverTerminates
CHECK_DEADLOCK FALSE
