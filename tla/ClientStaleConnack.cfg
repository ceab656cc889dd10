SPECIFICATION Spec
CONSTANTS
  NoItem = NoItem
  MaxId = 2
  Setups <- OnlyTimeout
INVARIANTS
  ConnectedIsOpen
CHECK_DEADLOCK FALSE
