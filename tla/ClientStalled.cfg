SPECIFICATION FairSpec
CONSTANTS
  NoItem = NoItem
  MaxId = 2
  Setups <- OnlyPings
PROPERTIES
  SilenceNoticed
CHECK_DEADLOCK FALSE
