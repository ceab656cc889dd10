SPECIFICATION FairWritesSpec
CONSTANTS
  NoItem = NoItem
  MaxId = 2
  Setups <- SubscribeFails
PROPERTIES
  SubscribeAnswered
CHECK_DEADLOCK FALSE
