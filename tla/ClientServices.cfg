SPECIFICATION FairWritesSpec
CONSTANTS
  NoItem = NoItem
  MaxId = 2
  Setups <- Services
INVARIANTS
  IdsUnique
  KeepAliveWatched
  NoEarlyPublish
PROPERTIES
  PublishAnswered
  SubscribeAnswered
  SilenceNoticed
  ShutdownReported
CHECK_DEADLOCK FALSE
