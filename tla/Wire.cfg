SPECIFICATION FairSpec
CONSTANTS
  Radix = 3
  Traffic <- Streams
  Junk <- Refused
INVARIANTS
  TypeOK
  Decoded
  NoFalseAlarm
  FramesIntact
PROPERTIES
  FramesArrive
CHECK_DEADLOCK FALSE
