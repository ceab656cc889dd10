SPECIFICATION FairSpec
CONSTANTS
  NoItem = NoItem
  MaxId = 3
  Setups <- Publishing
INVARIANTS
  TypeOK
  PublishAnsweredOnce
  NothingResent
  PublishesBounded
  ReadLoopAlive
PROPERTIES
  AttemptDecided
  PublishAnswered
  PublishSpec
CHECK_DEADLOCK FALSE
