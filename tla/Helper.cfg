SPECIFICATION FairSpec
CONSTANTS
  Setups <- Lives
INVARIANTS
  TypeOK
  NotStranded
  Resubscribed
PROPERTIES
  OneRetryPerAttempt
  StopReturns
  PublishHeard
CHECK_DEADLOCK FALSE
