SPECIFICATION FairSpec
CONSTANTS
  NoItem = NoItem
  MaxCalls = 4
  MaxConnects = 2
  Closers = {2}
INVARIANTS
  TypeOK
  ReportedAtMostOnce
  NothingLost
  OneWriteAtATime
  ClosedHoldsNothing
  WireInCallOrder
  GoodWasDelivered
PROPERTY EveryWriteReported
CHECK_DEADLOCK FALSE
