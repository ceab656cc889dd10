SPECIFICATION FairSpec
CONSTANTS
  Threads = {io, app}
  Sinks = {mine}
  Default = Default
  NoSink = NoSink
  Nobody = Nobody
  Global = Global
  Helper = Helper
  SetupMutex = SetupMutex
  MaxLevel = 2
  MaxClients = 1
  MaxRecords = 2
  MaxCalls = 2
INVARIANTS
  RoutedAsConfigured
PROPERTIES
  NothingBlocks
CHECK_DEADLOCK FALSE
