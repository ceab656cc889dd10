SPECIFICATION FairSpec
CONSTANT MaxId = 4
INVARIANTS
  TypeOK
PROPERTIES
  AllocSpec
  NoImmediateReuse
  ScanEnds
