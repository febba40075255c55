SPECIFICATION FairSpec
CONSTANTS
  Names = {n1, n2}
  Callbacks = {c1}
  MaxStarts = 2
  MaxUpdates = 2
INVARIANTS
  TypeOK
  ReadsOpenDevice
  DumpFollowsName
  DumpSafeInFirstRun
PROPERTIES
  StopReturns
