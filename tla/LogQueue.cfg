SPECIFICATION Spec
CONSTANTS
  s1 = s1
  s2 = s2
  s3 = s3
  Senders <- TwoSenders
  MaxCount = 3
  Times = {2}
  Offset <- MCOffset
  MaxSends = 9
SYMMETRY Symmetry
CHECK_DEADLOCK FALSE
INVARIANTS
  TypeOK
  QueueBounded
  BatchWithinMaxCount
  SilentRefusalsBounded
  DiscardOnlyNearlyFull
  OneFateEach
  WrittenInIdOrder
  NoSleepOnQueuedLogs
