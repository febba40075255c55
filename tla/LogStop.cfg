SPECIFICATION FairSpec
CONSTANTS
  s1 = s1
  s2 = s2
  s3 = s3
  Senders <- TwoSenders
  MaxCount = 1
  Times = {2}
  Offset <- MCOffset
  MaxSends = 2

CHECK_DEADLOCK FALSE
PROPERTIES
  StopReturns
