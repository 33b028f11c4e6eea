CONSTANTS
  a = a
  b = b
  c = c
  s1 = s1
  s2 = s2
  None = None
  Tasks <- MCSessions
  Purpose <- MCSessionPurpose
  Slots <- MCSlots
  MaxConfigs = 1
  MaxCancelled = 1
  MaxLost = 1
SPECIFICATION FairSpec
CHECK_DEADLOCK FALSE
PROPERTY ShutdownCompletes
PROPERTY CancelledOpenReturns
