SPECIFICATION Spec
CONSTANTS
  x = x
  y = y
  None = None
  Clearer = Clearer
  Captures = {e1, e2}
  Contents = {x, y}
  Sent <- MCSent
  Received <- MCReceived
  MaxClears = 1
  MaxTroubles = 2
SYMMETRY Exchanges
CHECK_DEADLOCK FALSE
INVARIANTS
  TypeOK
  ListedIsReadable
  ClearedStaysCleared
  StagesLiveAsLong
  EvidenceKept
  RecordedBeforeClose
 
