CONSTANTS
  a = a
  b = b
  c = c
  s1 = s1
  s2 = s2
  None = None
  Tasks <- MCTasks
  Purpose <- MCPurpose
  Slots <- MCSlots
  MaxConfigs = 1
  MaxCancelled = 0
  MaxLost = 1
SPECIFICATION Spec
SYMMETRY MCSymmetry
CHECK_DEADLOCK FALSE
INVARIANT TypeOK
INVARIANT SlotsConserved
INVARIANT PoolSlotsConserved
INVARIANT AccountProfileExclusive
INVARIANT LeaseOutlivesBrowser
INVARIANT NothingLeftBehind
PROPERTY ImplementsService
