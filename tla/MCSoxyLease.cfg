SPECIFICATION Spec
CONSTANTS
  l1 = l1
  l2 = l2
  l3 = l3
  s1 = s1
  s2 = s2
  r1 = r1
  r2 = r2
  r3 = r3
  None = None
  Leases = {l1, l2, l3}
  Kind <- KindAll
  Slots = {s1, s2}
  Reporters = {r1, r2, r3}
  About <- AboutAll
  MaxErrors = 2
SYMMETRY SlotSymmetry
INVARIANTS
  TypeOK
  NothingLeaks
  CapacityMeansAllRefused
  RetiredOnce
  
CHECK_DEADLOCK FALSE
