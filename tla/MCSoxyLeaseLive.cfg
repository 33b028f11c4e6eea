SPECIFICATION FairSpec
CONSTANTS
  l1 = l1
  l2 = l2
  l3 = l3
  s1 = s1
  s2 = s2
  r1 = r1
  r2 = r2
  r3 = r3
  None = None
  Leases = {l1, l2}
  Kind <- KindSoxy
  Slots = {s1}
  Reporters = {r1, r2}
  About <- AboutScan
  MaxErrors = 2
PROPERTIES
  LeaseCallsReturn
  LostSessionEndsLease
CHECK_DEADLOCK FALSE
