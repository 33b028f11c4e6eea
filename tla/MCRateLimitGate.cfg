CONSTANTS
  h1 = h1
  r1 = r1
  r2 = r2
  r3 = r3
  Hosts <- MCHosts
  Requests <- MCRequests
  HostOf <- MCHostOf
  Fallback = 2
  Maximum = 5
  JitterDivisor = 2
  JitterCap = 1
  HeaderDelays <- MCHeaderDelays
  HeaderDates <- MCHeaderDates
  MaxNow = 7
SPECIFICATION FairSpec
INVARIANT TypeOK
INVARIANT HalfOpenHasProbe
INVARIANT BackoffBounded
PROPERTY ProviderDeadlineHonoured
PROPERTY BurstCountsOnce
PROPERTY HalfOpenResolves
