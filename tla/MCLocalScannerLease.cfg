CONSTANTS
  r1 = r1
  r2 = r2
  o1 = o1
  o2 = o2
  ta = ta
  tb = tb
  b1 = b1
  b2 = b2
  b3 = b3
  Closer = Closer
  None = None
  Rounds <- MCRounds
  OneShots <- MCOneShots
  Theaters <- MCTheaters
  TheaterOf <- MCTheaterOf
  Browsers <- MCBrowsers
  Capacity = 2
SPECIFICATION FairSpec
PROPERTY LostLeaseDropped
