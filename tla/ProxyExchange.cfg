CONSTANTS
  s1 = s1
  s2 = s2
  b1 = b1
  b2 = b2
  Session = {s1, s2}
  NoSession = NoSession
  Step = {1, 2}
  SessionsMax = 1
  ColdHorizon = 0
  MaxExchanges = 3
  Body = {b1, b2}
  NoBody = NoBody
  SessionOf <- SessionOfBody
  Sends <- SendsBetween
  Nobody = Nobody
  Hold = 1
  SweepSize = 1
  SweepInterval = 1
  MaxTime = 2
SPECIFICATION FairSpec
INVARIANTS
  OneHolderPerWindow
  LeasesAreHeld
PROPERTIES
  GridPromiseKept
  ColdNeedsPast
  EveryExchangeEnds
CHECK_DEADLOCK FALSE
