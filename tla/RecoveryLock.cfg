CONSTANTS
  w1 = w1
  w2 = w2
  Process = {w1, w2}
  Nobody = Nobody
  Lease = 6
  Wait = 3
  Beat = 1
  MaxCrashes = 2
  MaxStalls = 1
SPECIFICATION FairSpec
INVARIANTS
  Exclusive
PROPERTIES
  UpToDateLooksSpareLiveLocks
  LockIsFreedAgain
CHECK_DEADLOCK FALSE
