CONSTANTS
  p1 = p1
  p2 = p2
  p3 = p3
  r1 = r1
  r2 = r2
  Process = {p1, p2, p3}
  Record = {r1, r2}
  NoRecord = NoRecord
  ClaimId = {}
  MaxRecords = 4
  MaxClaims = 0
  MaxAttempts = 2
  MaxFailures = 1
SPECIFICATION MemorySpec
INVARIANTS
  SequenceIsWhole
  StoredIsThere
  RefusedForCause
SYMMETRY Symmetry
CHECK_DEADLOCK FALSE
