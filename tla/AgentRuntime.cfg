CONSTANTS
  p1 = p1
  p2 = p2
  Process = {p1, p2}
  Record <- StageRecord
  NoRecord = NoRecord
  ClaimId <- RunClaims
  Start = Start
  Nothing = Nothing
  Stages = 2
  Tokens = {0, 1}
  MaxBudget = 2
  Budgets = {1, 2}
  MaxRecords = 4
  MaxClaims = 3
  MaxAttempts = 2
  MaxFailures = 1
  Forged <- Snapshot
  MaxCrashes = 1
SPECIFICATION Spec
INVARIANTS
  OneExecution
  EffectsOnce
  IssuedIsTrue
SYMMETRY Symmetry
CHECK_DEADLOCK FALSE
