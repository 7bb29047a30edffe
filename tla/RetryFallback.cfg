CONSTANTS
  p1 = p1
  p2 = p2
  m1 = m1
  m2 = m2
  Provider = {p1, p2}
  Model = {m1, m2}
  MaxAttempts = 3
  Plans <- MCPlans
  Policies <- MCPolicies
  HttpStatus = {200, 401, 429, 503}
  TooLargeFlags = {TRUE, FALSE}
SPECIFICATION FairSpec
INVARIANTS
  WorkAtMostOnce
  OutcomeTellsWhatWasDone
  ContinuationsAuthorised
  RecordsExplainOutcome
PROPERTIES
  NoRequestAfterAbort
  KeepsPromise
  Termination
CHECK_DEADLOCK FALSE
