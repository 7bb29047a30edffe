CONSTANTS
  q1 = q1
  q2 = q2
  m1 = m1
  m2 = m2
  x1 = x1
  x2 = x2
  a1 = a1
  a2 = a2
  c1 = c1
  c2 = c2
  Provider = {q1, q2}
  Registered = {q1, q2}
  Model = {m1, m2}
  Support <- MCSupport
  MaxTime = 2
  HostObservations <- MCHostObservations
  Request <- MCRequest
  HostPolicies <- MCHostPolicies
  Permit = {a1, a2}
  MaxPermitTTL = 3
  Call = {c1, c2}
  SingleTransports = {q1, q2}
  StreamTransports = {q1}
  HttpStatus = {200, 503}
  TransportResults <- MCTransportResults
  HealthPolicies <- MCHealthPolicies
SPECIFICATION Spec
INVARIANTS
  InvocationWithinAuthority
  HealthFromEvidence
SYMMETRY Symmetry
CHECK_DEADLOCK FALSE
