CONSTANTS
  w1 = w1
  w2 = w2
  s1 = s1
  s2 = s2
  p1 = p1
  p2 = p2
  Worker = {w1, w2}
  Scope = {s1}
  Payload = {p1, p2}
  Gone = Gone
  MaxWritable = 3
  MaxHistory = 2
  MaxVersion = 4
SPECIFICATION Spec
INVARIANTS
  OneRevisionPerVersion
  HistoryIsWhole
  ForgottenStaysForgotten
  RememberedIsReadable
PROPERTIES
  ErasureIsWhole
SYMMETRY Symmetry
CHECK_DEADLOCK FALSE
