CONSTANTS
  h1 = h1
  h2 = h2
  k1 = k1
  k2 = k2
  k3 = k3
  s1 = s1
  s2 = s2
  Instance = {s1}
  Digest = {h1, h2}
  Expiring = {h2}
  Key = {k1, k2, k3}
  Plain = Plain
  None = None
  Quota = 3
  MaxCrashes = 3
  MaxFailures = 2
SPECIFICATION Spec
INVARIANTS
  PublishedIsRecoverable
  PublishedIsReadable
  QuotaKept
PROPERTIES
  KeepsPromise
SYMMETRY Symmetry
CHECK_DEADLOCK FALSE
