SPECIFICATION Spec
CONSTANTS
  a = a
  again = again
  moved = moved
  b = b
  s1 = s1
  s2 = s2
  Content = {a, again, moved, b}
  LegacyKey <- mcLegacyKey
  CanonicalKey <- mcCanonicalKey
  Rejecting <- mcRejecting
  Session = {s1, s2}
  NoSession = NoSession
  Batches <- mcBatches
  MayArchive = TRUE
  MayVerify = TRUE
  MaxRequests = 2
  MaxFaults = 1
SYMMETRY Symmetry
INVARIANT OnlyTamperingFailsVerification
CHECK_DEADLOCK FALSE
