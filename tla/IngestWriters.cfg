SPECIFICATION Spec
CONSTANTS
  a = a
  again = again
  moved = moved
  b = b
  s1 = s1
  s2 = s2
  Content = {a, again, moved, b}
  LegacyKey <- mcLegacyKey
  CanonicalKey <- mcCanonicalKey
  Rejecting <- mcRejecting
  Session = {s1, s2}
  NoSession = NoSession
  Batches <- mcTwoBatches
  MayArchive = FALSE
  MayVerify = FALSE
  MaxRequests = 3
  MaxFaults = 2
SYMMETRY Symmetry
INVARIANTS TypeOK ChainLinked EventsChained OneEventPerKey  ChargesAreBacked ChargedOnce
CHECK_DEADLOCK FALSE
