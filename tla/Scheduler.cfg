SPECIFICATION Spec
CONSTANTS
  Node = {n1, n2}
  NoNode = NoNode
  MaxFailures = 2
  Sources = 1
  MaxLosses = 3
  Item = {a, b}
  r1 = r1
  r2 = r2
  Run = {r1, r2}
  Solo = r1
  OutboxAttempts = 1
  FailureThreshold = 1
  HalfOpenMax = 1
  MaxTroubles = 3
  Record = {row}
  Field <- mcField
  Row <- mcRow
  Change <- mcChange
  Normal <- mcNormal
  Request = {q1}
  MaxLinks = 1
  MaxPatches = 0
  Drainer = {d1, d2}
  MailAttempts = 2
  MaxStops = 1
INVARIANTS StaleLeaderWatched AckedIsHandled DuplicateCarriesNoOldLink
PROPERTIES LostLeaderStops LeaderElected EveryItemNotified BreakerCloses RowsSettle
CHECK_DEADLOCK FALSE
