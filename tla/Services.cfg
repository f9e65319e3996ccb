SPECIFICATION Spec
CONSTANTS
  Record = {row}
  Field <- mcField
  Row <- mcRow
  Change <- mcChange
  Normal <- mcNormal
  Request = {q1, q2}
  MaxLinks = 2
  MaxPatches = 2
  Handler = {h1, h2}
  MaxPackages = 3
  Tenant = {t1, t2}
  CaseId = {c1, c2}
  ScanLimit = 1
  AlertMax = 1
  Login = {s1}
  Caller = {u1, u2, u3}
  MaxTokens = 3
  MaxVersion = 1
  Post = {p1, p2, p3}
  Operation = {x, y}
  FailClosed = FALSE
  NoEntry = NoEntry
  Delivery = {d1, d2, d3}
  Attachment = {a1, a2}
  Event = {e1, e2, e3}
  Period = {1, 2}
  Report = {r1, r2}
SYMMETRY Interchangeable
INVARIANTS
  
  DashboardTruthful
  DiffBaseExists
  FiledIsBacked
  UnforcedIsSigned
  BreachesReported
  AlertCacheBounded
  OneTokenPerSession
  RevokedStaysRevoked
  GenerationEnds
  ExecutedOnce
  
  
PROPERTIES
  ReleasedIsFrozen
CHECK_DEADLOCK FALSE
