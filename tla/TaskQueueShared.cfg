SPECIFICATION Spec
CONSTANTS
  review = review
  again = again
  ingest = ingest
  drill = drill
  p1 = p1
  p2 = p2
  Task = {review, again}
  Process = {p1, p2}
  NoOne = NoOne
  NoKey = NoKey
  TypeOf <- mcTypeOf
  KeyOf <- mcOneKey
  HandlerTypes <- mcHandlerTypes
  RegisteredTypes <- mcRegisteredTypes
  Purgeable <- mcPurgeable
  Protected <- mcProtected
  MaxAttempts = 2
  LockId <- mcUniqueIds
  AttemptsCap = 2
  ClaimRace = TRUE
  ForcedRls = FALSE
  MayOverrun <- mcBoth
  MaxFaults = 1
INVARIANTS TypeOK AttemptsAccounted  OneRowPerKey
SYMMETRY TaskSymmetry
