SPECIFICATION Spec
CONSTANTS
  review = review
  again = again
  ingest = ingest
  drill = drill
  p1 = p1
  p2 = p2
  Task = {ingest}
  Process = {p1, p2}
  NoOne = NoOne
  NoKey = NoKey
  TypeOf <- mcTypeOf
  KeyOf <- mcNoKeys
  HandlerTypes <- mcHandlerTypes
  RegisteredTypes <- mcRegisteredTypes
  Purgeable <- mcPurgeable
  Protected <- mcProtected
  MaxAttempts = 2
  LockId <- mcUniqueIds
  AttemptsCap = 3
  ClaimRace = TRUE
  ForcedRls = FALSE
  MayOverrun <- mcProcessorOnly
  MaxFaults = 1
PROPERTIES ClaimsOnlyPending
SYMMETRY Symmetry
