CONSTANTS
  Block <- Decided
  Chain <- Decided
  Genesis = Genesis
  None = None
  Deletable <- OnlyFirst
  CrashPoints <- Anytime
  PutFails = TRUE
  MaxCrashes = 1
SPECIFICATION LiveSpec
CHECK_DEADLOCK FALSE
INVARIANTS LogHasNoGap RecordsAreLogged BestIsMarked LoggedOncePerLife SInv
PROPERTY DeliveredInStep
