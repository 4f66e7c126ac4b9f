CONSTANTS
  Block <- Pair
  Chain <- Pair
  Genesis = Genesis
  None = None
  Deletable = {}
  CrashPoints <- Anytime
  PutFails = FALSE
  MaxCrashes = 1
SPECIFICATION LiveSpec
CHECK_DEADLOCK FALSE
PROPERTY LoggedOnceDelivered
