CONSTANTS
  Validator <- Three
  Stakes <- Heavy1
  Heights = 1
  Builders = {}
  Changes <- Static
  Faulty = {}
  Crashing = {3}
  Operated = {3}
  StakingActivation = 0
  MaxRound = 3
  Block <- Blocks
  Valid <- BuiltBy
  FarFuture = {}
  Membership <- Memberships
  InitMembership <- Founders
  Seed <- Seeds
  Genesis = Genesis
  None = None
SPECIFICATION Spec
ACTION_CONSTRAINTS LoopbackFirst QuorumsAtOnce RoundVotesAtOnce TopHeight
CHECK_DEADLOCK FALSE
PROPERTIES ViewNeverGoesBack 
