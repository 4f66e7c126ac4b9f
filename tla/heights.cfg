CONSTANTS
  Validator <- Three
  Stakes <- Heavy1
  Heights = 2
  Builders = {1, 2, 3}
  Changes <- ShiftOnly
  Faulty = {}
  Crashing = {3}
  Operated = {}
  StakingActivation = 2
  MaxRound = 0
  Block <- Blocks
  Valid <- BuiltOnTurn
  FarFuture <- StampedAhead
  Membership <- Memberships
  InitMembership <- Founders
  Seed <- Seeds
  Genesis = Genesis
  None = None
SPECIFICATION Spec
ACTION_CONSTRAINTS LoopbackFirst QuorumsAtOnce RoundVotesAtOnce TopHeight
CHECK_DEADLOCK FALSE
INVARIANT CertifiedChain
 
