CONSTANTS
  Validator <- Three
  Stakes <- Heavy1
  Heights = 1
  Builders = {2, 3}
  Changes <- Rivals
  Faulty = {3}
  Crashing = {}
  Operated = {}
  StakingActivation = 0
  MaxRound = 1
  Block <- Blocks
  Valid <- BuiltSoundly
  FarFuture = {}
  Membership <- Memberships
  InitMembership <- Founders
  Seed <- Seeds
  Genesis = Genesis
  None = None
SPECIFICATION Spec
ACTION_CONSTRAINTS LoopbackFirst QuorumsAtOnce RoundVotesAtOnce TopHeight
CHECK_DEADLOCK FALSE
INVARIANTS Agreement CommitOnce SealBindsLock OneProposalPerView OnlyExecuted  
