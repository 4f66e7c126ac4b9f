CONSTANTS
  Validator <- Three
  MaxStake = 2
  MaxSeed = 5
  MaxRound = 3
SPECIFICATION Spec
INVARIANTS EveryoneHasATurn PickIsProportional
CHECK_DEADLOCK FALSE
