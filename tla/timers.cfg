SPECIFICATION FairSpec
CONSTANTS
    MaxView = 1
    Height <- TwoRounds
    Watching = {0, 1}
    RoundPeriod = 1
    ProposalWait = 1
    CommitSlack = 1
    Refire = 1
    MaxTaken = 0
    MaxResets = 1
    None = None
INVARIANTS TimersInv NoTimeLoop OneClockPerView RoundIsTimed WatchIsKept
PROPERTIES RoundKeepsFiring WatchedViewTimesOut
