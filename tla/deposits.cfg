\* Two deposits of one transaction, or of two; the second is one the windowed call refuses.
CONSTANTS
    Deposit <- TwoDeposits
    MaxBlock = 2
    Made <- Two
    Span = 2
    MaxWindows = 1
    Server = {a}
    Configured = {TRUE, FALSE}
    Refused = {2}
    Rebasing = {2}
    Balanced = FALSE
    Blind = FALSE
    Late = {"advance"}
    MaxLate = 1
SPECIFICATION FairSpec
   
PROPERTY EveryDepositHandled
