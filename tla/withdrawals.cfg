\* One withdrawal and two servers, whose payouts may run and fail.
CONSTANTS
    Withdrawal <- OneWithdrawal
    Safe = {main}
    Payment <- OwnPayment
    MaxNonce = 1
    MaxOther = 1
    Other = Other
    None = None
    Server = {a, b}
    Wallets <- AnyWallet
    Outage = FALSE
    Hurried = FALSE
    MaxLate = 1
    MayFail = TRUE
SPECIFICATION FairSpec
INVARIANTS OnlyRecordedPayouts PaidOnce NothingStranded 
PROPERTIES  EverySettled
