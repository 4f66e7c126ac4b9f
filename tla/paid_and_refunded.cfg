\* One withdrawal, whose payout may run while a poll decides that it cannot.
CONSTANTS
    Withdrawal <- OneWithdrawal
    Safe = {main}
    Payment <- OwnPayment
    MaxNonce = 1
    MaxOther = 1
    Other = Other
    None = None
    Server = {a}
    Wallets <- AnyWallet
    Outage = FALSE
    Hurried = TRUE
    MaxLate = 1
    MayFail = FALSE
SPECIFICATION Spec
INVARIANT NeverPaidAndGivenBack
