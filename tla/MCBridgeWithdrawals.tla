------------------------- MODULE MCBridgeWithdrawals --------------------------
(***************************************************************************)
(* Instances of BridgeWithdrawals for TLC.                                 *)
(***************************************************************************)
EXTENDS BridgeWithdrawalsSafety

OneWithdrawal == {1}

\* Every withdrawal pays something else.
OwnPayment == [w \in Withdrawal |-> w]

\* Any Safe may pay any withdrawal.
AnyWallet == [w \in Withdrawal |-> Safe]
=============================================================================
