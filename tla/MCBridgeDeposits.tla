--------------------------- MODULE MCBridgeDeposits ---------------------------
(***************************************************************************)
(* An instance of BridgeDeposits for TLC.                                  *)
(***************************************************************************)
EXTENDS BridgeDepositsSafety

TwoDeposits == {1, 2}

\* Two transactions, which a window may hold both of, and one that made both deposits.
Apart    == [at |-> [d \in Deposit |-> d], shared |-> {}, action |-> {}]
Together == [at |-> [d \in Deposit |-> 1], shared |-> Deposit, action |-> {}]

Two      == {Apart, Together}
=============================================================================
