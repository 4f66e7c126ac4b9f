------------------------- MODULE WithdrawalSettlement -------------------------
(***************************************************************************)
(* What the bridge promises of a withdrawal: its tokens are locked, and    *)
(* then either it is paid on the other chain, once, and they are burned,   *)
(* or it is never paid and they are given back.                            *)
(***************************************************************************)
CONSTANT Withdrawal

VARIABLES
    escrow,   \* escrow[w]: what became of the tokens
    paid      \* the withdrawals paid on the other chain

settlementVars == <<escrow, paid>>

SettlementInit ==
    /\ escrow = [w \in Withdrawal |-> "none"]
    /\ paid = {}

Lock(w) ==
    /\ escrow[w] = "none"
    /\ escrow' = [escrow EXCEPT ![w] = "locked"]
    /\ UNCHANGED paid

Pay(w) ==
    /\ escrow[w] = "locked" /\ w \notin paid
    /\ paid' = paid \cup {w}
    /\ UNCHANGED escrow

\* One call to the contract may be about several withdrawals.
Become(W, outcome) == escrow' = [w \in Withdrawal |-> IF w \in W THEN outcome ELSE escrow[w]]

Burn(W) ==
    /\ \A w \in W : escrow[w] = "locked" /\ w \in paid
    /\ Become(W, "burned")
    /\ UNCHANGED paid

GiveBack(W) ==
    /\ \A w \in W : escrow[w] = "locked" /\ w \notin paid
    /\ Become(W, "given back")
    /\ UNCHANGED paid

SettlementNext ==
    \/ \E W \in SUBSET Withdrawal : Burn(W) \/ GiveBack(W)
    \/ \E w \in Withdrawal : Lock(w) \/ Pay(w)

Settlement == SettlementInit /\ [][SettlementNext]_settlementVars
=============================================================================
