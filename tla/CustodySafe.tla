----------------------------- MODULE CustodySafe ------------------------------
(***************************************************************************)
(* The Safe wallets that pay withdrawals out: the Safe transaction service,*)
(* which holds proposed transactions, and the chain, where each nonce of a *)
(* Safe is used once.  A payout is its own hash: Safe, nonce and what it   *)
(* pays determine the hash, and the withdrawal it pays is only its tag.    *)
(***************************************************************************)
EXTENDS Naturals, Sequences, FiniteSets

CONSTANTS
    Withdrawal,  \* identifiers of withdrawals, in the order they were requested
    Safe,        \* the wallets
    Payment,     \* what a withdrawal pays: recipient, token and amount
    MaxNonce,    \* bound: highest nonce of a payout
    MaxOther,    \* bound: transactions of each Safe that pay no withdrawal
    Other,       \* a transaction of a Safe that pays no withdrawal
    None

ASSUME CustodyAssumption ==
    /\ Withdrawal \subseteq Nat /\ MaxNonce \in Nat /\ MaxOther \in Nat
    /\ DOMAIN Payment = Withdrawal
    /\ Other \notin [safe : Safe, nonce : 0 .. MaxNonce, pays : {Payment[w] : w \in Withdrawal}]
    /\ None \notin [safe : Safe, nonce : 0 .. MaxNonce, pays : {Payment[w] : w \in Withdrawal}]

VARIABLES
    held,   \* proposals the Safe service holds: payouts with their tags
    chain   \* chain[f]: what has run under each nonce of Safe f, and whether it succeeded

safeVars == <<held, chain>>

Payout   == [safe : Safe, nonce : 0 .. MaxNonce, pays : {Payment[w] : w \in Withdrawal}]
Proposal == [w : Withdrawal, tx : Payout]

PayoutOf(w, f, n) == [safe |-> f, nonce |-> n, pays |-> Payment[w]]

-----------------------------------------------------------------------------
OnChainNonce(f) == Len(chain[f])

Used(tx) == tx.nonce < OnChainNonce(tx.safe)
Ran(tx)  == Used(tx) /\ chain[tx.safe][tx.nonce + 1].tx = tx
Paid(tx) == Ran(tx) /\ chain[tx.safe][tx.nonce + 1].ok

\* The nonce was used by another transaction.
Replaced(tx) == Used(tx) /\ ~ Ran(tx)

\* n follows every queued and executed transaction of the Safe.
IsNextNonce(f, n) ==
    LET queued == {h.tx.nonce : h \in {x \in held : x.tx.safe = f}}
    IN  /\ n >= OnChainNonce(f) /\ \A q \in queued : q < n
        /\ n = OnChainNonce(f) \/ n - 1 \in queued

\* Transactions that can still run, or have run with success, tagged with w.
PayoutsFor(w) == {h \in held : h.w = w /\ (Used(h.tx) => Paid(h.tx))}

\* The service keeps the first tag of a hash.
Take(p) == held' = IF \E h \in held : h.tx = p.tx THEN held ELSE held \cup {p}

\* A transaction runs under the next nonce of its Safe, and may fail.
Execute(p, ok) ==
    /\ p \in held /\ p.tx.nonce = OnChainNonce(p.tx.safe)
    /\ chain' = [chain EXCEPT ![p.tx.safe] = Append(@, [tx |-> p.tx, ok |-> ok])]
    /\ UNCHANGED held

\* The owners use the nonce for something else, a rejection for instance.
ExecuteOther(f) ==
    /\ Cardinality({n \in DOMAIN chain[f] : chain[f][n].tx = Other}) < MaxOther
    /\ chain' = [chain EXCEPT ![f] = Append(@, [tx |-> Other, ok |-> TRUE])]
    /\ UNCHANGED held

SafeInit == held = {} /\ chain = [f \in Safe |-> <<>>]
=============================================================================
