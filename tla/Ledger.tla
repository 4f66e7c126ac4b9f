-------------------------------- MODULE Ledger --------------------------------
(***************************************************************************)
(* What consensus promises to the rest of a node: the nodes' chains grow   *)
(* along one ledger.  A chain that is already the longest is extended by   *)
(* an executable block on its last block; any other chain is extended by   *)
(* what the longest chain holds at that height.                            *)
(***************************************************************************)
EXTENDS Integers, Sequences

CONSTANTS
    Replica,    \* the nodes whose chains are promised to agree
    Executable, \* blocks the VM confirms
    Genesis     \* the parent of the first block

VARIABLE chain

Last(s) == IF s = <<>> THEN Genesis ELSE s[Len(s)]

Longest(n) == \A q \in Replica : Len(chain[q]) <= Len(chain[n])

\* A new block is decided.
Decide(n) ==
    /\ Longest(n)
    /\ \E b \in Executable :
         /\ b.parent = Last(chain[n])
         /\ chain' = [chain EXCEPT ![n] = Append(@, b)]

\* A block some node already has is learned.
Learn(n) ==
    \E q \in Replica :
        /\ Len(chain[q]) > Len(chain[n])
        /\ chain' = [chain EXCEPT ![n] = Append(@, chain[q][Len(@) + 1])]

Init == chain = [n \in Replica |-> <<>>]
Next == \E n \in Replica : Decide(n) \/ Learn(n)
Spec == Init /\ [][Next]_chain
=============================================================================
