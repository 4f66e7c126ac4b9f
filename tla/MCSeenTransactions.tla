-------------------------- MODULE MCSeenTransactions --------------------------
EXTENDS SeenTransactions, TLC

CONSTANTS t1, t2, t3, t4

FourTxs == {t1, t2, t3, t4}
Symmetry == Permutations(FourTxs)
===============================================================================
