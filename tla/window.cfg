CONSTANTS
  t1 = t1
  t2 = t2
  t3 = t3
  t4 = t4
  Tx <- FourTxs
  Size = 3
  MaxInt = 5
  MaxEmitted = 9
  MaxRestarts = 1
SYMMETRY Symmetry
SPECIFICATION Spec
CHECK_DEADLOCK FALSE
INVARIANTS WindowInv RepeatsAreFar WindowIsExact
