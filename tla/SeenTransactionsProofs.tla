------------------------ MODULE SeenTransactionsProofs ------------------------
(***************************************************************************)
(* The window of witnessed transactions, for any set of transactions, any  *)
(* size of the window and any number of restarts: a transaction is emitted *)
(* again only after a window of others, and the window does not grow.      *)
(***************************************************************************)
EXTENDS SeenTransactions, TLAPS

\* The count never rolls over, and stays past the window once it is.
LEMMA CountIsNatural ==
    ASSUME operations \in Nat
    PROVE  /\ Counted \in Nat
           /\ operations < Size => Counted = operations + 1
           /\ operations >= Size => Counted >= Size
  BY WindowAssumption DEF Counted

\* A new transaction enters the queue, and the oldest leaves it if it is full.
LEMMA WitnessKeeps ==
    ASSUME WindowInv, NEW t \in Tx, Receive(t)
    PROVE  WindowInv'
<1> DEFINE full  == Counted >= Size
           added == Append(queue, t)
           n     == Len(queue)
           m     == Len(emitted)
<1>1. /\ operations \in Nat /\ queue \in Seq(Tx) /\ seen \in SUBSET Tx
      /\ emitted \in Seq(Tx) /\ born \in 0 .. m /\ restarts \in Nat
      /\ n \in Nat /\ m \in Nat /\ Size \in Nat
  BY WindowAssumption DEF WindowInv, WindowTypeOK
<1>2. /\ operations' = Counted /\ emitted' = Append(emitted, t) /\ t \notin seen
      /\ queue' = (IF full THEN Tail(added) ELSE added)
      /\ seen' = (seen \cup {t}) \ (IF full THEN {Head(added)} ELSE {})
      /\ born' = born /\ restarts' = restarts
  BY DEF Receive, Witness
<1>3. /\ added \in Seq(Tx) /\ Len(added) = n + 1
      /\ \A k \in 1 .. n : added[k] = queue[k]
      /\ added[n + 1] = t /\ Head(added) = added[1]
  BY <1>1
<1>4. /\ Tail(added) \in Seq(Tx) /\ Len(Tail(added)) = n
      /\ \A k \in 1 .. n : Tail(added)[k] = added[k + 1]
  BY <1>1, <1>3
<1>5. /\ emitted' \in Seq(Tx) /\ Len(emitted') = m + 1 /\ emitted'[m + 1] = t
      /\ \A i \in 1 .. m : emitted'[i] = emitted[i]
  BY <1>1, <1>2
<1>6. /\ Counted \in Nat /\ (operations < Size => Counted = operations + 1)
      /\ (operations >= Size => Counted >= Size)
  BY <1>1, CountIsNatural
<1>7. /\ operations < Size => n = m - born /\ operations = m - born
      /\ operations >= Size => n = (IF Size = 0 THEN 0 ELSE Size - 1) /\ n <= m - born
      /\ seen = {queue[k] : k \in 1 .. n} /\ (n < Size \/ n = 0)
      /\ \A k \in 1 .. n : queue[k] = emitted[m - n + k]
  BY DEF WindowInv, WindowIsExact, Emitted
\* A full queue held one place less than the window before.
<1>8. full => n = (IF Size = 0 THEN 0 ELSE Size - 1)
  BY <1>1, <1>6, <1>7
<1>9. WindowTypeOK'
  <2>1. queue' \in Seq(Tx)
    BY <1>2, <1>3, <1>4
  <2> QED BY <2>1, <1>1, <1>2, <1>5, <1>6 DEF WindowTypeOK
<1>10. /\ (operations' < Size => Len(queue') = Emitted' /\ operations' = Emitted')
       /\ (operations' >= Size => /\ Len(queue') = (IF Size = 0 THEN 0 ELSE Size - 1)
                                  /\ Len(queue') <= Emitted')
       /\ Len(queue') < Size \/ Len(queue') = 0
  BY <1>1, <1>2, <1>3, <1>4, <1>5, <1>6, <1>7, <1>8 DEF Emitted
<1>11. \A k \in 1 .. Len(queue') : queue'[k] = emitted'[Len(emitted') - Len(queue') + k]
  <2>1. \A k \in 1 .. n + 1 : added[k] = emitted'[m - n + k]
    <3> SUFFICES ASSUME NEW k \in 1 .. n + 1 PROVE added[k] = emitted'[m - n + k]
      OBVIOUS
    <3>1. CASE k = n + 1
      <4>1. m - n + (n + 1) = m + 1
        BY <1>1
      <4> QED BY <3>1, <4>1, <1>3, <1>5
    <3>2. CASE k \in 1 .. n
      <4>1. m - n + k \in 1 .. m
        BY <3>2, <1>1, <1>7
      <4> QED BY <3>2, <4>1, <1>3, <1>5, <1>7
    <3> QED BY <3>1, <3>2, <1>1
  <2> SUFFICES ASSUME NEW k \in 1 .. Len(queue')
               PROVE  queue'[k] = emitted'[Len(emitted') - Len(queue') + k]
    OBVIOUS
  <2>2. CASE full
    <3>1. queue' = Tail(added) /\ k \in 1 .. n /\ Len(queue') = n
      BY <2>2, <1>2, <1>4
    <3>2. k + 1 \in 1 .. n + 1 /\ m - n + (k + 1) = (m + 1) - n + k
      BY <3>1, <1>1
    <3>3. queue'[k] = added[k + 1]
      BY <3>1, <1>4
    <3>4. added[k + 1] = emitted'[m - n + (k + 1)]
      BY <2>1, <3>2
    <3> QED BY <3>1, <3>2, <3>3, <3>4, <1>5
  <2>3. CASE ~ full
    <3>1. queue' = added /\ k \in 1 .. n + 1 /\ Len(queue') = n + 1
      BY <2>3, <1>2, <1>3
    <3>2. (m + 1) - (n + 1) + k = m - n + k
      BY <3>1, <1>1
    <3> QED BY <2>1, <3>1, <3>2, <1>5
  <2> QED BY <2>2, <2>3
\* The hashes of the queue differ, so that the one that leaves is in it no more.
<1>12. seen' = {queue'[k] : k \in 1 .. Len(queue')}
  <2>1. CASE ~ full
    <3>1. {added[k] : k \in 1 .. n + 1} = {queue[k] : k \in 1 .. n} \cup {t}
      BY <1>1, <1>3
    <3> QED BY <2>1, <3>1, <1>2, <1>3, <1>7
  <2>2. CASE full
    <3>1. \A k \in 2 .. n + 1 : added[k] # added[1]
      <4> SUFFICES ASSUME NEW k \in 2 .. n + 1, added[k] = added[1] PROVE FALSE
        OBVIOUS
      <4>1. CASE k = n + 1
        BY <4>1, <1>1, <1>2, <1>3, <1>7
      <4>2. CASE k \in 2 .. n
        <5>1. /\ m - n + 1 \in born + 1 .. m /\ m - n + k \in born + 1 .. m
              /\ emitted[m - n + 1] = emitted[m - n + k]
          BY <4>2, <1>1, <1>3, <1>7, <1>8
        <5>2. \A i, j \in born + 1 .. m : i < j /\ emitted[i] = emitted[j] => j - i >= Size
          BY DEF WindowInv, RepeatsAreFar
        <5>3. m - n + 1 < m - n + k /\ (m - n + k) - (m - n + 1) = k - 1
          BY <4>2, <1>1
        <5> HIDE DEF m, n
        <5>4. (m - n + k) - (m - n + 1) >= Size
          BY <5>1, <5>2, <5>3
        <5> QED BY <5>3, <5>4, <4>2, <1>1, <1>7
      <4> QED BY <4>1, <4>2, <1>1
    <3>2. {added[k] : k \in 1 .. n + 1} = seen \cup {t}
      BY <1>1, <1>3, <1>7
    <3>3. seen' = {added[k] : k \in 2 .. n + 1}
      BY <2>2, <3>1, <3>2, <1>1, <1>2, <1>3
    <3>4. {added[k] : k \in 2 .. n + 1} = {added[k + 1] : k \in 1 .. n}
      <4>1. \A k \in 2 .. n + 1 : k - 1 \in 1 .. n /\ (k - 1) + 1 = k
        BY <1>1
      <4>2. \A k \in 1 .. n : k + 1 \in 2 .. n + 1
        BY <1>1
      <4> QED BY <4>1, <4>2
    <3> QED BY <2>2, <3>3, <3>4, <1>2, <1>4
  <2> QED BY <2>1, <2>2
<1>13. RepeatsAreFar'
  <2> SUFFICES ASSUME NEW i \in born + 1 .. m + 1, NEW j \in born + 1 .. m + 1,
                      i < j, emitted'[i] = emitted'[j]
               PROVE  j - i >= Size
    BY <1>2, <1>5 DEF RepeatsAreFar
  <2>1. CASE j \in born + 1 .. m
    <3>1. i \in born + 1 .. m /\ i \in 1 .. m /\ j \in 1 .. m
      BY <2>1, <1>1
    <3> QED BY <2>1, <3>1, <1>5 DEF WindowInv, RepeatsAreFar
  <2>2. CASE j = m + 1
    <3>1. i \in 1 .. m /\ emitted[i] = t
      BY <2>2, <1>1, <1>5
    <3>2. i <= m - n
      <4>1. ASSUME i > m - n PROVE FALSE
        <5>1. i - (m - n) \in 1 .. n /\ m - n + (i - (m - n)) = i
          BY <4>1, <3>1, <1>1
        <5> QED BY <5>1, <3>1, <1>2, <1>7
      <4> QED BY <4>1, <3>1, <1>1
    <3>3. operations >= Size
      BY <3>2, <1>1, <1>7
    <3> QED BY <2>2, <3>2, <3>3, <1>1, <1>7
  <2> QED BY <2>1, <2>2, <1>1
<1> QED BY <1>2, <1>5, <1>9, <1>10, <1>11, <1>12, <1>13 DEF WindowInv, WindowIsExact

\* A process that starts has emitted nothing and has an empty window.
LEMMA RestartKeeps ==
    ASSUME WindowInv, Restart
    PROVE  WindowInv'
  BY WindowAssumption
     DEF WindowInv, WindowTypeOK, WindowIsExact, RepeatsAreFar, Emitted, Restart

\* WindowInv is inductive: what SeenTransactionDB holds is always what the process
\* emitted last.
THEOREM WindowInductive == Spec => []WindowInv
<1>1. Init => WindowInv
  BY WindowAssumption
     DEF Init, Empty, WindowInv, WindowTypeOK, WindowIsExact, RepeatsAreFar, Emitted
<1>2. WindowInv /\ [Next]_vars => WindowInv'
  <2> SUFFICES ASSUME WindowInv, [Next]_vars PROVE WindowInv'
    OBVIOUS
  <2>1. CASE \E t \in Tx : Receive(t)
    BY <2>1, WitnessKeeps
  <2>2. CASE Restart
    BY <2>2, RestartKeeps
  <2>3. CASE UNCHANGED vars
    BY <2>3 DEF vars, WindowInv, WindowTypeOK, WindowIsExact, RepeatsAreFar, Emitted
  <2> QED BY <2>1, <2>2, <2>3 DEF Next, AlreadyWitnessed
<1> QED BY <1>1, <1>2, PTL DEF Spec

\* A transaction is sent to the VM again only when Size - 1 others were sent since,
\* or the process restarted (transformFullTransactions).
THEOREM RepeatsHold == Spec => []RepeatsAreFar
  BY WindowInductive, PTL DEF WindowInv

\* The set and the queue of hashes agree and stay within the window, also after the
\* count of operations has rolled over (witnessTransactionHash').
THEOREM WindowHolds == Spec => []WindowIsExact
  BY WindowInductive, PTL DEF WindowInv
===============================================================================
