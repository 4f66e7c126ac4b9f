--------------------------- MODULE SeenTransactions ---------------------------
(***************************************************************************)
(* The window of transactions that strato-sequencer has witnessed.  A      *)
(* transaction in the window is not sent to the VM again; the oldest hash  *)
(* leaves it when a new one comes.  It is kept in memory only.             *)
(*                                                                         *)
(* operations, queue, seen   SeenTransactionDB (queue is _clearQueue)      *)
(* emitted                   transactions yielded to p2p and the VM        *)
(* born                      how many of them earlier processes yielded    *)
(***************************************************************************)
EXTENDS Integers, Sequences

CONSTANTS
    Tx,           \* transactions peers and clients may send, as often as they like
    Size,         \* the flag txdedupwindow
    MaxInt,       \* the largest Haskell Int
    MaxEmitted,   \* bound: transactions emitted
    MaxRestarts   \* bound: restarts

ASSUME WindowAssumption ==
    /\ Size \in Nat /\ MaxInt \in Nat /\ Size < MaxInt
    /\ MaxEmitted \in Nat /\ MaxRestarts \in Nat

VARIABLES operations, queue, seen, emitted, born, restarts
windowVars == <<operations, queue, seen>>
vars == <<operations, queue, seen, emitted, born, restarts>>

\* mkSeenTxDB
Empty == operations = 0 /\ queue = <<>> /\ seen = {}
Init  == Empty /\ emitted = <<>> /\ born = 0 /\ restarts = 0

\* Variant: the count rolls over.
CountedOver == IF operations = MaxInt THEN - MaxInt - 1 ELSE operations + 1

\* operations +~ 1, and "prevent Int rollover".
Counted == LET n == IF operations = MaxInt THEN - MaxInt - 1 ELSE operations + 1
           IN  IF n >= 0 THEN n ELSE Size + 1

\* Variant: what comes last leaves the window.
WitnessNewest(t) ==
    /\ operations' = Counted
    /\ LET added == Append(queue, t)
           full  == Counted >= Size
       IN  /\ queue' = IF full THEN Tail(added) ELSE added
           /\ seen' = IF full THEN seen ELSE seen \cup {t}

\* witnessTransactionHash': the oldest hash makes room once the window is full.
Witness(t) ==
    /\ operations' = Counted
    /\ LET added == Append(queue, t)
           full  == Counted >= Size
       IN  /\ queue' = IF full THEN Tail(added) ELSE added
           /\ seen' = (seen \cup {t}) \ (IF full THEN {Head(added)} ELSE {})

\* transformFullTransactions, for each transaction of a batch.
Receive(t) ==
    /\ t \notin seen /\ Len(emitted) < MaxEmitted
    /\ Witness(t)
    /\ emitted' = Append(emitted, t)
    /\ UNCHANGED <<born, restarts>>

AlreadyWitnessed(t) == t \in seen /\ UNCHANGED vars

\* The window is lost; Kafka delivers what was not acknowledged again.
Restart ==
    /\ restarts < MaxRestarts /\ restarts' = restarts + 1
    /\ operations' = 0 /\ queue' = <<>> /\ seen' = {}
    /\ born' = Len(emitted)
    /\ UNCHANGED emitted

Next == (\E t \in Tx : Receive(t) \/ AlreadyWitnessed(t)) \/ Restart

Spec == Init /\ [][Next]_vars
-------------------------------------------------------------------------------
\* What a process has emitted.
Emitted == Len(emitted) - born

\* Types of the variables.
WindowTypeOK ==
    /\ operations \in Nat /\ queue \in Seq(Tx) /\ seen \in SUBSET Tx
    /\ emitted \in Seq(Tx) /\ born \in 0 .. Len(emitted) /\ restarts \in Nat

\* A transaction is emitted again only when a window of others was emitted since,
\* or the process restarted ("Transaction window to deduplicate any given Tx").
RepeatsAreFar ==
    \A i, j \in born + 1 .. Len(emitted) :
        i < j /\ emitted[i] = emitted[j] => j - i >= Size

\* The set and the queue agree, and neither grows past the window, not even when
\* the count of operations rolls over.
WindowIsExact ==
    /\ seen = {queue[k] : k \in 1 .. Len(queue)}
    /\ Len(queue) < Size \/ Len(queue) = 0

\* The inductive invariant: the queue is what was emitted last, all of it until the
\* window is full.
WindowInv ==
    /\ WindowTypeOK /\ WindowIsExact /\ RepeatsAreFar
    /\ operations < Size => Len(queue) = Emitted /\ operations = Emitted
    /\ operations >= Size => Len(queue) = (IF Size = 0 THEN 0 ELSE Size - 1) /\ Len(queue) <= Emitted
    /\ \A k \in 1 .. Len(queue) : queue[k] = emitted[Len(emitted) - Len(queue) + k]
===============================================================================
