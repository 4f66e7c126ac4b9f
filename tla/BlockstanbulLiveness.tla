------------------------- MODULE BlockstanbulLiveness -------------------------
(***************************************************************************)
(* What the Blockstanbul engine must eventually do, and the fairness its   *)
(* scheduling provides: every event source of the sequencer's loop is read *)
(* again and again, gossip delivers, the proposer's VM keeps building      *)
(* candidates while transactions wait, and the round timer re-fires until  *)
(* the view moves.  Nobody is obliged to serve old blocks (PreviousBlock). *)
(***************************************************************************)
EXTENDS BlockstanbulSafety

Fairness ==
    \A n \in Honest :
        /\ WF_vars(Receive(n)) /\ WF_vars(Loopback(n)) /\ WF_vars(Timeout(n))
        /\ WF_vars(UnannouncedBlock(n))
        /\ WF_vars(AcceptPreprepare(n)) /\ WF_vars(RejectPreprepare(n))

LiveSpec == Spec /\ Fairness

\* Every node decides every height somebody can build a block for, without
\* anybody's help by sync, although timers fire at any moment up to the last
\* round of the run, which is long enough.
Target == {b.number : b \in Valid}

EveryoneDecides == \A n \in Honest : \A h \in Target : <>(Height(ctx[n]) >= h)
=============================================================================
