------------------------- MODULE BridgeDepositsSafety -------------------------
(***************************************************************************)
(* What makes deposits correct.                                            *)
(***************************************************************************)
EXTENDS BridgeDeposits

DepositsTypeOK ==
    /\ chain \in Chain
    /\ record \in [Deposit -> Status] /\ rebased \subseteq Rebasing
    /\ checkpoint \in Block /\ local \in [Server -> Block]
    /\ dead \in [Server -> SUBSET Deposit]
    /\ mempool \subseteq Call
    /\ scan \in [Server -> Scanning] /\ judge \in [Server -> Judging]

\* A deposit is on STRATO or in the file of those an operator must resolve.
Handled(d) == Recorded(d) \/ \E s \in Server : d \in dead[s]

Covered(b) == \A d \in Deposit : chain.at[d] <= b => Handled(d)

\* No checkpoint passes a deposit that is neither recorded nor set aside, whatever
\* steps a server fails at and whichever server scans: no poll comes back to it.
NothingMissed == Covered(checkpoint) /\ \A s \in Server : Covered(local[s])

\* What is minted has been rebased, although a poll that gets no factor records the
\* amount as it is: verification finds that it is not what the transfer comes to.
MintedAmountsAreRebased == \A d \in Rebasing : record[d] = "completed" => d \in rebased

-----------------------------------------------------------------------------
(* Why nothing is missed *)

\* A scan has left nothing behind it, and holds what it has read of its window.
KnowsScan(t) ==
    /\ t.at # "idle" => Covered(t.from - 1)
    /\ t.at \in {"recording", "each"} =>
          \A d \in Deposit : chain.at[d] <= WindowEnd(t) => Handled(d) \/ d \in t.rest
    /\ t.at \in {"verifying", "advancing", "saving"} => Covered(WindowEnd(t))

\* The amount no longer changes, and has been rebased.
Final(d) == record[d] \notin {"none", "quarantined"} /\ (Blind \/ (d \in Rebasing => d \in rebased))

\* A call moves a checkpoint only past what it records itself, or what was handled.
Justified(c) ==
    /\ c.kind = "window"  => \A d \in Deposit : chain.at[d] <= c.to => Handled(d) \/ d \in c.of
    /\ c.kind = "advance" => Covered(c.to)
    /\ c.kind = "confirm" => \A d \in c.of : Final(d)

KnowsJudge(t) == \A d \in t.good : Final(d)

MintedInv == \A d \in Deposit : record[d] = "completed" => Final(d)
ScansInv  == \A s \in Server : KnowsScan(scan[s])
JudgesInv == \A s \in Server : KnowsJudge(judge[s])
CallsInv  == \A c \in mempool : Justified(c)

DepositsInv ==
    /\ DepositsTypeOK /\ NothingMissed /\ MintedInv
    /\ ScansInv /\ JudgesInv /\ CallsInv

-----------------------------------------------------------------------------
(* Progress *)

UpToDate(s) ==
    judge'[s].good \cup judge'[s].bad = {d \in Deposit : record[d] = "initiated"}

Scans(s) ==
    \/ StartScan(s) /\ scan'[s].from > checkpoint
    \/ ReadWindow(s) \/ SetAside(s) \/ CallRecord(s) \/ CallEach(s)
    \/ VerifyRecorded(s) \/ CallAdvance(s) \/ SaveLocal(s)

Judges(s) == (Judge(s) /\ UpToDate(s)) \/ CallJudge(s)

\* What can keep a server from getting to the end of a poll that helps.  A poll
\* may also come to an end that looks like that of a failed one.
Setback(s) ==
    \/ EndScan(s) /\ ~ Scans(s)
    \/ EndJudge(s) /\ ~ Judges(s)
    \/ LoseLocal(s)
    \/ StartScan(s) /\ scan'[s].from <= checkpoint
    \/ Judge(s) /\ ~ UpToDate(s)

\* Failures end at last: the servers are up, the index catches up and calls are
\* answered.  Each poller is one loop, and from then on it gets on with its polls.
FairSpec ==
    /\ Spec
    /\ <>[][\A s \in Server : ~ Setback(s)]_vars
    /\ \A s \in Server : WF_vars(Scans(s)) /\ WF_vars(Judges(s))

\* A deposit's outcome, or an operator to decide it.
Settled(d) ==
    IF Recorded(d) THEN record[d] # "initiated" ELSE \E s \in Server : d \in dead[s]

\* Every deposit gets to STRATO and is minted or reviewed there, also after it was
\* quarantined, or it gets to an operator: no deposit that the contract refuses
\* holds the others back.
EveryDepositHandled == \A d \in Deposit : chain.at[d] <= chain.head ~> Settled(d)
=============================================================================
