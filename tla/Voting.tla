------------------------------- MODULE Voting -------------------------------
(***************************************************************************)
(* The weighted quorums of the Blockstanbul consensus engine:              *)
(* voteWeights, weightOf, hasSupermajority and hasMinority of              *)
(* Blockchain.Blockstanbul.StateMachine.                                   *)
(*                                                                         *)
(* A weight is counted, not summed: voter v of weight w[v] owns the vote   *)
(* units <<v, 1>> ... <<v, w[v]>>, and the weight of a set of voters is    *)
(* the number of units they own.  That is the sum of their weights, and it *)
(* keeps the module free of recursion, so that proofs can derive quorum    *)
(* intersection from cardinalities alone.                                  *)
(***************************************************************************)
EXTENDS Integers, FiniteSets

\* Vote units owned by the members of `voters' that the weight map w knows.
VoteUnits(w, voters) ==
    UNION { {v} \X (1 .. w[v]) : v \in voters \cap DOMAIN w }

\* weightOf: entries of the weight map whose key is among the voters.
WeightOf(w, voters) == Cardinality(VoteUnits(w, voters))

TotalWeight(w) == WeightOf(w, DOMAIN w)

\* voteWeights: the published stakes of the members once staking is active and
\* somebody has stake, one vote per member otherwise.
VoteWeights(weighted, vals, stakes) ==
    IF weighted /\ \E v \in vals : stakes[v] > 0
    THEN [v \in vals |-> stakes[v]]
    ELSE [v \in vals |-> 1]

\* Variant: the supermajority of a third.
ThirdSuffices(w, voters) == 3 * WeightOf(w, voters) > TotalWeight(w)

\* More than two thirds, and more than one third, of the whole weight.
HasSupermajority(w, voters) == 3 * WeightOf(w, voters) > 2 * TotalWeight(w)
HasMinority(w, voters)      == 3 * WeightOf(w, voters) > TotalWeight(w)
=============================================================================
