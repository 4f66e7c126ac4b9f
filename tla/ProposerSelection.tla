-------------------------- MODULE ProposerSelection --------------------------
(***************************************************************************)
(* Blockchain.Strato.Model.ProposerSelection.selectProposer: the           *)
(* stake-weighted choice of the proposer of a height and round, and the    *)
(* address-ordered round robin used before staking is active.              *)
(*                                                                         *)
(* Validators are addresses, which are integers, so the ascending list the *)
(* code walks is the order <.  keccak256 of chain id, height and round is  *)
(* the constant Seed: the code relies on nothing but its being a function. *)
(***************************************************************************)
EXTENDS Voting

CONSTANT Seed(_, _)

ASSUME SeedAssumption == \A h, r \in 0 .. 9 : Seed(h, r) \in Nat

Maximum2(a, b) == IF a >= b THEN a ELSE b

\* S.elemAt / (!!) on the ascending list of a set of addresses.
ElemAt(k, S) == CHOOSE v \in S : Cardinality({u \in S : u < v}) = k

\* Variant: the walk stops one unit late.
PickPast(seed, cands, stakes) ==
    LET w     == [c \in cands |-> stakes[c]]
        total == TotalWeight(w)
        upTo(c) == WeightOf(w, {d \in cands : d <= c})
    IN  IF total = 0
        THEN ElemAt(seed % Cardinality(cands), cands)
        ELSE CHOOSE c \in cands : \/ c = ElemAt(Cardinality(cands) - 1, cands)
                                  \/ /\ seed % total <= upTo(c)
                                     /\ \A d \in cands : d < c => seed % total > upTo(d)

\* pickWeighted: walk the ascending candidates until their running weight
\* passes seed mod total; uniform over the list when nobody has weight.
PickWeighted(seed, cands, stakes) ==
    LET w     == [c \in cands |-> stakes[c]]
        total == TotalWeight(w)
        upTo(c) == WeightOf(w, {d \in cands : d <= c})
    IN  IF total = 0
        THEN ElemAt(seed % Cardinality(cands), cands)
        ELSE CHOOSE c \in cands : /\ seed % total < upTo(c)
                                  /\ \A d \in cands : d < c => seed % total >= upTo(d)

\* go: the candidates left for round rnd once the picks of the rounds first ..
\* rnd - 1 have been filtered out, each pick made among what was left for it.
Candidates(height, vals, stakes, first, rnd) ==
    LET left[r \in first .. rnd] ==
            IF r = first
            THEN vals
            ELSE left[r - 1] \ {PickWeighted(Seed(height, r - 1), left[r - 1], stakes)}
    IN  left[rnd]

\* Variant: one round too few is excluded.
FirstRoundLate(vals, startRound, rnd) ==
    Maximum2(startRound, rnd - (Cardinality(vals) - 2))

\* Only the last n - 1 rounds of the height exclude anybody.
FirstRound(vals, startRound, rnd) ==
    Maximum2(startRound, rnd - (Cardinality(vals) - 1))

\* go stops at its first round already if rnd is behind startRound, and then
\* draws with the seed of that first round.
SelectProposer(height, vals, stakes, startRound, rnd) ==
    LET first == FirstRound(vals, startRound, rnd)
        last  == Maximum2(first, rnd)
    IN  PickWeighted(Seed(height, last),
                     Candidates(height, vals, stakes, first, last), stakes)

\* computeLeader before staking: the round counts through the sorted set.
RoundRobin(vals, rnd) == ElemAt(rnd % Cardinality(vals), vals)
=============================================================================
