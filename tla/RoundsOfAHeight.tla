--------------------------- MODULE RoundsOfAHeight ----------------------------
(***************************************************************************)
(* The proposers of one height, round after round, for every selection     *)
(* seed: what a node's calls of selectProposer return while it moves       *)
(* through the rounds of a height.  The seeds, stakes and the round the    *)
(* height starts at are chosen initially; a step is a round change.        *)
(***************************************************************************)
EXTENDS Integers, FiniteSets

CONSTANTS
    Validator,   \* the validators of the height, as addresses
    MaxStake,    \* bound: stakes
    MaxSeed,     \* bound: seeds, where the code has the whole range of a hash
    MaxRound     \* bound: rounds

ASSUME RoundsAssumption ==
    /\ Validator \subseteq Nat /\ IsFiniteSet(Validator)
    /\ MaxStake \in Nat /\ MaxSeed \in Nat /\ MaxRound \in Nat

VARIABLES seeds, stakes, start, round
vars == <<seeds, stakes, start, round>>

SeedOf(h, r) == seeds[r]

P == INSTANCE ProposerSelection WITH Seed <- SeedOf

ProposerAt(r) == P!SelectProposer(1, Validator, stakes, start, r)

Init ==
    /\ seeds  \in [0 .. MaxRound -> 0 .. MaxSeed]
    /\ stakes \in [Validator -> 0 .. MaxStake]
    /\ start  \in 0 .. 1
    /\ round = start

ChangeRound == round < MaxRound /\ round' = round + 1 /\ UNCHANGED <<seeds, stakes, start>>

Next == ChangeRound
Spec == Init /\ [][Next]_vars

-----------------------------------------------------------------------------
\* In the first n rounds of a height, each of n validators proposes once, those
\* without stake included: as many silent proposers as there may be cannot
\* keep a height from reaching one that answers.
EveryoneHasATurn ==
    round < start + Cardinality(Validator) =>
        \A r \in start .. round - 1 : ProposerAt(r) # ProposerAt(round)

\* Over a full cycle of seeds a candidate is picked as often as it has stake.
PickIsProportional ==
    \A cands \in SUBSET Validator \ {{}} :
        LET total == P!TotalWeight([c \in cands |-> stakes[c]])
        IN  total > 0 => \A c \in cands :
                Cardinality({s \in 0 .. total - 1 : P!PickWeighted(s, cands, stakes) = c})
                    = stakes[c]
=============================================================================
