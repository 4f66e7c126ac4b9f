---------------------------- MODULE MCBlockstanbul ----------------------------
(***************************************************************************)
(* Values for the constants of Blockstanbul, and reductions of the order   *)
(* of steps that keep its reachable decisions.                             *)
(***************************************************************************)
EXTENDS BlockstanbulLiveness, BlockstanbulInvariant

CONSTANTS
    Stakes,     \* the stake of each validator at genesis
    Heights,    \* heights a run decides
    Builders,   \* proposers whose candidates the VM confirms
    Changes     \* membership changes a first block may carry

-----------------------------------------------------------------------------
(* Validators, stakes and seeds *)

Three == 1 .. 3

\* A validator's vote counts double.
Heavy1 == [v \in Validator |-> IF v = 1 THEN 2 ELSE 1]

\* With the stakes Heavy1 of three: round 0 of height 1 falls to 3, round 1 to 2.
Seeds(h, r) == (3 * h + 2 * r) % 7

-----------------------------------------------------------------------------
(* Memberships and blocks *)

Founders == [vals |-> Validator, stakes |-> Stakes]

NoChange == [added |-> {}, removed |-> {}, updates |-> [v \in Validator |-> None]]

\* The weight moves from 1 to 3.
ShiftStake == [NoChange EXCEPT !.updates = [v \in Validator |-> IF v = 1 THEN 1
                                                               ELSE IF v = 3 THEN 2 ELSE None]]

\* Admits a member: a block of its own that leaves the membership as it is.
Readmit(v) == [NoChange EXCEPT !.added = {v}]

ShiftOnly  == {ShiftStake}
Static     == {NoChange}
Rivals     == {NoChange, Readmit(1), Readmit(2)}

Memberships == {Founders} \cup {After(Founders, d) : d \in Changes}

HeaderRounds(h) == IF StakingActiveFor(h) THEN Round ELSE {0}

BlocksOn(h, parents, members, changes) ==
    { [number |-> h, parent |-> p, signer |-> n, members |-> g, round |-> r,
       added |-> d.added, removed |-> d.removed, updates |-> d.updates] :
        p \in parents, n \in Validator, g \in members, r \in HeaderRounds(h), d \in changes }

Level1 == BlocksOn(1, {Genesis}, Memberships, Changes)
Level2 == BlocksOn(2, Level1, Memberships, {NoChange})

Blocks  == IF Heights = 1 THEN Level1 ELSE Level1 \cup Level2
BuiltBy == {b \in Blocks : b.signer \in Builders}

\* Blocks whose header time a clock may find too far ahead.
StampedAhead == {b \in Blocks : b.signer \in Builders}

\* Only a faulty proposer has rival blocks, and one of them fails in the VM.
BuiltSoundly == {b \in BuiltBy : b.added = {} \/ (b.added = {1} /\ b.signer \in Faulty)}

\* Candidates built by the proposer of their height and round only, on the
\* membership their parent leads to.
Inherited(b) == IF b.number = 1 THEN Founders ELSE After(b.parent.members, b.parent)

OnTurn(h, g, start, r) ==
    IF StakingActiveFor(h) THEN Leaders[h, g, start, r] ELSE RoundRobin(g.vals, r)

BuiltOnTurn ==
    {b \in Blocks : /\ b.members = Inherited(b)
                    /\ b.signer = OnTurn(b.number, b.members,
                                         IF b.number = 1 THEN 0 ELSE b.parent.round, b.round)}

-----------------------------------------------------------------------------
(* Reductions *)

\* A node works off its loopback queue before anyone else moves.  Loopback
\* steps read and write their node alone and only add messages, so every other
\* step commutes with them and no state with empty queues is lost.
LoopbackFirst ==
    LET busy == {n \in Validator : loop[n] # <<>>}
    IN  busy # {} => LET n == CHOOSE x \in busy : \A y \in busy : x <= y IN loop'[n] # loop[n]

\* Votes are taken in one go.  A PREPARE or COMMIT that completes no quorum
\* only waits in its node's context, where nothing but the completing vote
\* reads it, so taking it can be put off until the quorum it belongs to can be
\* completed at once, and which of those votes come first does not matter.
Cast(n, type, b) ==
    Faulty \cup {m.sender : m \in {x \in msgs : x.type = type /\ x.block = b /\ NotBehind(ctx[n], x)}}

Others(n, votes) == {v \in Validator \ {n} : votes[v] # None}

Gathering(n) ==
    \/ ~ ctx[n].hasPrepared /\ Others(n, ctx[n].prepared) # {}
    \/ Others(n, ctx[n].committed) # {}

NewVote(old, new, v) == new[v] \notin {None, old[v]}

\* The vote of v is the next to be taken of those in `cast'.
InOrder(n, v, old, cast) ==
    /\ IsSupermajority(ctx[n], cast)
    /\ \A u \in cast \ {n} : u < v => old[u] # None

QuorumsAtOnce ==
    \A n \in Honest : Idle(n) /\ ctx'[n] # ctx[n] =>
        /\ \A k \in Honest \ {n} : ~ Gathering(k)
        /\ \A v \in Validator :
            /\ NewVote(ctx[n].prepared, ctx'[n].prepared, v) =>
                  /\ ctx'[n].prepared[v] = ctx[n].proposal /\ ~ ctx[n].hasPrepared
                  /\ InOrder(n, v, ctx[n].prepared, Cast(n, "prepare", ctx[n].proposal))
            /\ NewVote(ctx[n].committed, ctx'[n].committed, v) =>
                  /\ ctx'[n].committed[v] = ctx[n].proposal
                  /\ InOrder(n, v, ctx[n].committed, Cast(n, "commit", ctx[n].proposal))
        /\ Gathering(n) => \/ ctx'[n].prepared # ctx[n].prepared
                           \/ ctx'[n].committed # ctx[n].committed

\* The same of round-change votes, up to the threshold they complete: first
\* the third that makes a node join, then the two thirds that make it move.
AskingFor(n, r) ==
    Faulty \cup {m.sender : m \in {x \in msgs : /\ x.type = "roundchange"
                                                /\ x.height = Height(ctx[n]) /\ x.round = r}}

RoundVotesAtOnce ==
    \A n \in Honest : Idle(n) =>
        \A r \in 1 .. MaxRound : \A v \in ctx'[n].roundChanged[r] \ ctx[n].roundChanged[r] :
            LET asking == AskingFor(n, r)
            IN  /\ \/ r > ctx[n].pendingRound /\ IsMinority(ctx[n], asking)
                   \/ IsSupermajority(ctx[n], asking)
                /\ \A u \in asking : u < v => u \in ctx[n].roundChanged[r]

\* A node that has committed the last height of the run rests.
TopHeight == \A n \in Honest : Height(ctx[n]) = Heights => ctx'[n] = ctx[n]
=============================================================================
