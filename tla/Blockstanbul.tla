----------------------------- MODULE Blockstanbul -----------------------------
(***************************************************************************)
(* The Blockstanbul consensus engine of a STRATO node, composed with the   *)
(* network between validators, the VM that runs proposals, operators and   *)
(* restarts.  One action per InEvent of Blockchain.Blockstanbul.EventLoop. *)
(*                                                                         *)
(* ctx[n]   the BlockstanbulContext of node n, with the blocks it has      *)
(*          committed (the view's sequence is the length of that chain)    *)
(* msgs     every consensus message a node has sent: delivery may be late, *)
(*          repeated, out of order or never                                *)
(* loop[n]  messages n has sent and not yet handled itself: sendAllMessages*)
(*          feeds a node's own messages back before any other event        *)
(* vm[n]    proposals handed to the VM of n (RunPreprepare) and unanswered *)
(*                                                                         *)
(* A block is identified with its hash.  Signatures are abstracted to the  *)
(* sender of a message; only members of Faulty may say what they like.     *)
(***************************************************************************)
EXTENDS ProposerSelection, Sequences

CONSTANTS
    Validator,          \* every address that is ever a member, as integers
    Faulty,             \* members that may send any message under their name
    Crashing,           \* nodes that may restart and lose their memory
    Operated,           \* nodes whose operator forces rounds or mutes the vote
    Block,              \* every block that can be built
    Valid,              \* blocks whose execution the VM confirms
    FarFuture,          \* blocks stamped late enough for a clock to refuse
    Genesis,            \* the parent of the blocks of height 1
    None,               \* Haskell's Nothing
    Membership,         \* the validator sets and stakes a chain can lead to
    InitMembership,
    StakingActivation,  \* first height with stake-weighted selection
    MaxRound            \* bound: no node votes for a round beyond it

Honest == Validator \ Faulty
Round  == 0 .. MaxRound

\* applyValidatorChanges and applyStakeDelta: what block b makes of g.
After(g, b) ==
    [ vals   |-> (g.vals \cup b.added) \ b.removed,
      stakes |-> [v \in Validator |->
                    IF v \in b.removed THEN 0
                    ELSE IF b.updates[v] # None THEN b.updates[v]
                    ELSE g.stakes[v]] ]

StakingActiveFor(height) == height >= StakingActivation

\* The voters that are a supermajority, or a minority, of a membership:
\* hasSupermajority and hasMinority over currentVoteWeights, tabulated.
Weights(g, weighted) == VoteWeights(weighted, g.vals, g.stakes)

Supermajorities ==
    [g \in Membership |-> [weighted \in BOOLEAN |->
        {S \in SUBSET Validator : HasSupermajority(Weights(g, weighted), S)}]]
Minorities ==
    [g \in Membership |-> [weighted \in BOOLEAN |->
        {S \in SUBSET Validator : HasMinority(Weights(g, weighted), S)}]]

\* The selections consensus can ask for, tabulated.
Leaders ==
    [h \in {b.number : b \in Block} \cup {1 + b.number : b \in Block},
     g \in Membership, start \in Round, r \in Round |->
        SelectProposer(h, g.vals, g.stakes, start, r)]

\* stampAndSeal: the proposer writes the membership it sees and, once staking
\* is active, the round into the header; the hash changes with them.
Stamp(b, n, g, r) ==
    [b EXCEPT !.signer = n, !.members = g,
              !.round = IF StakingActiveFor(b.number) THEN r ELSE 0]

ASSUME ConstantsAssumption ==
    /\ Validator \subseteq Nat /\ IsFiniteSet(Validator)
    /\ Faulty \subseteq Validator
    /\ Crashing \subseteq Validator /\ Operated \subseteq Validator
    /\ Valid \subseteq Block /\ FarFuture \subseteq Block
    /\ None \notin Block /\ Genesis \notin Block
    /\ StakingActivation \in Nat /\ MaxRound \in Nat

ASSUME MembershipAssumption ==
    /\ InitMembership \in Membership
    /\ Membership \subseteq [vals : SUBSET Validator, stakes : [Validator -> Nat]]
    /\ \A g \in Membership, b \in Block : After(g, b) \in Membership

ASSUME BlockAssumption ==
    /\ Block \subseteq [number : Nat \ {0}, parent : Block \cup {Genesis}, signer : Validator,
                        members : Membership, round : Round, added : SUBSET Validator,
                        removed : SUBSET Validator, updates : [Validator -> Nat \cup {None}]]
    /\ \A b \in Block, n \in Validator, g \in Membership, r \in Round : Stamp(b, n, g, r) \in Block

\* Fewer than a third of the weight is faulty or loses its memory, whatever
\* the membership and whether or not stakes count.  Agreement needs it.
FaultBound ==
    \A g \in Membership, weighted \in BOOLEAN :
        LET w == Weights(g, weighted)
        IN  3 * WeightOf(w, Faulty \cup Crashing) <= TotalWeight(w)

VARIABLES ctx, msgs, loop, vm
vars == <<ctx, msgs, loop, vm>>

MaybeBlock == Block \cup {None}
Votes      == [Validator -> MaybeBlock]
NoVotes    == [v \in Validator |-> None]
Entry      == [block : Block, seals : Votes, members : Membership]

Context ==
    [ chain : Seq(Entry), round : Round, members : Membership, proposal : MaybeBlock,
      lock : MaybeBlock, myBlock : MaybeBlock, prepared : Votes, committed : Votes,
      hasPrepared : BOOLEAN, pendingRound : Round, behavior : BOOLEAN,
      roundChanged : [1 .. MaxRound -> SUBSET Validator] ]

BlockMessage ==
    [ type : {"preprepare", "prepare", "commit"}, sender : Validator,
      height : Nat, round : Round, block : Block ]
RoundMessage ==
    [ type : {"roundchange"}, sender : Validator,
      height : Nat, round : Round, block : {None} ]
Message == BlockMessage \cup RoundMessage

\* What a faulty member can put on the wire: any vote for heights in reach.
FaultyMessage ==
    [ type : {"preprepare", "prepare", "commit"}, sender : Faulty,
      height : {Len(ctx[n].chain) : n \in Honest}, round : Round, block : Block ]
    \cup
    [ type : {"roundchange"}, sender : Faulty,
      height : {Len(ctx[n].chain) : n \in Honest}, round : Round, block : {None} ]

-----------------------------------------------------------------------------
(* Reading a context *)

Height(c)    == Len(c.chain)
LastBlock(c) == IF c.chain = <<>> THEN Genesis ELSE c.chain[Len(c.chain)].block
LastRound(c) == IF c.chain = <<>> THEN 0 ELSE c.chain[Len(c.chain)].block.round

StakingActiveNow(c) == StakingActiveFor(Height(c) + 1)

\* Variant: rounds change on a third.
MinorityDecides(c, S) == S \in Minorities[c.members][StakingActiveNow(c)]

IsSupermajority(c, S) == S \in Supermajorities[c.members][StakingActiveNow(c)]
IsMinority(c, S)      == S \in Minorities[c.members][StakingActiveNow(c)]

\* selectProposer for round r of the block under consideration.
Selected(c, r) == Leaders[Height(c) + 1, c.members, LastRound(c), r]

\* computeLeader.
Proposer(c) ==
    IF StakingActiveNow(c)
    THEN Selected(c, c.round)
    ELSE RoundRobin(c.members.vals, c.round)

MayVote(c, n) == c.behavior /\ n \in c.members.vals

\* v <= v' for the sequence-major order on views.
NotBehind(c, m) ==
    \/ m.height > Height(c)
    \/ m.height = Height(c) /\ m.round >= c.round

SameView(c, m) == m.height = Height(c) /\ m.round = c.round

ViewMsg(type, n, c, b) ==
    [type |-> type, sender |-> n, height |-> Height(c), round |-> c.round, block |-> b]

VoteForRound(n, c, r) ==
    [type |-> "roundchange", sender |-> n, height |-> Height(c), round |-> r, block |-> None]

Voters(votes, b) == {v \in Validator : votes[v] = b}

-----------------------------------------------------------------------------
(* Procedures the handlers share: the context they leave, what they send *)

\* roundChange: ask for the next round, once per target.
RoundChange(c) ==
    IF c.round < MaxRound THEN [c EXCEPT !.pendingRound = c.round + 1] ELSE c

\* Variant: asks for the round after next.
VoteTooFar(c, n) ==
    IF c.round < MaxRound /\ c.pendingRound # c.round + 1 /\ MayVote(c, n)
    THEN << VoteForRound(n, c, c.round + 2) >>
    ELSE <<>>

RoundChangeVote(c, n) ==
    IF c.round < MaxRound /\ c.pendingRound # c.round + 1 /\ MayVote(c, n)
    THEN << VoteForRound(n, c, c.round + 1) >>
    ELSE <<>>

\* Variant: a new round also forgets the lock.
ClearRoundAndLock(c, r) ==
    [c EXCEPT !.round = r, !.proposal = None, !.prepared = NoVotes, !.committed = NoVotes,
              !.hasPrepared = FALSE, !.pendingRound = 0, !.lock = None,
              !.roundChanged = [k \in 1 .. MaxRound |-> IF k <= r THEN {} ELSE @[k]]]

\* The part of nextRound every caller shares: forget the round's votes.
ClearRound(c, r) ==
    [c EXCEPT !.round = r, !.proposal = None, !.prepared = NoVotes, !.committed = NoVotes,
              !.hasPrepared = FALSE, !.pendingRound = 0,
              !.roundChanged = [k \in 1 .. MaxRound |-> IF k <= r THEN {} ELSE @[k]]]

HasCandidate(c) == c.myBlock # None /\ c.myBlock.number = Height(c) + 1

LeadsRound(c, n) == MayVote(c, n) /\ Proposer(c) = n

\* nextRound (Round r): a leader holding no lock restamps its candidate.
NextRound(c, n, r) ==
    LET d == ClearRound(c, r)
    IN  IF LeadsRound(d, n) /\ d.lock = None /\ HasCandidate(d)
        THEN [d EXCEPT !.myBlock = Stamp(d.myBlock, n, d.members, r)]
        ELSE d

\* Variant: the restamped candidate goes before the lock.
CandidateFirst(d, n) ==
    IF ~ LeadsRound(d, n) THEN <<>>
    ELSE IF HasCandidate(d) THEN << ViewMsg("preprepare", n, d, d.myBlock) >>
    ELSE IF d.lock # None THEN << ViewMsg("preprepare", n, d, d.lock) >>
    ELSE <<>>

\* What nextRound sends from the context d it leaves: the lock unchanged, or
\* the restamped candidate.
Reproposal(d, n) ==
    IF ~ LeadsRound(d, n) THEN <<>>
    ELSE IF d.lock # None THEN << ViewMsg("preprepare", n, d, d.lock) >>
    ELSE IF HasCandidate(d) THEN << ViewMsg("preprepare", n, d, d.myBlock) >>
    ELSE <<>>

\* commitBlock, nextRound (Sequence s) included: the round does not change.
CommitBlock(c, b, seals) ==
    LET d == [c EXCEPT !.chain = Append(@, [block |-> b, seals |-> seals, members |-> c.members]),
                       !.members = After(c.members, b), !.lock = None, !.myBlock = None]
    IN  ClearRound(d, c.round)

\* Variant: the membership is that of genesis again.
GenesisContext(chain, members) ==
    [ chain |-> chain, members |-> InitMembership,
      round |-> IF chain = <<>> THEN 0 ELSE chain[Len(chain)].block.round,
      proposal |-> None, lock |-> None, myBlock |-> None, prepared |-> NoVotes,
      committed |-> NoVotes, hasPrepared |-> FALSE, pendingRound |-> 0, behavior |-> TRUE,
      roundChanged |-> [k \in 1 .. MaxRound |-> {}] ]

\* newContext from the Checkpoint of the best committed block.
NewContext(chain, members) ==
    [ chain |-> chain, members |-> members,
      round |-> IF chain = <<>> THEN 0 ELSE chain[Len(chain)].block.round,
      proposal |-> None, lock |-> None, myBlock |-> None, prepared |-> NoVotes,
      committed |-> NoVotes, hasPrepared |-> FALSE, pendingRound |-> 0, behavior |-> TRUE,
      roundChanged |-> [k \in 1 .. MaxRound |-> {}] ]

\* Variant: no lock is taken.
PrepareOnly(c) == [c EXCEPT !.hasPrepared = TRUE]

\* setLock, by the PREPARE that completes the quorum.
SetLock(c) == [c EXCEPT !.hasPrepared = TRUE, !.lock = c.proposal]

-----------------------------------------------------------------------------
(* Handling one message; `rest' is what remains to be looped back *)

\* The new context of n, the messages it sends, all of them looped back too.
Update(n, c, out, rest) ==
    /\ ctx'  = [ctx EXCEPT ![n] = c]
    /\ msgs' = msgs \cup {out[i] : i \in DOMAIN out}
    /\ loop' = [loop EXCEPT ![n] = rest \o out]

\* authorize and isAuthorized.
Authorized(c, m) ==
    /\ m.sender \in c.members.vals
    /\ m.type = "preprepare" => m.block.signer \in c.members.vals

\* assertChainConsistency.
ExtendsChain(c, b) == b.number = Height(c) + 1 /\ b.parent = LastBlock(c)

\* checkProposalHeader: only once staking is active.
HeaderOK(c, b) ==
    StakingActiveNow(c) =>
        /\ b.round <= c.round /\ b.round >= LastRound(c)
        /\ b.members = c.members
        /\ b.signer = Selected(c, b.round)

Acceptable(c, m) ==
    /\ SameView(c, m)
    /\ c.lock \in {None, m.block}
    /\ ExtendsChain(c, m.block)
    /\ HeaderOK(c, m.block)

FromProposer(c, m) == m.type = "preprepare" /\ Authorized(c, m) /\ m.sender = Proposer(c)

\* A proposal from the expected proposer that fails a check asks for the next
\* round; a header time ahead of the local clock may fail for everyone but
\* the node that stamped it.
RefuseProposal(n, m, rest) ==
    LET c == ctx[n] IN
    /\ FromProposer(c, m)
    /\ ~ Acceptable(c, m) \/ (m.block \in FarFuture /\ m.sender # n)
    /\ Update(n, RoundChange(c), RoundChangeVote(c, n), rest)
    /\ UNCHANGED vm

\* The first acceptable proposal of the round is kept and run in the VM.
AcceptProposal(n, m, rest) ==
    LET c == ctx[n] IN
    /\ FromProposer(c, m) /\ Acceptable(c, m)
    /\ IF c.proposal = None
       THEN /\ Update(n, [c EXCEPT !.proposal = m.block], <<>>, rest)
            /\ vm' = [vm EXCEPT ![n] = IF MayVote(c, n) THEN @ \cup {m.block} ELSE @]
       ELSE Update(n, c, <<>>, rest) /\ UNCHANGED vm

OnPrepare(n, m, rest) ==
    LET c  == ctx[n]
        ps == [c.prepared EXCEPT ![m.sender] = m.block]
        fires == /\ IsSupermajority(c, Voters(ps, m.block))
                 /\ c.proposal = m.block /\ ~ c.hasPrepared
    IN
    /\ m.type = "prepare" /\ Authorized(c, m) /\ NotBehind(c, m)
    /\ IF fires
       THEN Update(n, SetLock([c EXCEPT !.prepared = ps]),
                   IF MayVote(c, n) THEN << ViewMsg("commit", n, c, m.block) >> ELSE <<>>, rest)
       ELSE Update(n, [c EXCEPT !.prepared = ps], <<>>, rest)
    /\ UNCHANGED vm

OnCommit(n, m, rest) ==
    LET c  == ctx[n]
        cs == [c.committed EXCEPT ![m.sender] = m.block]
        fires == /\ IsSupermajority(c, Voters(cs, m.block))
                 /\ c.proposal = m.block
    IN
    /\ m.type = "commit" /\ Authorized(c, m) /\ NotBehind(c, m)
    /\ Update(n, IF fires THEN CommitBlock(c, m.block, cs) ELSE [c EXCEPT !.committed = cs],
              <<>>, rest)
    /\ UNCHANGED vm

\* Variant: votes for rounds gone by are counted as well.
AnyRoundVote(c, m) ==
    /\ m.type = "roundchange" /\ Authorized(c, m)
    /\ m.height = Height(c) /\ m.round > 0
    /\ m.sender \notin c.roundChanged[m.round]

\* Variant: only rounds beyond the next are counted.
VoteBeyondNext(c, m) ==
    /\ m.type = "roundchange" /\ Authorized(c, m)
    /\ m.height = Height(c) /\ m.round > c.round + 1
    /\ m.sender \notin c.roundChanged[m.round]

\* A vote for a later round of this height, not counted before.
FreshRoundVote(c, m) ==
    /\ m.type = "roundchange" /\ Authorized(c, m)
    /\ m.height = Height(c) /\ m.round > c.round
    /\ m.sender \notin c.roundChanged[m.round]

\* More than a third joins the vote; more than two thirds moves to the round
\* pendingRound then names.
OnRoundChange(n, m, rest) ==
    LET c      == ctx[n]
        voters == c.roundChanged[m.round] \cup {m.sender}
        joins  == IsMinority(c, voters) /\ m.round > c.pendingRound
        d      == [c EXCEPT !.roundChanged[m.round] = voters,
                            !.pendingRound = IF joins THEN m.round ELSE @]
        vote   == IF joins /\ MayVote(c, n) THEN << VoteForRound(n, c, m.round) >> ELSE <<>>
        e      == NextRound(d, n, d.pendingRound)
    IN
    /\ FreshRoundVote(c, m)
    /\ IF IsSupermajority(c, voters)
       THEN Update(n, e, vote \o Reproposal(e, n), rest)
       ELSE Update(n, d, vote, rest)
    /\ UNCHANGED vm

\* Messages the handlers drop, which only matters to the loopback queue.
Ignored(c, m) ==
    \/ ~ Authorized(c, m)
    \/ m.type = "preprepare" /\ m.sender # Proposer(c)
    \/ m.type \in {"prepare", "commit"} /\ ~ NotBehind(c, m)
    \/ m.type = "roundchange" /\ ~ FreshRoundVote(c, m)

Handle(n, m, rest) ==
    \/ RefuseProposal(n, m, rest)
    \/ AcceptProposal(n, m, rest)
    \/ OnPrepare(n, m, rest)
    \/ OnCommit(n, m, rest)
    \/ OnRoundChange(n, m, rest)

-----------------------------------------------------------------------------
(* The events of a node *)

Idle(n) == loop[n] = <<>>

Receive(n) ==
    /\ Idle(n)
    /\ \E m \in msgs \cup FaultyMessage : Handle(n, m, <<>>)

Loopback(n) ==
    /\ ~ Idle(n)
    /\ \/ Handle(n, Head(loop[n]), Tail(loop[n]))
       \/ /\ Ignored(ctx[n], Head(loop[n]))
          /\ Update(n, ctx[n], <<>>, Tail(loop[n])) /\ UNCHANGED vm

\* The round timer fires for the view the node is in.
Timeout(n) ==
    /\ Idle(n)
    /\ Update(n, RoundChange(ctx[n]), RoundChangeVote(ctx[n], n), <<>>)
    /\ UNCHANGED vm

Front(s) == SubSeq(s, 1, Len(s) - 1)

\* The VM may lag one block behind the chain it builds on.
Buildable(c, n) ==
    { b \in Valid : /\ b = Stamp(b, n, c.members, c.round)
                    /\ \/ ExtendsChain(c, b)
                       \/ /\ c.chain # <<>>
                          /\ ExtendsChain([c EXCEPT !.chain = Front(@)], b) }

\* The proposer of a round that has no proposal yet.
MayPropose(c, n) == c.proposal = None /\ Proposer(c) = n

\* handleUnannouncedBlock: the candidate is kept; the proposer of a round that
\* has no proposal yet proposes its lock or else the candidate.
UnannouncedBlock(n) ==
    LET c == ctx[n] IN
    /\ Idle(n)
    /\ \E b \in Buildable(c, n) :
         LET d    == [c EXCEPT !.myBlock = b]
             real == IF c.lock = None THEN b ELSE c.lock
         IN  IF MayPropose(c, n) /\ ExtendsChain(c, real)
             THEN /\ Update(n, [d EXCEPT !.proposal = real],
                            IF MayVote(c, n) THEN << ViewMsg("preprepare", n, c, real) >> ELSE <<>>,
                            <<>>)
                  /\ vm' = [vm EXCEPT ![n] = IF MayVote(c, n) THEN @ \cup {real} ELSE @]
             ELSE Update(n, d, <<>>, <<>>) /\ UNCHANGED vm

\* Variant: proposals count as confirmed before the VM has answered.
Unconfirmed(n) == vm[n]

Confirmed(n) == vm[n] \cap Valid

\* The answer may come after the view it was asked in: the PREPARE is sent for
\* the view of now.
AcceptPreprepare(n) ==
    LET c == ctx[n] IN
    /\ Idle(n)
    /\ \E b \in Confirmed(n) :
         /\ vm' = [vm EXCEPT ![n] = @ \ {b}]
         /\ Update(n, c, IF MayVote(c, n) THEN << ViewMsg("prepare", n, c, b) >> ELSE <<>>, <<>>)

RejectPreprepare(n) ==
    LET c == ctx[n] IN
    /\ Idle(n)
    /\ \E b \in vm[n] \ Valid : vm' = [vm EXCEPT ![n] = @ \ {b}]
    /\ Update(n, RoundChange(c), RoundChangeVote(c, n), <<>>)

\* Who can be shown to have sealed b.
SealHolders(b) == Faulty \cup {m.sender : m \in {x \in msgs : x.type = "commit" /\ x.block = b}}

\* Blocks with seals a peer can serve: those of its own chain ...
ServedBlocks ==
    UNION { {[block |-> ctx[p].chain[i].block, seals |-> ctx[p].chain[i].seals] :
               i \in DOMAIN ctx[p].chain} : p \in Honest }

\* ... or, if it is faulty, any block with seals it has seen or can make.
AssembledBlocks ==
    UNION { {[block |-> b, seals |-> [v \in Validator |-> IF v \in S THEN b ELSE None]] :
               S \in SUBSET SealHolders(b)} : b \in Block }

SealedBlocks == ServedBlocks \cup (IF Faulty = {} THEN {} ELSE AssembledBlocks)

\* Variant: the block number is not checked.
ReplayableAnywhere(c, e) ==
    /\ e.block.signer \in c.members.vals
    /\ e.block.members.vals = c.members.vals
    /\ \A v \in Validator : e.seals[v] # None => e.seals[v] = e.block /\ v \in c.members.vals
    /\ IsSupermajority(c, Voters(e.seals, e.block))

\* replayHistoricBlock: a seal for another hash recovers to a stranger.
Replayable(c, e) ==
    /\ e.block.number = Height(c) + 1
    /\ e.block.signer \in c.members.vals
    /\ e.block.members.vals = c.members.vals
    /\ \A v \in Validator : e.seals[v] # None => e.seals[v] = e.block /\ v \in c.members.vals
    /\ IsSupermajority(c, Voters(e.seals, e.block))
    /\ StakingActiveNow(c) =>
          /\ e.block.members.stakes = c.members.stakes
          /\ e.block.round >= LastRound(c)
          /\ e.block.signer = Selected(c, e.block.round)

PreviousBlock(n) ==
    /\ Idle(n)
    /\ \E e \in SealedBlocks :
         /\ Replayable(ctx[n], e)
         /\ Update(n, CommitBlock(ctx[n], e.block, e.seals), <<>>, <<>>)
    /\ UNCHANGED vm

ForceableRounds(c) == c.round .. MaxRound

\* Operator events: ForcedRound (and ForcedSequence of the current sequence,
\* which does the same), ForcedValidator.
ForcedRound(n) ==
    /\ Idle(n) /\ n \in Operated
    /\ \E r \in ForceableRounds(ctx[n]) :
         LET d == NextRound(ctx[n], n, r) IN Update(n, d, Reproposal(d, n), <<>>)
    /\ UNCHANGED vm

ForcedValidator(n) ==
    /\ Idle(n) /\ n \in Operated
    /\ \E on \in BOOLEAN : Update(n, [ctx[n] EXCEPT !.behavior = on], <<>>, <<>>)
    /\ UNCHANGED vm

\* The process restarts from its best committed block; votes, lock, candidate
\* and pending round are gone.  What an event sends is written out when it and
\* its loopback are done: a crash before that is a restart before the event.
Restart(n) ==
    /\ Idle(n) /\ n \in Crashing
    /\ Update(n, NewContext(ctx[n].chain, ctx[n].members), <<>>, <<>>)
    /\ UNCHANGED vm

-----------------------------------------------------------------------------
Init ==
    /\ ctx  = [n \in Validator |-> NewContext(<<>>, InitMembership)]
    /\ msgs = {}
    /\ loop = [n \in Validator |-> <<>>]
    /\ vm   = [n \in Validator |-> {}]

Next ==
    \E n \in Honest :
        \/ Receive(n) \/ Loopback(n) \/ Timeout(n) \/ UnannouncedBlock(n)
        \/ AcceptPreprepare(n) \/ RejectPreprepare(n) \/ PreviousBlock(n)
        \/ ForcedRound(n) \/ ForcedValidator(n) \/ Restart(n)

Spec == Init /\ [][Next]_vars
=============================================================================
