--------------------------- MODULE BlockstanbulProofs ---------------------------
(***************************************************************************)
(* Safety of the Blockstanbul engine for every set of validators, stakes,  *)
(* membership changes, blocks and rounds, as long as less than a third of  *)
(* the weight is faulty or forgets its votes (FaultBound).                 *)
(*                                                                         *)
(* For the safety argument a step is one of three kinds: it decides        *)
(* nothing (Quiet), it locks and may send a seal (Sealing), or it appends  *)
(* a block (Committing).  StepKinds classifies every action of Next; the   *)
(* parts of IInv are then shown to survive each kind.                      *)
(***************************************************************************)
EXTENDS BlockstanbulViewProofs

-----------------------------------------------------------------------------
(* Kinds of steps, seen from the node n that takes them *)

OnlyBy(n) == \A k \in Validator \ {n} : ctx'[k] = ctx[k]

VotesKept(n) ==
    /\ AllBacked("prepare", ctx'[n].prepared)
    /\ AllBacked("commit", ctx'[n].committed)

Quiet(n) ==
    /\ ctx'[n].chain = ctx[n].chain /\ ctx'[n].members = ctx[n].members
    /\ ctx'[n].lock = ctx[n].lock \/ (n \in Crashing /\ ctx'[n].lock = None)
    /\ ProposalFits(ctx'[n])
    /\ VotesKept(n)
    /\ \A m \in msgs' \ msgs : m.type # "commit" /\ (m.type = "prepare" => m.block \in Valid)

Sealing(n) ==
    /\ ctx'[n].chain = ctx[n].chain /\ ctx'[n].members = ctx[n].members
    /\ ctx'[n].proposal = ctx[n].proposal
    /\ ctx[n].proposal # None /\ ctx'[n].lock = ctx[n].proposal
    /\ VotesKept(n)
    /\ IsSupermajority(ctx[n], Voters(ctx'[n].prepared, ctx[n].proposal))
    /\ \A m \in msgs' \ msgs :
          m.type = "commit" /\ m.sender = n /\ m.block = ctx[n].proposal

Committing(n) ==
    /\ \E b \in Block, seals \in Votes :
          /\ ctx'[n].chain = Append(ctx[n].chain,
                                    [block |-> b, seals |-> seals, members |-> ctx[n].members])
          /\ ctx'[n].members = After(ctx[n].members, b)
          /\ b.number = Height(ctx[n]) + 1
          /\ AllBacked("commit", seals)
          /\ IsSupermajority(ctx[n], Voters(seals, b))
    /\ ctx'[n].lock = None /\ ctx'[n].proposal = None
    /\ ctx'[n].prepared = NoVotes /\ ctx'[n].committed = NoVotes
    /\ msgs' = msgs

Kind(n) == OnlyBy(n) /\ msgs \subseteq msgs' /\ (Quiet(n) \/ Sealing(n) \/ Committing(n))

-----------------------------------------------------------------------------
(* What the shared procedures leave alone *)

\* A handler changes its own context and only adds messages.
LEMMA UpdateEffect ==
    ASSUME TypeOK, NEW n \in Validator, NEW c, NEW out, NEW rest, Update(n, c, out, rest)
    PROVE  ctx'[n] = c /\ OnlyBy(n) /\ msgs' = msgs \cup {out[i] : i \in DOMAIN out}
BY DEF Update, TypeOK, OnlyBy

\* roundChange touches neither chain, lock, proposal nor votes, and sends round votes only.
LEMMA RoundChangeKeeps ==
    ASSUME NEW c \in Context, NEW n \in Validator
    PROVE  /\ RoundChange(c).chain = c.chain /\ RoundChange(c).members = c.members
           /\ RoundChange(c).lock = c.lock /\ RoundChange(c).proposal = c.proposal
           /\ RoundChange(c).prepared = c.prepared /\ RoundChange(c).committed = c.committed
           /\ \A i \in DOMAIN RoundChangeVote(c, n) :
                 RoundChangeVote(c, n)[i].type = "roundchange"
BY DEF RoundChange, RoundChangeVote, VoteForRound, Context

\* A new round empties proposal and votes, and keeps chain and lock.
LEMMA ClearRoundKeeps ==
    ASSUME NEW c \in Context, NEW r \in Round
    PROVE  /\ ClearRound(c, r).chain = c.chain /\ ClearRound(c, r).members = c.members
           /\ ClearRound(c, r).lock = c.lock /\ ClearRound(c, r).proposal = None
           /\ ClearRound(c, r).prepared = NoVotes /\ ClearRound(c, r).committed = NoVotes
BY DEF ClearRound, Context

\* nextRound, restamping included, keeps chain and lock too.
LEMMA NextRoundKeeps ==
    ASSUME NEW c \in Context, NEW n \in Validator, NEW r \in Round
    PROVE  /\ NextRound(c, n, r).chain = c.chain /\ NextRound(c, n, r).members = c.members
           /\ NextRound(c, n, r).lock = c.lock /\ NextRound(c, n, r).proposal = None
           /\ NextRound(c, n, r).prepared = NoVotes /\ NextRound(c, n, r).committed = NoVotes
<1> DEFINE d == ClearRound(c, r)
<1>1. d \in Context
  BY ClearRoundTyped
<1> HIDE DEF d
<1>2. \/ NextRound(c, n, r) = d
      \/ NextRound(c, n, r) = [d EXCEPT !.myBlock = Stamp(d.myBlock, n, d.members, r)]
  BY DEF NextRound, d
<1>3. /\ NextRound(c, n, r).chain = d.chain /\ NextRound(c, n, r).members = d.members
      /\ NextRound(c, n, r).lock = d.lock /\ NextRound(c, n, r).proposal = d.proposal
      /\ NextRound(c, n, r).prepared = d.prepared /\ NextRound(c, n, r).committed = d.committed
  BY <1>1, <1>2 DEF Context
<1> QED
  BY <1>3, ClearRoundKeeps DEF d

\* commitBlock appends the block with its membership and starts the height unlocked.
LEMMA CommitBlockEffect ==
    ASSUME NEW c \in Context, NEW b \in Block, NEW seals \in Votes
    PROVE  LET d == CommitBlock(c, b, seals)
           IN  /\ d.chain = Append(c.chain, [block |-> b, seals |-> seals, members |-> c.members])
               /\ d.members = After(c.members, b)
               /\ d.lock = None /\ d.proposal = None
               /\ d.prepared = NoVotes /\ d.committed = NoVotes
BY DEF CommitBlock, ClearRound, Context

\* No votes are backed trivially.
LEMMA NoVotesBacked == AllBacked("prepare", NoVotes) /\ AllBacked("commit", NoVotes)
BY DEF AllBacked, NoVotes

\* A further vote keeps the votes backed.
LEMMA VoteIsBacked ==
    ASSUME NEW votes \in Votes, NEW m \in Message, NEW type, AllBacked(type, votes),
           m \in msgs \/ m.sender \in Faulty, m.type = type
    PROVE  AllBacked(type, [votes EXCEPT ![m.sender] = m.block])
BY MessageFields DEF AllBacked, Backed

-----------------------------------------------------------------------------
(* Every action is of one of the three kinds *)

\* A handler that appends nothing, keeps the lock and adds no seal is a quiet step.
LEMMA CalmIsQuiet ==
    ASSUME TypeOK, NEW n \in Honest, NEW c, NEW out, NEW rest, Update(n, c, out, rest),
           c.chain = ctx[n].chain, c.members = ctx[n].members,
           c.lock = ctx[n].lock \/ (n \in Crashing /\ c.lock = None),
           c.proposal # None => ExtendsChain(ctx[n], c.proposal) /\ c.lock \in {None, c.proposal},
           AllBacked("prepare", c.prepared), AllBacked("commit", c.committed),
           \A i \in DOMAIN out : /\ out[i].type # "commit"
                                 /\ out[i].type = "prepare" => out[i].block \in Valid
    PROVE  Kind(n)
<1>1. n \in Validator
  BY DEF Honest
<1>2. ctx'[n] = c /\ OnlyBy(n) /\ msgs' = msgs \cup {out[i] : i \in DOMAIN out}
  BY <1>1, UpdateEffect
<1>3. ProposalFits(c)
  BY DEF ProposalFits, ExtendsChain, Height, LastBlock
<1>4. VotesKept(n)
  BY <1>2 DEF VotesKept
<1>5. \A m \in msgs' \ msgs : m.type # "commit" /\ (m.type = "prepare" => m.block \in Valid)
  BY <1>2
<1>6. Quiet(n)
  BY <1>2, <1>3, <1>4, <1>5 DEF Quiet
<1> QED
  BY <1>2, <1>6 DEF Kind

\* What the invariant says of the context of n alone.
LEMMA OwnContext ==
    ASSUME IInv, NEW n \in Honest
    PROVE  /\ n \in Validator /\ ctx[n] \in Context
           /\ ProposalFits(ctx[n])
           /\ AllBacked("prepare", ctx[n].prepared) /\ AllBacked("commit", ctx[n].committed)
BY DEF IInv, TypeOK, ProposalsFit, VotesAreBacked, Honest

\* Asking for a round is quiet.
LEMMA AskForRoundKind ==
    ASSUME IInv, NEW n \in Honest, NEW rest,
           Update(n, RoundChange(ctx[n]), RoundChangeVote(ctx[n], n), rest)
    PROVE  Kind(n)
<1> DEFINE c == ctx[n]
<1>1. TypeOK /\ c.proposal # None => ExtendsChain(c, c.proposal) /\ c.lock \in {None, c.proposal}
  BY OwnContext DEF ProposalFits
<1>2. TypeOK
  BY DEF IInv
<1> QED
  BY <1>1, <1>2, OwnContext, RoundChangeKeeps, CalmIsQuiet

\* Entering a round is quiet, whether it re-proposes the lock or a candidate.
LEMMA NewRoundKind ==
    ASSUME IInv, NEW n \in Honest, NEW c \in Context, NEW r \in Round, NEW vote, NEW rest,
           c.chain = ctx[n].chain, c.members = ctx[n].members, c.lock = ctx[n].lock,
           vote = <<>> \/ \E v : vote = <<v>> /\ v.type = "roundchange",
           Update(n, NextRound(c, n, r), vote \o Reproposal(NextRound(c, n, r), n), rest)
    PROVE  Kind(n)
<1> DEFINE e   == NextRound(c, n, r)
           re  == Reproposal(e, n)
           out == vote \o re
<1>1. n \in Validator /\ TypeOK
  BY OwnContext DEF IInv
<1>2. /\ e.chain = ctx[n].chain /\ e.members = ctx[n].members /\ e.lock = ctx[n].lock
      /\ e.proposal = None /\ e.prepared = NoVotes /\ e.committed = NoVotes
  BY <1>1, NextRoundKeeps
<1>3. re = <<>> \/ \E v : re = <<v>> /\ v.type = "preprepare"
  BY DEF Reproposal, ViewMsg
<1>4. \A i \in DOMAIN out : out[i].type \in {"roundchange", "preprepare"}
  <2> HIDE DEF re
  <2>1. CASE vote = <<>> /\ re = <<>>
    BY <2>1
  <2>2. CASE vote = <<>> /\ \E v : re = <<v>> /\ v.type = "preprepare"
    BY <2>2
  <2>3. CASE (\E v : vote = <<v>> /\ v.type = "roundchange") /\ re = <<>>
    BY <2>3
  <2>4. CASE /\ \E v : vote = <<v>> /\ v.type = "roundchange"
             /\ \E v : re = <<v>> /\ v.type = "preprepare"
    BY <2>4
  <2> QED
    BY <1>3, <2>1, <2>2, <2>3, <2>4
<1>5. Update(n, e, out, rest)
  OBVIOUS
<1> HIDE DEF e, out
<1>6. \A i \in DOMAIN out : /\ out[i].type # "commit"
                            /\ out[i].type = "prepare" => out[i].block \in Valid
  BY <1>4
<1> QED
  BY <1>1, <1>2, <1>5, <1>6, NoVotesBacked, CalmIsQuiet

\* Whatever commits a block for which backed votes form a quorum is a committing step.
LEMMA CommitKind ==
    ASSUME IInv, NEW n \in Honest, NEW b \in Block, NEW seals \in Votes, NEW rest,
           Update(n, CommitBlock(ctx[n], b, seals), <<>>, rest),
           b.number = Height(ctx[n]) + 1, AllBacked("commit", seals),
           IsSupermajority(ctx[n], Voters(seals, b))
    PROVE  Kind(n)
<1>1. n \in Validator /\ ctx[n] \in Context /\ TypeOK
  BY OwnContext DEF IInv
<1>2. /\ ctx'[n] = CommitBlock(ctx[n], b, seals) /\ OnlyBy(n)
      /\ msgs' = msgs \cup {(<<>>)[i] : i \in DOMAIN <<>>}
  BY <1>1, UpdateEffect
<1>3. msgs' = msgs
  BY <1>2
<1>4. /\ ctx'[n].chain = Append(ctx[n].chain,
                                [block |-> b, seals |-> seals, members |-> ctx[n].members])
      /\ ctx'[n].members = After(ctx[n].members, b)
      /\ ctx'[n].lock = None /\ ctx'[n].proposal = None
      /\ ctx'[n].prepared = NoVotes /\ ctx'[n].committed = NoVotes
  BY <1>1, <1>2, CommitBlockEffect
<1>5. Committing(n)
  BY <1>3, <1>4 DEF Committing
<1> QED
  BY <1>2, <1>3, <1>5 DEF Kind

\* Taking a proposal is quiet: it extends the chain and matches the lock.
LEMMA AcceptProposalKind ==
    ASSUME IInv, NEW n \in Honest, NEW m \in Message, NEW rest, AcceptProposal(n, m, rest)
    PROVE  Kind(n)
<1> DEFINE c == ctx[n]
           d == [c EXCEPT !.proposal = m.block]
<1>1. TypeOK /\ c \in Context
  BY OwnContext DEF IInv
<1>2. CASE Update(n, d, <<>>, rest)
  <2>1. /\ d.chain = c.chain /\ d.members = c.members /\ d.lock = c.lock
        /\ d.proposal = m.block /\ d.prepared = c.prepared /\ d.committed = c.committed
    BY <1>1 DEF Context
  <2>2. ExtendsChain(c, m.block) /\ c.lock \in {None, m.block}
    BY DEF AcceptProposal, Acceptable
  <2> HIDE DEF d
  <2> QED
    BY <1>1, <1>2, <2>1, <2>2, OwnContext, CalmIsQuiet
<1>3. CASE Update(n, c, <<>>, rest)
  BY <1>1, <1>3, OwnContext, CalmIsQuiet DEF ProposalFits
<1> QED
  BY <1>2, <1>3 DEF AcceptProposal

\* A PREPARE is quiet, or completes a quorum and is the sealing step.
LEMMA OnPrepareKind ==
    ASSUME IInv, NEW n \in Honest, NEW m \in Message, m \in msgs \/ m.sender \in Faulty,
           NEW rest, OnPrepare(n, m, rest)
    PROVE  Kind(n)
<1> DEFINE c   == ctx[n]
           ps  == [c.prepared EXCEPT ![m.sender] = m.block]
           d   == [c EXCEPT !.prepared = ps]
           out == IF MayVote(c, n) THEN << ViewMsg("commit", n, c, m.block) >> ELSE <<>>
           fires == IsSupermajority(c, Voters(ps, m.block)) /\ c.proposal = m.block
<1>1. TypeOK /\ c \in Context /\ n \in Validator /\ c.prepared \in Votes
  BY OwnContext DEF IInv, Context
<1>2. m.type = "prepare" /\ m.block \in Block
  BY MessageFields DEF OnPrepare
<1>3. AllBacked("prepare", ps)
  BY <1>1, <1>2, OwnContext, VoteIsBacked
<1>4. /\ d.chain = c.chain /\ d.members = c.members /\ d.lock = c.lock
      /\ d.proposal = c.proposal /\ d.prepared = ps /\ d.committed = c.committed
  BY <1>1 DEF Context
<1>5. CASE Update(n, d, <<>>, rest)
  <2> HIDE DEF d, ps
  <2> QED
    BY <1>1, <1>3, <1>4, <1>5, OwnContext, CalmIsQuiet DEF ProposalFits
<1>6. CASE Update(n, SetLock(d), out, rest) /\ fires
  <2> DEFINE e == SetLock(d)
  <2>1. /\ e.chain = c.chain /\ e.members = c.members /\ e.lock = c.proposal
        /\ e.proposal = c.proposal /\ e.prepared = ps /\ e.committed = c.committed
    BY <1>1, <1>4 DEF Context, SetLock
  <2> HIDE DEF e
  <2>2. ctx'[n] = e /\ OnlyBy(n) /\ msgs' = msgs \cup {out[i] : i \in DOMAIN out}
    BY <1>1, <1>6, UpdateEffect DEF e
  <2>3. \A x \in msgs' \ msgs : x.type = "commit" /\ x.sender = n /\ x.block = c.proposal
    BY <1>6, <2>2 DEF ViewMsg
  <2>4. VotesKept(n)
    BY <1>3, <2>1, <2>2, OwnContext DEF VotesKept
  <2>5. c.proposal # None
    BY <1>2, <1>6, ConstantsAssumption
  <2>6. IsSupermajority(c, Voters(e.prepared, c.proposal))
    BY <1>6, <2>1
  <2>7. Sealing(n)
    BY <2>1, <2>2, <2>3, <2>4, <2>5, <2>6 DEF Sealing
  <2> QED
    BY <2>2, <2>7 DEF Kind
<1> QED
  BY <1>5, <1>6 DEF OnPrepare

\* A COMMIT is quiet, or completes a quorum and is a committing step.
LEMMA OnCommitKind ==
    ASSUME IInv, NEW n \in Honest, NEW m \in Message, m \in msgs \/ m.sender \in Faulty,
           NEW rest, OnCommit(n, m, rest)
    PROVE  Kind(n)
<1> DEFINE c  == ctx[n]
           cs == [c.committed EXCEPT ![m.sender] = m.block]
           d  == [c EXCEPT !.committed = cs]
           fires == IsSupermajority(c, Voters(cs, m.block)) /\ c.proposal = m.block
<1>1. TypeOK /\ c \in Context /\ n \in Validator /\ c.committed \in Votes
  BY OwnContext DEF IInv, Context
<1>2. m.type = "commit" /\ m.block \in Block /\ m.sender \in Validator
  BY MessageFields DEF OnCommit
<1>3. AllBacked("commit", cs) /\ cs \in Votes
  <2>1. AllBacked("commit", cs)
    BY <1>1, <1>2, OwnContext, VoteIsBacked
  <2>2. cs \in Votes
    BY <1>1, <1>2 DEF Votes, MaybeBlock
  <2> QED
    BY <2>1, <2>2
<1>4. /\ d.chain = c.chain /\ d.members = c.members /\ d.lock = c.lock
      /\ d.proposal = c.proposal /\ d.prepared = c.prepared /\ d.committed = cs
  BY <1>1 DEF Context
<1>5. CASE Update(n, d, <<>>, rest)
  <2> HIDE DEF d, cs
  <2> QED
    BY <1>1, <1>3, <1>4, <1>5, OwnContext, CalmIsQuiet DEF ProposalFits
<1>6. CASE Update(n, CommitBlock(c, m.block, cs), <<>>, rest) /\ fires
  <2>1. m.block.number = Height(c) + 1
    BY <1>2, <1>6, ConstantsAssumption, OwnContext DEF ProposalFits, ExtendsChain
  <2> HIDE DEF cs
  <2> QED
    BY <1>2, <1>3, <1>6, <2>1, CommitKind
<1> QED
  BY <1>5, <1>6 DEF OnCommit

\* A round-change vote is quiet, whether it is counted, joined or completed.
LEMMA OnRoundChangeKind ==
    ASSUME IInv, NEW n \in Honest, NEW m \in Message, NEW rest, OnRoundChange(n, m, rest)
    PROVE  Kind(n)
<1> DEFINE c      == ctx[n]
           voters == c.roundChanged[m.round] \cup {m.sender}
           joins  == IsMinority(c, voters) /\ m.round > c.pendingRound
           d      == [c EXCEPT !.roundChanged[m.round] = voters,
                               !.pendingRound = IF joins THEN m.round ELSE c.pendingRound]
           vote   == IF joins /\ MayVote(c, n) THEN << VoteForRound(n, c, m.round) >> ELSE <<>>
           e      == NextRound(d, n, d.pendingRound)
<1>1. TypeOK /\ c \in Context /\ n \in Validator
  BY OwnContext DEF IInv
<1>2. m.round \in Round /\ m.sender \in Validator
  BY MessageFields
<1>3. [c.roundChanged EXCEPT ![m.round] = voters] \in [1 .. MaxRound -> SUBSET Validator]
  <2>1. c.roundChanged \in [1 .. MaxRound -> SUBSET Validator]
    BY <1>1 DEF Context
  <2>2. voters \subseteq Validator \/ m.round \notin 1 .. MaxRound
    BY <1>2, <2>1
  <2> HIDE DEF voters, joins
  <2> QED
    BY <2>1, <2>2
<1> HIDE DEF voters, joins
<1>4. d \in Context
  BY <1>1, <1>2, <1>3 DEF Context
<1>5. /\ d.chain = c.chain /\ d.members = c.members /\ d.lock = c.lock
      /\ d.proposal = c.proposal /\ d.prepared = c.prepared /\ d.committed = c.committed
  BY <1>1 DEF Context
<1>6. vote = <<>> \/ \E v : vote = <<v>> /\ v.type = "roundchange"
  BY DEF VoteForRound
<1>7. Update(n, e, vote \o Reproposal(e, n), rest) \/ Update(n, d, vote, rest)
  BY DEF OnRoundChange, voters, joins
<1>8. d.pendingRound \in Round
  BY <1>4 DEF Context
<1> HIDE DEF d, vote
<1>9. CASE Update(n, e, vote \o Reproposal(e, n), rest)
  BY <1>4, <1>5, <1>6, <1>8, <1>9, NewRoundKind
<1>10. CASE Update(n, d, vote, rest)
  <2>1. \A i \in DOMAIN vote : /\ vote[i].type # "commit"
                               /\ vote[i].type = "prepare" => vote[i].block \in Valid
    BY <1>6
  <2> QED
    BY <1>1, <1>5, <1>10, <2>1, OwnContext, CalmIsQuiet DEF ProposalFits
<1> QED
  BY <1>7, <1>9, <1>10

\* Handling any one message is a step of one of the kinds.
LEMMA HandleKind ==
    ASSUME IInv, NEW n \in Honest, NEW m \in Message, m \in msgs \/ m.sender \in Faulty,
           NEW rest, Handle(n, m, rest)
    PROVE  Kind(n)
<1>1. RefuseProposal(n, m, rest) => Kind(n)
  BY AskForRoundKind DEF RefuseProposal
<1> QED
  BY <1>1, AcceptProposalKind, OnPrepareKind, OnCommitKind, OnRoundChangeKind DEF Handle

\* Taking a candidate is quiet, since what is proposed extends the chain.
LEMMA UnannouncedBlockKind ==
    ASSUME IInv, NEW n \in Honest, UnannouncedBlock(n)
    PROVE  Kind(n)
<1> DEFINE c == ctx[n]
<1>1. TypeOK /\ c \in Context /\ n \in Validator
  BY OwnContext DEF IInv
<1>2. PICK b \in Buildable(c, n) :
        LET d    == [c EXCEPT !.myBlock = b]
            real == IF c.lock = None THEN b ELSE c.lock
        IN  IF MayPropose(c, n) /\ ExtendsChain(c, real)
            THEN /\ Update(n, [d EXCEPT !.proposal = real],
                           IF MayVote(c, n) THEN << ViewMsg("preprepare", n, c, real) >> ELSE <<>>,
                           <<>>)
                 /\ vm' = [vm EXCEPT ![n] = IF MayVote(c, n) THEN @ \cup {real} ELSE @]
            ELSE Update(n, d, <<>>, <<>>) /\ UNCHANGED vm
  BY DEF UnannouncedBlock
<1> DEFINE d    == [c EXCEPT !.myBlock = b]
           real == IF c.lock = None THEN b ELSE c.lock
           e    == [d EXCEPT !.proposal = real]
           out  == IF MayVote(c, n) THEN << ViewMsg("preprepare", n, c, real) >> ELSE <<>>
<1>3. /\ d.chain = c.chain /\ d.members = c.members /\ d.lock = c.lock
      /\ d.proposal = c.proposal /\ d.prepared = c.prepared /\ d.committed = c.committed
  BY <1>1 DEF Context
<1>4. /\ e.chain = c.chain /\ e.members = c.members /\ e.lock = c.lock
      /\ e.proposal = real /\ e.prepared = c.prepared /\ e.committed = c.committed
  BY <1>1 DEF Context
<1>5. \A i \in DOMAIN out : out[i].type = "preprepare"
  BY DEF ViewMsg
<1>6. c.lock \in {None, real}
  OBVIOUS
<1>7. \/ Update(n, e, out, <<>>) /\ ExtendsChain(c, real)
      \/ Update(n, d, <<>>, <<>>)
  BY <1>2
<1> HIDE DEF d, e, out, real
<1>8. CASE Update(n, e, out, <<>>) /\ ExtendsChain(c, real)
  <2>1. \A i \in DOMAIN out : /\ out[i].type # "commit"
                              /\ out[i].type = "prepare" => out[i].block \in Valid
    BY <1>5
  <2> QED
    BY <1>1, <1>4, <1>6, <1>8, <2>1, OwnContext, CalmIsQuiet
<1>9. CASE Update(n, d, <<>>, <<>>)
  BY <1>1, <1>3, <1>9, OwnContext, CalmIsQuiet DEF ProposalFits
<1> QED
  BY <1>7, <1>8, <1>9

\* The VM's answer is quiet, and what is prepared has been executed.
LEMMA AcceptPreprepareKind ==
    ASSUME IInv, NEW n \in Honest, AcceptPreprepare(n)
    PROVE  Kind(n)
<1> DEFINE c == ctx[n]
<1>1. TypeOK
  BY DEF IInv
<1>2. PICK b \in Confirmed(n) :
        Update(n, c, IF MayVote(c, n) THEN << ViewMsg("prepare", n, c, b) >> ELSE <<>>, <<>>)
  BY DEF AcceptPreprepare
<1> DEFINE out == IF MayVote(c, n) THEN << ViewMsg("prepare", n, c, b) >> ELSE <<>>
<1>3. \A i \in DOMAIN out : /\ out[i].type # "commit"
                            /\ out[i].type = "prepare" => out[i].block \in Valid
  BY DEF ViewMsg, Confirmed
<1>4. Update(n, c, out, <<>>)
  BY <1>2
<1> HIDE DEF out
<1> QED
  BY <1>1, <1>3, <1>4, OwnContext, CalmIsQuiet DEF ProposalFits

\* Seals a peer serves were cast.
LEMMA ServedSealsAreBacked ==
    ASSUME IInv, NEW e \in SealedBlocks
    PROVE  AllBacked("commit", e.seals)
<1>1. CASE e \in ServedBlocks
  <2>1. PICK p \in Honest : e \in {[block |-> ctx[p].chain[i].block, seals |-> ctx[p].chain[i].seals] :
                                     i \in DOMAIN ctx[p].chain}
    BY <1>1 DEF ServedBlocks
  <2>2. PICK i \in DOMAIN ctx[p].chain : e.seals = ctx[p].chain[i].seals
    BY <2>1
  <2> QED
    BY <2>2 DEF IInv, VotesAreBacked
<1>2. CASE e \in AssembledBlocks
  <2>1. PICK b \in Block : \E S \in SUBSET SealHolders(b) :
               e = [block |-> b, seals |-> [v \in Validator |-> IF v \in S THEN b ELSE None]]
    BY <1>2 DEF AssembledBlocks
  <2>2. PICK S \in SUBSET SealHolders(b) : e.seals = [v \in Validator |-> IF v \in S THEN b ELSE None]
    BY <2>1
  <2> QED
    BY <2>2 DEF AllBacked, Backed, SealHolders
<1> QED
  BY <1>1, <1>2 DEF SealedBlocks

\* Sync commits by a quorum of seals that were cast.
LEMMA PreviousBlockKind ==
    ASSUME IInv, NEW n \in Honest, PreviousBlock(n)
    PROVE  Kind(n)
<1>1. PICK e \in SealedBlocks : /\ Replayable(ctx[n], e)
                                /\ Update(n, CommitBlock(ctx[n], e.block, e.seals), <<>>, <<>>)
  BY DEF PreviousBlock
<1>2. e.block \in Block /\ e.seals \in Votes
  BY SealedBlocksTyped DEF IInv
<1>3. e.block.number = Height(ctx[n]) + 1 /\ IsSupermajority(ctx[n], Voters(e.seals, e.block))
  BY <1>1 DEF Replayable
<1> QED
  BY <1>1, <1>2, <1>3, ServedSealsAreBacked, CommitKind

\* An operator forcing a round is quiet.
LEMMA ForcedRoundKind ==
    ASSUME IInv, NEW n \in Honest, ForcedRound(n)
    PROVE  Kind(n)
<1>1. ctx[n] \in Context
  BY OwnContext
<1>2. PICK r \in ForceableRounds(ctx[n]) :
        Update(n, NextRound(ctx[n], n, r), Reproposal(NextRound(ctx[n], n, r), n), <<>>)
  BY DEF ForcedRound
<1>3. r \in Round
  BY <1>1, ConstantsAssumption DEF ForceableRounds, Context, Round
<1> DEFINE re == Reproposal(NextRound(ctx[n], n, r), n)
<1>4. re = <<>> \/ \E v : re = <<v>>
  BY DEF Reproposal
<1>5. <<>> \o re = re
  <2> HIDE DEF re
  <2> QED
    BY <1>4
<1>6. Update(n, NextRound(ctx[n], n, r), <<>> \o re, <<>>)
  BY <1>2, <1>5
<1> QED
  BY <1>1, <1>3, <1>6, NewRoundKind

\* A restart of a node that may restart is quiet: it keeps the chain.
LEMMA RestartKind ==
    ASSUME IInv, NEW n \in Honest, Restart(n)
    PROVE  Kind(n)
<1> DEFINE c == NewContext(ctx[n].chain, ctx[n].members)
<1>1. /\ c.chain = ctx[n].chain /\ c.members = ctx[n].members
      /\ c.lock = None /\ c.proposal = None /\ c.prepared = NoVotes /\ c.committed = NoVotes
  BY DEF NewContext
<1>2. Update(n, c, <<>>, <<>>) /\ n \in Crashing /\ TypeOK
  BY DEF Restart, IInv
<1> HIDE DEF c
<1> QED
  BY <1>1, <1>2, NoVotesBacked, CalmIsQuiet

\* One case per action of Next.
LEMMA StepKinds ==
    ASSUME IInv, NEW n \in Honest,
           \/ Receive(n) \/ Loopback(n) \/ Timeout(n) \/ UnannouncedBlock(n)
           \/ AcceptPreprepare(n) \/ RejectPreprepare(n) \/ PreviousBlock(n)
           \/ ForcedRound(n) \/ ForcedValidator(n) \/ Restart(n)
    PROVE  Kind(n)
<1>1. TypeOK /\ n \in Validator /\ ctx[n] \in Context
  BY OwnContext DEF IInv
<1>2. CASE Receive(n)
  <2>1. PICK m \in msgs \cup FaultyMessage : Handle(n, m, <<>>)
    BY <1>2 DEF Receive
  <2>2. m \in Message
    BY <1>1, ReceivedTyped
  <2>3. m \in msgs \/ m.sender \in Faulty
    BY DEF FaultyMessage
  <2> QED
    BY <2>1, <2>2, <2>3, HandleKind
<1>3. CASE Loopback(n)
  <2>1. Head(loop[n]) \in Message /\ Head(loop[n]) \in msgs
    <3>1. loop[n] \in Seq(msgs) /\ loop[n] # <<>> /\ msgs \subseteq Message
      BY <1>1, <1>3 DEF Loopback, Idle, TypeOK
    <3> QED
      BY <3>1
  <2>2. CASE Handle(n, Head(loop[n]), Tail(loop[n]))
    BY <2>1, <2>2, HandleKind
  <2>3. CASE Update(n, ctx[n], <<>>, Tail(loop[n]))
    BY <1>1, <2>3, OwnContext, CalmIsQuiet DEF ProposalFits
  <2> QED
    BY <1>3, <2>2, <2>3 DEF Loopback
<1>4. CASE Timeout(n) \/ RejectPreprepare(n)
  BY <1>4, AskForRoundKind DEF Timeout, RejectPreprepare
<1>5. CASE ForcedValidator(n)
  <2>1. PICK on \in BOOLEAN : Update(n, [ctx[n] EXCEPT !.behavior = on], <<>>, <<>>)
    BY <1>5 DEF ForcedValidator
  <2> DEFINE d == [ctx[n] EXCEPT !.behavior = on]
  <2>2. /\ d.chain = ctx[n].chain /\ d.members = ctx[n].members /\ d.lock = ctx[n].lock
        /\ d.proposal = ctx[n].proposal /\ d.prepared = ctx[n].prepared
        /\ d.committed = ctx[n].committed
    BY <1>1 DEF Context
  <2>3. Update(n, d, <<>>, <<>>)
    BY <2>1
  <2> HIDE DEF d
  <2> QED
    BY <1>1, <2>2, <2>3, OwnContext, CalmIsQuiet DEF ProposalFits
<1> QED
  BY <1>2, <1>3, <1>4, <1>5, UnannouncedBlockKind, AcceptPreprepareKind, PreviousBlockKind,
     ForcedRoundKind, RestartKind

-----------------------------------------------------------------------------
(* Quorums of a membership *)

\* Two supermajorities share a member that is neither faulty nor forgetful.
LEMMA QuorumsMeet ==
    ASSUME FaultBound, NEW g \in Membership, NEW weighted \in BOOLEAN,
           NEW S \in Supermajorities[g][weighted], NEW T \in Supermajorities[g][weighted]
    PROVE  \E v \in Steady : v \in S /\ v \in T
<1> DEFINE w == Weights(g, weighted)
<1>1. HasSupermajority(w, S) /\ HasSupermajority(w, T)
  BY DEF Supermajorities
<1>2. 3 * WeightOf(w, Faulty \cup Crashing) <= TotalWeight(w)
  BY DEF FaultBound
<1>3. w \in [g.vals -> Nat] /\ IsFiniteSet(g.vals) /\ g.vals \subseteq Validator
  BY WeightsTyped
<1> HIDE DEF w
<1>4. \E v \in g.vals : v \in S /\ v \in T /\ v \notin Faulty \cup Crashing
  BY <1>1, <1>2, <1>3, SupermajoritiesIntersect
<1> QED
  BY <1>3, <1>4 DEF Steady

\* Backed votes for b that are a quorum make the holders of its seals one.
LEMMA SealedByQuorum ==
    ASSUME NEW g \in Membership, NEW weighted \in BOOLEAN, NEW seals \in Votes, NEW b \in Block,
           AllBacked("commit", seals), Voters(seals, b) \in Supermajorities[g][weighted]
    PROVE  SealHolders(b) \cap Validator \in Supermajorities[g][weighted]
<1>1. Voters(seals, b) \subseteq SealHolders(b) \cap Validator
  BY ConstantsAssumption DEF Voters, AllBacked, Backed, SealHolders
<1> QED
  BY <1>1, QuorumGrows

-----------------------------------------------------------------------------
(* Each part of the invariant survives each kind of step *)

\* Chains grow at the end only.
LEMMA ChainGrows ==
    ASSUME TypeOK, TypeOK', NEW n \in Honest, Kind(n)
    PROVE  \A k \in Honest :
              /\ Height(ctx[k]) <= Height(ctx'[k])
              /\ DOMAIN ctx[k].chain \subseteq DOMAIN ctx'[k].chain
              /\ \A i \in DOMAIN ctx[k].chain : ctx'[k].chain[i] = ctx[k].chain[i]
              /\ k # n => ctx'[k] = ctx[k]
<1> SUFFICES ASSUME NEW k \in Honest
             PROVE  /\ Height(ctx[k]) <= Height(ctx'[k])
                    /\ DOMAIN ctx[k].chain \subseteq DOMAIN ctx'[k].chain
                    /\ \A i \in DOMAIN ctx[k].chain : ctx'[k].chain[i] = ctx[k].chain[i]
                    /\ k # n => ctx'[k] = ctx[k]
  OBVIOUS
<1>1. k # n => ctx'[k] = ctx[k]
  BY DEF Kind, OnlyBy, Honest
<1>2. ctx[k].chain \in Seq(Entry)
  BY DEF TypeOK, Context, Honest
<1>3. \/ ctx'[k].chain = ctx[k].chain
      \/ \E e : ctx'[k].chain = Append(ctx[k].chain, e)
  BY <1>1 DEF Kind, Quiet, Sealing, Committing
<1> QED
  BY <1>1, <1>2, <1>3 DEF Height

\* A step keeps the votes backed: messages stay, and what is counted was received.
LEMMA VotesStayBacked ==
    ASSUME IInv, TypeOK', NEW n \in Honest, Kind(n)
    PROVE  VotesAreBacked'
<1> SUFFICES ASSUME NEW k \in Honest
             PROVE  /\ AllBacked("prepare", ctx[k].prepared)'
                    /\ AllBacked("commit", ctx[k].committed)'
                    /\ \A i \in DOMAIN ctx'[k].chain : AllBacked("commit", ctx[k].chain[i].seals)'
  BY DEF VotesAreBacked
<1>1. msgs \subseteq msgs' /\ k \in Validator
  BY DEF Kind, Honest
<1>2. AllBacked("prepare", ctx'[k].prepared) /\ AllBacked("commit", ctx'[k].committed)
  <2>1. CASE k # n
    BY <1>1, <2>1 DEF IInv, VotesAreBacked, Kind, OnlyBy
  <2>2. CASE k = n /\ (Quiet(n) \/ Sealing(n))
    BY <2>2 DEF Quiet, Sealing, VotesKept
  <2>3. CASE k = n /\ Committing(n)
    BY <2>3, NoVotesBacked DEF Committing
  <2> QED
    BY <2>1, <2>2, <2>3 DEF Kind
<1>3. \A i \in DOMAIN ctx'[k].chain : AllBacked("commit", ctx'[k].chain[i].seals)
  <2>1. \A i \in DOMAIN ctx[k].chain : AllBacked("commit", ctx[k].chain[i].seals)
    BY DEF IInv, VotesAreBacked
  <2>2. CASE ctx'[k].chain = ctx[k].chain
    BY <2>1, <2>2
  <2>3. CASE k = n /\ Committing(n)
    <3>1. PICK b \in Block, seals \in Votes :
            /\ ctx'[n].chain = Append(ctx[n].chain,
                                      [block |-> b, seals |-> seals, members |-> ctx[n].members])
            /\ AllBacked("commit", seals)
      BY <2>3 DEF Committing
    <3>2. ctx[k].chain \in Seq(Entry)
      BY <1>1 DEF IInv, TypeOK, Context
    <3> QED
      BY <2>1, <2>3, <3>1, <3>2
  <2> QED
    BY <1>1, <2>2, <2>3 DEF Kind, Quiet, Sealing, OnlyBy
<1>4. AllBacked("prepare", ctx[k].prepared)'
  BY <1>1, <1>2 DEF AllBacked, Backed
<1>5. AllBacked("commit", ctx[k].committed)'
  BY <1>1, <1>2 DEF AllBacked, Backed
<1>6. \A i \in DOMAIN ctx'[k].chain : AllBacked("commit", ctx[k].chain[i].seals)'
  BY <1>1, <1>3 DEF AllBacked, Backed
<1> QED
  BY <1>4, <1>5, <1>6

\* A step keeps proposals on the tip and in line with the lock.
LEMMA ProposalsStillFit ==
    ASSUME IInv, NEW n \in Honest, Kind(n)
    PROVE  ProposalsFit'
<1> SUFFICES ASSUME NEW k \in Honest
             PROVE  ProposalFits(ctx'[k])
  BY DEF ProposalsFit
<1>1. k \in Validator /\ ProposalFits(ctx[k])
  BY OwnContext
<1>2. CASE k # n
  BY <1>1, <1>2 DEF Kind, OnlyBy
<1>3. CASE k = n /\ Quiet(n)
  BY <1>3 DEF Quiet
<1>4. CASE k = n /\ Sealing(n)
  BY <1>1, <1>4 DEF Sealing, ProposalFits, ExtendsChain, Height, LastBlock
<1>5. CASE k = n /\ Committing(n)
  BY <1>5 DEF Committing, ProposalFits
<1> QED
  BY <1>2, <1>3, <1>4, <1>5 DEF Kind

\* The quorum of PREPAREs that completes a lock contains a steady member, and
\* that one has executed the block.
LEMMA SealedBlockIsExecuted ==
    ASSUME FaultBound, IInv, NEW n \in Honest, Sealing(n)
    PROVE  ctx[n].proposal \in Valid
<1> DEFINE b == ctx[n].proposal
           S == Voters(ctx'[n].prepared, b)
<1>1. ctx[n].members \in Membership /\ StakingActiveNow(ctx[n]) \in BOOLEAN
  BY OwnContext DEF Context, StakingActiveNow, StakingActiveFor
<1>2. S \in Supermajorities[ctx[n].members][StakingActiveNow(ctx[n])] /\ b # None
  BY DEF Sealing, IsSupermajority
<1>3. PICK v \in Steady : v \in S
  BY <1>1, <1>2, QuorumsMeet
<1>4. v \in Validator \ Faulty /\ ctx'[n].prepared[v] = b
  BY <1>3 DEF Steady, Voters
<1>5. PICK m \in msgs : m.type = "prepare" /\ m.block = b
  BY <1>2, <1>4 DEF Sealing, VotesKept, AllBacked, Backed
<1> QED
  BY <1>5 DEF IInv, VotesAreExecuted

\* A step keeps votes to executed blocks.
LEMMA VotesStayExecuted ==
    ASSUME FaultBound, IInv, NEW n \in Honest, Kind(n)
    PROVE  VotesAreExecuted'
<1> SUFFICES ASSUME NEW m \in msgs', m.type \in {"prepare", "commit"}
             PROVE  m.block \in Valid
  BY DEF VotesAreExecuted
<1>1. CASE m \in msgs
  BY <1>1 DEF IInv, VotesAreExecuted
<1>2. CASE m \notin msgs /\ Quiet(n)
  BY <1>2 DEF Quiet
<1>3. CASE m \notin msgs /\ Sealing(n)
  BY <1>3, SealedBlockIsExecuted DEF Sealing
<1>4. CASE m \notin msgs /\ Committing(n)
  BY <1>4 DEF Committing
<1> QED
  BY <1>1, <1>2, <1>3, <1>4 DEF Kind

\* A COMMIT is only added for the lock its sender then holds.
LEMMA NewSealIsTheLock ==
    ASSUME IInv, NEW n \in Honest, Kind(n), NEW m \in msgs' \ msgs, m.type = "commit"
    PROVE  /\ Sealing(n) /\ m.sender = n /\ m.block = ctx[n].proposal
           /\ m.block # None /\ ctx'[n].lock = m.block
           /\ ExtendsChain(ctx[n], m.block)
           /\ ctx[n].lock \in {None, m.block}
<1>1. Sealing(n)
  BY DEF Kind, Quiet, Committing
<1> QED
  BY <1>1, OwnContext DEF Sealing, ProposalFits

\* A step seals no second block of a height: the first seal's lock is in the way.
LEMMA StillCommitOnce ==
    ASSUME IInv, NEW n \in Honest, Kind(n)
    PROVE  CommitOnce'
<1>1. ASSUME NEW m1 \in msgs', NEW m2 \in msgs',
             m1.type = "commit", m2.type = "commit", m1.sender = m2.sender,
             m1.sender \in Steady, m1.block.number = m2.block.number,
             m2 \notin msgs
      PROVE  m1.block = m2.block
  <2>1. m2.sender = n /\ ExtendsChain(ctx[n], m2.block) /\ ctx[n].lock \in {None, m2.block}
    BY <1>1, NewSealIsTheLock
  <2>2. CASE m1 \in msgs
    <3>1. m1.block.number = Height(ctx[n]) + 1
      BY <1>1, <2>1 DEF ExtendsChain
    <3>2. ctx[n].lock = m1.block
      BY <1>1, <2>1, <2>2, <3>1 DEF IInv, SealBindsLock
    <3>3. m1.block # None
      BY <1>1, <2>2, MessageFields, ConstantsAssumption DEF IInv, TypeOK
    <3> QED
      BY <2>1, <3>2, <3>3
  <2>3. CASE m1 \notin msgs
    BY <1>1, <2>3, NewSealIsTheLock
  <2> QED
    BY <2>2, <2>3
<1>2. ASSUME NEW m1 \in msgs, NEW m2 \in msgs,
             m1.type = "commit", m2.type = "commit", m1.sender = m2.sender,
             m1.sender \in Steady, m1.block.number = m2.block.number
      PROVE  m1.block = m2.block
  BY <1>2 DEF IInv, CommitOnce
<1> QED
  BY <1>1, <1>2 DEF CommitOnce

\* The last block of a chain is what the next one is built on.
LEMMA LastIsBefore ==
    ASSUME NEW c \in Context
    PROVE  LastBlock(c) = BlockBefore(c, Height(c) + 1)
<1>1. c.chain \in Seq(Entry)
  BY DEF Context
<1> QED
  BY <1>1 DEF LastBlock, BlockBefore, Height

\* What a signed block was built on does not change under its signer's feet.
LEMMA BlockBeforeStays ==
    ASSUME TypeOK, TypeOK', NEW n \in Honest, Kind(n), NEW k \in Honest,
           NEW i \in Nat \ {0}, i <= Height(ctx[k]) + 1
    PROVE  /\ BlockBefore(ctx'[k], i) = BlockBefore(ctx[k], i)
           /\ MembersBefore(ctx'[k], i) = MembersBefore(ctx[k], i)
<1>1. ctx[k].chain \in Seq(Entry)
  BY DEF TypeOK, Context, Honest
<1>2. i # 1 => i - 1 \in DOMAIN ctx[k].chain
  BY <1>1 DEF Height
<1>3. i # 1 => ctx'[k].chain[i - 1] = ctx[k].chain[i - 1]
  BY <1>2, ChainGrows
<1> QED
  BY <1>3 DEF BlockBefore, MembersBefore

\* A step keeps every signer locked on what it has sealed.
LEMMA SealsStillBindTheLock ==
    ASSUME IInv, TypeOK', NEW n \in Honest, Kind(n)
    PROVE  SealBindsLock'
<1> SUFFICES ASSUME NEW m \in msgs', m.type = "commit", m.sender \in Steady,
                    m.block.number = Height(ctx'[m.sender]) + 1
             PROVE  ctx'[m.sender].lock = m.block
  BY DEF SealBindsLock
<1> DEFINE s == m.sender
<1>1. s \in Validator /\ s \in Honest
  BY DEF Steady, Honest
<1>2. CASE m \notin msgs
  BY <1>2, NewSealIsTheLock
<1>3. CASE m \in msgs
  <2>1. ctx'[s].chain = ctx[s].chain => ctx[s].lock = m.block
    BY <1>3 DEF IInv, SealBindsLock, Height
  <2>2. CASE s # n
    BY <1>1, <2>1, <2>2 DEF Kind, OnlyBy
  <2>3. CASE s = n /\ Quiet(n)
    BY <2>1, <2>3 DEF Quiet, Steady
  <2>4. CASE s = n /\ Sealing(n)
    <3>1. ctx[n].lock = m.block
      BY <2>1, <2>4 DEF Sealing
    <3>2. m.block # None
      BY <1>3, MessageFields, ConstantsAssumption DEF IInv, TypeOK
    <3>3. ctx[n].proposal = m.block
      BY <2>4, <3>1, <3>2, OwnContext DEF Sealing, ProposalFits
    <3> QED
      BY <2>4, <3>3 DEF Sealing
  <2>5. CASE s = n /\ Committing(n)
    <3>1. Height(ctx'[n]) = Height(ctx[n]) + 1
      <4>1. ctx[n].chain \in Seq(Entry)
        BY OwnContext DEF Context
      <4> QED
        BY <2>5, <4>1 DEF Committing, Height
    <3>2. m.block.number <= Height(ctx[n]) + 1
      BY <1>1, <1>3, <2>5 DEF IInv, SealsExtendTheSignersChain
    <3>3. Height(ctx[n]) \in Nat
      BY OwnContext, HeightIsNat
    <3> QED
      BY <2>5, <3>1, <3>2, <3>3
  <2> QED
    BY <2>2, <2>3, <2>4, <2>5 DEF Kind
<1> QED
  BY <1>2, <1>3

\* A step keeps seals on the signer's own chain.
LEMMA SealsStillExtendTheSignersChain ==
    ASSUME IInv, TypeOK', NEW n \in Honest, Kind(n)
    PROVE  SealsExtendTheSignersChain'
<1> SUFFICES ASSUME NEW m \in msgs', m.type = "commit", m.sender \in Honest
             PROVE  /\ m.block.number <= Height(ctx'[m.sender]) + 1
                    /\ m.block.parent = BlockBefore(ctx'[m.sender], m.block.number)
  BY DEF SealsExtendTheSignersChain
<1> DEFINE s == m.sender
<1>1. TypeOK /\ ctx[s] \in Context /\ ctx'[s] \in Context
  BY DEF IInv, TypeOK, Honest
<1>2. /\ Height(ctx[s]) \in Nat /\ Height(ctx'[s]) \in Nat
      /\ Height(ctx[s]) <= Height(ctx'[s])
  BY <1>1, HeightIsNat, ChainGrows
<1>3. m.block \in Block /\ m.block.number \in Nat \ {0}
  <2>1. m \in Message
    BY DEF TypeOK
  <2> QED
    BY <2>1, MessageFields, BlockAssumption
<1>4. /\ m.block.number <= Height(ctx[s]) + 1
      /\ m.block.parent = BlockBefore(ctx[s], m.block.number)
  <2>1. CASE m \in msgs
    BY <2>1 DEF IInv, SealsExtendTheSignersChain
  <2>2. CASE m \notin msgs
    <3>1. s = n /\ ExtendsChain(ctx[n], m.block)
      BY <2>2, NewSealIsTheLock
    <3> QED
      BY <1>1, <1>2, <3>1, LastIsBefore DEF ExtendsChain
  <2> QED
    BY <2>1, <2>2
<1>5. BlockBefore(ctx'[s], m.block.number) = BlockBefore(ctx[s], m.block.number)
  BY <1>1, <1>3, <1>4, BlockBeforeStays
<1>6. m.block.number <= Height(ctx'[s]) + 1
  BY <1>2, <1>3, <1>4
<1> QED
  BY <1>4, <1>5, <1>6

-----------------------------------------------------------------------------
(* What a committing step appends *)

\* Seals are held by validators.
LEMMA SealHoldersTyped ==
    ASSUME TypeOK, NEW b
    PROVE  SealHolders(b) \subseteq Validator
BY MessageFields, ConstantsAssumption DEF TypeOK, SealHolders

\* The holders of the seals of b once the step has been taken.
NextSealHolders(b) ==
    Faulty \cup {m.sender : m \in {x \in msgs' : x.type = "commit" /\ x.block = b}}

\* A block sealed by a supermajority stays so.
LEMMA SealHoldersGrow ==
    ASSUME TypeOK, TypeOK', msgs \subseteq msgs', NEW g \in Membership, NEW weighted \in BOOLEAN,
           NEW b, SealHolders(b) \in Supermajorities[g][weighted]
    PROVE  NextSealHolders(b) \in Supermajorities[g][weighted]
<1>1. SealHolders(b) \subseteq NextSealHolders(b)
  BY DEF SealHolders, NextSealHolders
<1>2. \A m \in msgs' : m.sender \in Validator
  BY MessageFields DEF TypeOK
<1>3. NextSealHolders(b) \subseteq Validator
  BY <1>2, ConstantsAssumption DEF NextSealHolders
<1> QED
  BY <1>1, <1>3, QuorumGrows

\* The members whose seals a chain entry shows.
LEMMA EntryIsCertified ==
    ASSUME IInv, NEW q \in Honest, NEW i \in DOMAIN ctx[q].chain
    PROVE  LET e == ctx[q].chain[i]
           IN  /\ e.block \in Block /\ e.members \in Membership
               /\ e.members = MembersBefore(ctx[q], i)
               /\ SealHolders(e.block) \in Supermajorities[e.members][StakingActiveFor(i)]
               /\ e.block.number = i
<1>1. ctx[q].chain \in Seq(Entry)
  BY OwnContext DEF Context
<1>2. ctx[q].chain[i] \in Entry
  BY <1>1
<1> QED
  BY <1>2 DEF Entry, IInv, CertifiedChain, ChainsAreLinked

\* A steady member that has sealed b.
LEMMA SteadySealer ==
    ASSUME NEW b, NEW v \in Steady, v \in SealHolders(b)
    PROVE  \E m \in msgs : m.type = "commit" /\ m.sender = v /\ m.block = b
BY DEF Steady, SealHolders

\* Two blocks of a height sealed by supermajorities of one membership are one.
LEMMA SealedBlocksAgree ==
    ASSUME FaultBound, IInv, NEW g \in Membership, NEW weighted \in BOOLEAN,
           NEW a, NEW b, a.number = b.number,
           SealHolders(a) \in Supermajorities[g][weighted],
           SealHolders(b) \in Supermajorities[g][weighted]
    PROVE  a = b
<1>1. PICK v \in Steady : v \in SealHolders(a) /\ v \in SealHolders(b)
  BY QuorumsMeet
<1>2. PICK m1 \in msgs : m1.type = "commit" /\ m1.sender = v /\ m1.block = a
  BY <1>1, SteadySealer
<1>3. PICK m2 \in msgs : m2.type = "commit" /\ m2.sender = v /\ m2.block = b
  BY <1>1, SteadySealer
<1> QED
  BY <1>2, <1>3 DEF IInv, CommitOnce

\* Nodes count the votes of a height by the same membership.
LEMMA MembershipsAgree ==
    ASSUME IInv, NEW p \in Honest, NEW q \in Honest, NEW i \in Nat \ {0},
           i <= Height(ctx[p]) + 1, i <= Height(ctx[q]) + 1
    PROVE  /\ MembersBefore(ctx[p], i) = MembersBefore(ctx[q], i)
           /\ BlockBefore(ctx[p], i) = BlockBefore(ctx[q], i)
<1>1. ctx[p].chain \in Seq(Entry) /\ ctx[q].chain \in Seq(Entry)
  BY OwnContext DEF Context
<1>2. i # 1 => i - 1 \in DOMAIN ctx[p].chain \cap DOMAIN ctx[q].chain
  BY <1>1 DEF Height
<1>3. i # 1 => /\ ctx[p].chain[i - 1].block = ctx[q].chain[i - 1].block
               /\ ctx[p].chain[i - 1].members = ctx[q].chain[i - 1].members
  BY <1>2 DEF IInv, ChainsAgree
<1> QED
  BY <1>3 DEF MembersBefore, BlockBefore

\* The appended block is executed, sealed by the members of its height, built
\* on the tip, and the one any longer chain holds.
LEMMA CommittedBlock ==
    ASSUME FaultBound, IInv, TypeOK', NEW n \in Honest, Committing(n)
    PROVE  LET i == Height(ctx[n]) + 1
               e == ctx'[n].chain[i]
           IN  /\ DOMAIN ctx'[n].chain = 1 .. i /\ DOMAIN ctx[n].chain = 1 .. i - 1
               /\ e.members = ctx[n].members /\ e.members = MembersBefore(ctx[n], i)
               /\ ctx'[n].members = After(e.members, e.block)
               /\ SealHolders(e.block) \in Supermajorities[e.members][StakingActiveFor(i)]
               /\ e.block.number = i /\ e.block.parent = BlockBefore(ctx[n], i)
               /\ e.block \in Valid
               /\ \A q \in Honest : i \in DOMAIN ctx[q].chain =>
                     ctx[q].chain[i].block = e.block /\ ctx[q].chain[i].members = e.members
<1> DEFINE c == ctx[n]
           i == Height(ctx[n]) + 1
           g == ctx[n].members
           weighted == StakingActiveFor(i)
<1>1. PICK b \in Block, seals \in Votes :
        /\ ctx'[n].chain = Append(c.chain, [block |-> b, seals |-> seals, members |-> g])
        /\ ctx'[n].members = After(g, b)
        /\ b.number = i
        /\ AllBacked("commit", seals)
        /\ IsSupermajority(c, Voters(seals, b))
  BY DEF Committing
<1>2. c.chain \in Seq(Entry) /\ g \in Membership /\ i \in Nat \ {0}
  BY OwnContext, HeightIsNat DEF Context
<1>3. /\ DOMAIN ctx'[n].chain = 1 .. i /\ DOMAIN c.chain = 1 .. i - 1
      /\ ctx'[n].chain[i] = [block |-> b, seals |-> seals, members |-> g]
  BY <1>1, <1>2 DEF Height
<1>4. g = MembersBefore(c, i)
  BY DEF IInv, CertifiedChain
<1>5. weighted \in BOOLEAN
  BY DEF StakingActiveFor
<1>6. SealHolders(b) \in Supermajorities[g][weighted]
  <2>1. Voters(seals, b) \in Supermajorities[g][weighted]
    BY <1>1 DEF IsSupermajority, StakingActiveNow
  <2>2. SealHolders(b) \subseteq Validator
    BY SealHoldersTyped DEF IInv
  <2>3. SealHolders(b) \cap Validator \in Supermajorities[g][weighted]
    BY <1>1, <1>2, <1>5, <2>1, SealedByQuorum
  <2>4. SealHolders(b) \cap Validator = SealHolders(b)
    BY <2>2
  <2> QED
    BY <2>3, <2>4
<1>7. PICK v \in Steady : v \in SealHolders(b)
  BY <1>2, <1>5, <1>6, QuorumsMeet
<1>8. PICK m \in msgs : m.type = "commit" /\ m.sender = v /\ m.block = b
  BY <1>7, SteadySealer
<1>9. b \in Valid
  BY <1>8 DEF IInv, VotesAreExecuted
<1>10. b.parent = BlockBefore(c, i)
  <2>1. v \in Honest
    BY DEF Steady, Honest
  <2>2. i <= Height(ctx[v]) + 1 /\ b.parent = BlockBefore(ctx[v], i)
    BY <1>1, <1>8, <2>1 DEF IInv, SealsExtendTheSignersChain
  <2>3. i <= Height(c) + 1
    BY <1>2
  <2> QED
    BY <1>2, <2>1, <2>2, <2>3, MembershipsAgree
<1>11. ASSUME NEW q \in Honest, i \in DOMAIN ctx[q].chain
       PROVE  ctx[q].chain[i].block = b /\ ctx[q].chain[i].members = g
  <2> DEFINE f == ctx[q].chain[i]
  <2>1. /\ f.members \in Membership /\ f.members = MembersBefore(ctx[q], i)
        /\ SealHolders(f.block) \in Supermajorities[f.members][weighted]
        /\ f.block.number = i
    BY <1>11, EntryIsCertified
  <2>2. i <= Height(ctx[q]) + 1
    <3>1. ctx[q].chain \in Seq(Entry)
      BY OwnContext DEF Context
    <3> QED
      BY <1>2, <1>11, <3>1 DEF Height
  <2>3. i <= Height(c) + 1
    BY <1>2
  <2>4. f.members = g
    BY <1>2, <1>4, <2>1, <2>2, <2>3, MembershipsAgree
  <2> HIDE DEF f, weighted
  <2>5. f.block = b
    BY <1>1, <1>2, <1>5, <1>6, <2>1, <2>4, SealedBlocksAgree
  <2> QED
    BY <2>4, <2>5 DEF f
<1> DEFINE e == ctx'[n].chain[i]
<1>12. e.block = b /\ e.members = g
  BY <1>3
<1>13. /\ DOMAIN ctx'[n].chain = 1 .. i /\ DOMAIN c.chain = 1 .. i - 1
       /\ e.members = g /\ e.members = MembersBefore(c, i)
       /\ ctx'[n].members = After(e.members, e.block)
       /\ SealHolders(e.block) \in Supermajorities[e.members][weighted]
       /\ e.block.number = i /\ e.block.parent = BlockBefore(c, i)
       /\ e.block \in Valid
  BY <1>1, <1>3, <1>4, <1>6, <1>9, <1>10, <1>12
<1>14. \A q \in Honest : i \in DOMAIN ctx[q].chain =>
         ctx[q].chain[i].block = e.block /\ ctx[q].chain[i].members = e.members
  BY <1>11, <1>12
<1> QED
  BY <1>13, <1>14

\* An entry that was there before the step stays certified, linked and in place.
LEMMA OldEntry ==
    ASSUME IInv, TypeOK', NEW n \in Honest, Kind(n), NEW k \in Honest,
           NEW i \in DOMAIN ctx[k].chain
    PROVE  LET e == ctx'[k].chain[i]
           IN  /\ e = ctx[k].chain[i]
               /\ e.members = MembersBefore(ctx'[k], i)
               /\ NextSealHolders(e.block) \in Supermajorities[e.members][StakingActiveFor(i)]
               /\ e.block.number = i /\ e.block.parent = BlockBefore(ctx'[k], i)
<1> DEFINE e == ctx[k].chain[i]
<1>1. TypeOK /\ msgs \subseteq msgs' /\ ctx[k].chain \in Seq(Entry)
  BY OwnContext DEF IInv, Kind, Context
<1>2. i \in Nat \ {0} /\ i <= Height(ctx[k]) + 1
  BY <1>1 DEF Height
<1>3. ctx'[k].chain[i] = e
  BY <1>1, ChainGrows
<1>4. /\ e.members \in Membership /\ e.members = MembersBefore(ctx[k], i)
      /\ SealHolders(e.block) \in Supermajorities[e.members][StakingActiveFor(i)]
      /\ e.block.number = i
  BY EntryIsCertified
<1>5. e.block.parent = BlockBefore(ctx[k], i)
  BY DEF IInv, ChainsAreLinked
<1>6. /\ MembersBefore(ctx'[k], i) = MembersBefore(ctx[k], i)
      /\ BlockBefore(ctx'[k], i) = BlockBefore(ctx[k], i)
  BY <1>1, <1>2, BlockBeforeStays
<1>7. StakingActiveFor(i) \in BOOLEAN
  BY DEF StakingActiveFor
<1> HIDE DEF e
<1>8. \A b : SealHolders(b) \in Supermajorities[e.members][StakingActiveFor(i)] =>
             NextSealHolders(b) \in Supermajorities[e.members][StakingActiveFor(i)]
  BY <1>1, <1>4, <1>7, SealHoldersGrow
<1>9. e = ctx[k].chain[i]
  BY DEF e
<1> QED
  BY <1>3, <1>4, <1>5, <1>6, <1>8, <1>9

\* The entry a committing step appends.
LEMMA NewEntry ==
    ASSUME FaultBound, IInv, TypeOK', NEW n \in Honest, Kind(n), Committing(n)
    PROVE  LET i == Height(ctx[n]) + 1
               e == ctx'[n].chain[i]
           IN  /\ e.members = MembersBefore(ctx'[n], i)
               /\ NextSealHolders(e.block) \in Supermajorities[e.members][StakingActiveFor(i)]
               /\ e.block.number = i /\ e.block.parent = BlockBefore(ctx'[n], i)
<1> DEFINE i == Height(ctx[n]) + 1
           e == ctx'[n].chain[i]
<1>1. TypeOK /\ msgs' = msgs
  BY DEF IInv, Committing
<1>2. i \in Nat \ {0} /\ i <= Height(ctx[n]) + 1
  BY OwnContext, HeightIsNat
<1>3. /\ MembersBefore(ctx'[n], i) = MembersBefore(ctx[n], i)
      /\ BlockBefore(ctx'[n], i) = BlockBefore(ctx[n], i)
  BY <1>1, <1>2, BlockBeforeStays
<1>4. /\ e.members = MembersBefore(ctx[n], i)
      /\ SealHolders(e.block) \in Supermajorities[e.members][StakingActiveFor(i)]
      /\ e.block.number = i /\ e.block.parent = BlockBefore(ctx[n], i)
  BY CommittedBlock
<1>5. \A b : NextSealHolders(b) = SealHolders(b)
  BY <1>1 DEF SealHolders, NextSealHolders
<1> QED
  BY <1>3, <1>4, <1>5

\* Every entry after a step is an old one or the appended one.
LEMMA EntriesAfter ==
    ASSUME FaultBound, IInv, TypeOK', NEW n \in Honest, Kind(n), NEW k \in Honest,
           NEW i \in DOMAIN ctx'[k].chain
    PROVE  \/ i \in DOMAIN ctx[k].chain
           \/ k = n /\ Committing(n) /\ i = Height(ctx[n]) + 1
<1>1. CASE k # n \/ Quiet(n) \/ Sealing(n)
  <2>1. ctx'[k].chain = ctx[k].chain
    BY <1>1, OwnContext DEF Kind, OnlyBy, Quiet, Sealing
  <2> QED
    BY <2>1
<1>2. CASE k = n /\ Committing(n)
  <2> DEFINE h == Height(ctx[n]) + 1
  <2>1. DOMAIN ctx'[n].chain = 1 .. h /\ DOMAIN ctx[n].chain = 1 .. h - 1
    BY <1>2, CommittedBlock
  <2>2. h \in Nat
    BY OwnContext, HeightIsNat
  <2> HIDE DEF h
  <2>3. i \in DOMAIN ctx[k].chain \/ i = h
    BY <1>2, <2>1, <2>2
  <2> QED
    BY <1>2, <2>3 DEF h
<1> QED
  BY <1>1, <1>2 DEF Kind

\* A step keeps chains numbered and linked.
LEMMA ChainsStayLinked ==
    ASSUME FaultBound, IInv, TypeOK', NEW n \in Honest, Kind(n)
    PROVE  ChainsAreLinked'
<1> SUFFICES ASSUME NEW k \in Honest, NEW i \in DOMAIN ctx'[k].chain
             PROVE  /\ ctx'[k].chain[i].block.number = i
                    /\ ctx'[k].chain[i].block.parent = BlockBefore(ctx'[k], i)
  BY DEF ChainsAreLinked
<1>1. CASE i \in DOMAIN ctx[k].chain
  BY <1>1, OldEntry
<1>2. CASE k = n /\ Committing(n) /\ i = Height(ctx[n]) + 1
  BY <1>2, NewEntry
<1> QED
  BY <1>1, <1>2, EntriesAfter

\* A step keeps every entry sealed by the membership its predecessors lead to.
LEMMA ChainsStayCertified ==
    ASSUME FaultBound, IInv, TypeOK', NEW n \in Honest, Kind(n)
    PROVE  CertifiedChain'
<1>1. ASSUME NEW k \in Honest, NEW i \in DOMAIN ctx'[k].chain
      PROVE  /\ ctx'[k].chain[i].members = MembersBefore(ctx'[k], i)
             /\ NextSealHolders(ctx'[k].chain[i].block)
                   \in Supermajorities[ctx'[k].chain[i].members][StakingActiveFor(i)]
  <2>1. CASE i \in DOMAIN ctx[k].chain
    BY <2>1, OldEntry
  <2>2. CASE k = n /\ Committing(n) /\ i = Height(ctx[n]) + 1
    BY <2>2, NewEntry
  <2> QED
    BY <1>1, <2>1, <2>2, EntriesAfter
<1>2. ASSUME NEW k \in Honest
      PROVE  ctx'[k].members = MembersBefore(ctx'[k], Height(ctx'[k]) + 1)
  <2>1. /\ ctx[k].members = MembersBefore(ctx[k], Height(ctx[k]) + 1)
        /\ Height(ctx[k]) \in Nat
    BY OwnContext, HeightIsNat DEF IInv, CertifiedChain
  <2>2. CASE ctx'[k].chain = ctx[k].chain /\ ctx'[k].members = ctx[k].members
    BY <2>1, <2>2 DEF MembersBefore, Height
  <2>3. CASE k = n /\ Committing(n)
    <3> DEFINE i == Height(ctx[n]) + 1
    <3>1. /\ DOMAIN ctx'[n].chain = 1 .. i
          /\ ctx'[n].members = After(ctx'[n].chain[i].members, ctx'[n].chain[i].block)
      BY <2>3, CommittedBlock
    <3>2. ctx'[n].chain \in Seq(Entry)
      BY OwnContext DEF TypeOK, Context
    <3>3. Height(ctx'[n]) = i
      BY <2>1, <2>3, <3>1, <3>2 DEF Height
    <3>4. i \in Nat \ {0}
      BY <2>1, <2>3
    <3> HIDE DEF i
    <3>5. MembersBefore(ctx'[n], i + 1) = After(ctx'[n].chain[i].members, ctx'[n].chain[i].block)
      <4>1. i + 1 # 1 /\ i + 1 - 1 = i
        BY <3>4
      <4> QED
        BY <3>4, <4>1 DEF MembersBefore
    <3> QED
      BY <2>3, <3>1, <3>3, <3>5
  <2> QED
    BY <2>2, <2>3, OwnContext DEF Kind, OnlyBy, Quiet, Sealing
<1> QED
  BY <1>1, <1>2 DEF CertifiedChain, SealHolders, NextSealHolders

\* A step keeps the chains of any two nodes in agreement.
LEMMA ChainsStillAgree ==
    ASSUME FaultBound, IInv, TypeOK', NEW n \in Honest, Kind(n)
    PROVE  ChainsAgree'
<1> DEFINE Same(p, q, i) == /\ ctx'[p].chain[i].block = ctx'[q].chain[i].block
                            /\ ctx'[p].chain[i].members = ctx'[q].chain[i].members
           new == Height(ctx[n]) + 1
<1> SUFFICES ASSUME NEW p \in Honest, NEW q \in Honest,
                    NEW i \in DOMAIN ctx'[p].chain \cap DOMAIN ctx'[q].chain
             PROVE  Same(p, q, i)
  BY DEF ChainsAgree
<1>1. TypeOK
  BY DEF IInv
<1>2. CASE i \in DOMAIN ctx[p].chain /\ i \in DOMAIN ctx[q].chain
  BY <1>1, <1>2, ChainGrows DEF IInv, ChainsAgree
<1>3. CASE p = n /\ Committing(n) /\ i = new
  <2>1. CASE i \in DOMAIN ctx[q].chain
    <3>1. ctx'[q].chain[i] = ctx[q].chain[i]
      BY <1>1, <2>1, ChainGrows
    <3> QED
      BY <1>3, <2>1, <3>1, CommittedBlock
  <2>2. CASE q = n
    BY <1>3, <2>2
  <2> QED
    BY <2>1, <2>2, EntriesAfter
<1>4. CASE q = n /\ Committing(n) /\ i = new
  <2>1. CASE i \in DOMAIN ctx[p].chain
    <3>1. ctx'[p].chain[i] = ctx[p].chain[i]
      BY <1>1, <2>1, ChainGrows
    <3> QED
      BY <1>4, <2>1, <3>1, CommittedBlock
  <2>2. CASE p = n
    BY <1>4, <2>2
  <2> QED
    BY <2>1, <2>2, EntriesAfter
<1> QED
  BY <1>2, <1>3, <1>4, EntriesAfter

-----------------------------------------------------------------------------
(* The invariant holds *)

\* The invariant holds at genesis.
LEMMA InitInvariant ==
    ASSUME Init
    PROVE  IInv
<1>1. TypeOK
  BY InitTyped
<1>2. /\ msgs = {}
      /\ \A n \in Validator : /\ ctx[n].chain = <<>> /\ ctx[n].members = InitMembership
                              /\ ctx[n].proposal = None
                              /\ ctx[n].prepared = NoVotes /\ ctx[n].committed = NoVotes
  BY DEF Init, NewContext
<1>3. \A n \in Honest : n \in Validator /\ DOMAIN ctx[n].chain = {} /\ Height(ctx[n]) = 0
  BY <1>2 DEF Honest, Height
<1>4. VotesAreBacked /\ ProposalsFit
  BY <1>2, <1>3, NoVotesBacked DEF VotesAreBacked, ProposalsFit, ProposalFits
<1>5. CommitOnce /\ SealBindsLock /\ SealsExtendTheSignersChain /\ VotesAreExecuted
  BY <1>2 DEF CommitOnce, SealBindsLock, SealsExtendTheSignersChain, VotesAreExecuted
<1>6. CertifiedChain /\ ChainsAreLinked /\ ChainsAgree
  BY <1>2, <1>3 DEF CertifiedChain, ChainsAreLinked, ChainsAgree, MembersBefore
<1> QED
  BY <1>1, <1>4, <1>5, <1>6 DEF IInv

\* Every step preserves the invariant.
LEMMA NextInvariant ==
    ASSUME FaultBound, IInv, [Next]_vars
    PROVE  IInv'
<1>1. TypeOK'
  BY NextTyped DEF IInv
<1>2. CASE UNCHANGED vars
  <2>1. ctx' = ctx /\ msgs' = msgs
    BY <1>2 DEF vars
  <2>2. VotesAreBacked'
    BY <2>1 DEF IInv, VotesAreBacked, AllBacked, Backed
  <2>3. ProposalsFit' /\ VotesAreExecuted'
    BY <2>1 DEF IInv, ProposalsFit, VotesAreExecuted
  <2>4. CommitOnce' /\ SealBindsLock' /\ SealsExtendTheSignersChain'
    BY <2>1 DEF IInv, CommitOnce, SealBindsLock, SealsExtendTheSignersChain
  <2>5. CertifiedChain'
    BY <2>1 DEF IInv, CertifiedChain, SealHolders
  <2>6. ChainsAreLinked' /\ ChainsAgree'
    BY <2>1 DEF IInv, ChainsAreLinked, ChainsAgree
  <2> QED
    BY <1>1, <2>2, <2>3, <2>4, <2>5, <2>6 DEF IInv
<1>3. ASSUME NEW n \in Honest, Kind(n)
      PROVE  IInv'
  BY <1>1, <1>3, VotesStayBacked, ProposalsStillFit, VotesStayExecuted, StillCommitOnce,
     SealsStillBindTheLock, SealsStillExtendTheSignersChain, ChainsStayCertified,
     ChainsStayLinked, ChainsStillAgree
     DEF IInv
<1> QED
  BY <1>2, <1>3, StepKinds DEF Next

\* The invariant holds in every reachable state, provided the fault bound does.
THEOREM Invariance == ASSUME FaultBound PROVE Spec => []IInv
<1>1. Init => IInv
  BY InitInvariant
<1>2. IInv /\ [Next]_vars => IInv'
  BY NextInvariant
<1> QED
  BY <1>1, <1>2, PTL DEF Spec

-----------------------------------------------------------------------------
(* What follows from it *)

\* No two nodes commit different blocks at one height.
THEOREM AgreementHolds == ASSUME FaultBound PROVE Spec => []Agreement
<1>1. IInv => Agreement
  BY DEF IInv, ChainsAgree, Agreement
<1> QED
  BY <1>1, Invariance, PTL

\* A steady node seals one block per height, over all its rounds.
THEOREM SealsHold == ASSUME FaultBound PROVE Spec => []CommitOnce
<1>1. IInv => CommitOnce
  BY DEF IInv
<1> QED
  BY <1>1, Invariance, PTL

\* A steady node stays locked on the block it has sealed until its height is over.
THEOREM SealsBind == ASSUME FaultBound PROVE Spec => []SealBindsLock
<1>1. IInv => SealBindsLock
  BY DEF IInv
<1> QED
  BY <1>1, Invariance, PTL

\* Each committed block carries the seals of a supermajority of the membership
\* and stakes the blocks before it lead to.
THEOREM CertificationHolds == ASSUME FaultBound PROVE Spec => []CertifiedChain
<1>1. IInv => CertifiedChain
  BY DEF IInv
<1> QED
  BY <1>1, Invariance, PTL

\* Only blocks the VM has confirmed are committed.
THEOREM ExecutedHolds == ASSUME FaultBound PROVE Spec => []OnlyExecuted
<1>1. ASSUME IInv, NEW n \in Honest, NEW i \in DOMAIN ctx[n].chain
      PROVE  ctx[n].chain[i].block \in Valid
  <2> DEFINE e == ctx[n].chain[i]
  <2>1. /\ e.members \in Membership
        /\ SealHolders(e.block) \in Supermajorities[e.members][StakingActiveFor(i)]
    BY <1>1, EntryIsCertified
  <2>2. StakingActiveFor(i) \in BOOLEAN
    BY DEF StakingActiveFor
  <2> HIDE DEF e
  <2>3. PICK v \in Steady : v \in SealHolders(e.block)
    BY <2>1, <2>2, QuorumsMeet
  <2>4. PICK m \in msgs : m.type = "commit" /\ m.block = e.block
    BY <2>3, SteadySealer
  <2> QED
    BY <1>1, <2>4 DEF IInv, VotesAreExecuted, e
<1>2. IInv => OnlyExecuted
  BY <1>1 DEF OnlyExecuted
<1> QED
  BY <1>2, Invariance, PTL

-----------------------------------------------------------------------------
(* The engine implements the ledger *)

\* The chains of the ledger are the blocks of the nodes' chains.
LEMMA ChainsTyped ==
    ASSUME TypeOK, NEW n \in Honest
    PROVE  /\ Chains[n] \in Seq(Block) /\ Len(Chains[n]) = Height(ctx[n])
           /\ Height(ctx[n]) \in Nat /\ DOMAIN ctx[n].chain = 1 .. Height(ctx[n])
           /\ \A i \in 1 .. Height(ctx[n]) : Chains[n][i] = ctx[n].chain[i].block
<1>1. ctx[n].chain \in Seq(Entry)
  BY DEF TypeOK, Context, Honest
<1>2. /\ Height(ctx[n]) \in Nat /\ DOMAIN ctx[n].chain = 1 .. Height(ctx[n])
      /\ Height(ctx[n]) = Len(ctx[n].chain)
  BY <1>1 DEF Height
<1>3. \A i \in 1 .. Height(ctx[n]) : ctx[n].chain[i].block \in Block
  <2>1. \A i \in 1 .. Height(ctx[n]) : ctx[n].chain[i] \in Entry
    BY <1>1, <1>2
  <2> QED
    BY <2>1 DEF Entry
<1>4. Chains[n] = [i \in 1 .. Height(ctx[n]) |-> ctx[n].chain[i].block]
  BY DEF Chains
<1> QED
  BY <1>2, <1>3, <1>4

\* A step that commits nothing changes no chain.
LEMMA OtherStepsStutter ==
    ASSUME NEW n \in Honest, Kind(n), Quiet(n) \/ Sealing(n)
    PROVE  Chains' = Chains
<1>1. \A k \in Honest : ctx'[k].chain = ctx[k].chain
  BY DEF Kind, OnlyBy, Quiet, Sealing, Honest
<1> QED
  BY <1>1 DEF Chains, Height

\* A committing step decides or learns.
LEMMA CommitIsDecideOrLearn ==
    ASSUME FaultBound, IInv, TypeOK', NEW n \in Honest, Kind(n), Committing(n)
    PROVE  L!Decide(n) \/ L!Learn(n)
<1> DEFINE h == Height(ctx[n])
           b == ctx'[n].chain[h + 1].block
<1>1. TypeOK
  BY DEF IInv
<1>2. /\ DOMAIN ctx'[n].chain = 1 .. h + 1 /\ h \in Nat
      /\ b \in Valid /\ b.parent = BlockBefore(ctx[n], h + 1)
      /\ \A q \in Honest : h + 1 \in DOMAIN ctx[q].chain => ctx[q].chain[h + 1].block = b
  BY <1>1, CommittedBlock, ChainsTyped
<1>3. Chains' = [Chains EXCEPT ![n] = Append(@, b)]
  <2>1. \A k \in Honest \ {n} : Chains'[k] = Chains[k]
    BY <1>1, ChainGrows DEF Chains
  <2>2. Chains'[n] = Append(Chains[n], b)
    <3>1. Height(ctx'[n]) = h + 1
      <4>1. ctx'[n].chain \in Seq(Entry)
        BY DEF TypeOK, Context, Honest
      <4> QED
        BY <1>2, <4>1 DEF Height
    <3>2. Chains'[n] = [i \in 1 .. h + 1 |-> ctx'[n].chain[i].block]
      BY <3>1 DEF Chains
    <3>3. \A i \in 1 .. h : ctx'[n].chain[i].block = Chains[n][i]
      BY <1>1, ChainGrows, ChainsTyped
    <3>4. Chains[n] \in Seq(Block) /\ Len(Chains[n]) = h
      BY <1>1, ChainsTyped
    <3> HIDE DEF h
    <3>5. b = ctx'[n].chain[h + 1].block
      BY DEF b
    <3> HIDE DEF b
    <3> QED
      BY <1>2, <3>2, <3>3, <3>4, <3>5
  <2> QED
    BY <2>1, <2>2 DEF Chains
<1>4. CASE L!Longest(n)
  <2>1. b.parent = L!Last(Chains[n])
    <3>1. Chains[n] \in Seq(Block) /\ Len(Chains[n]) = h
      BY <1>1, ChainsTyped
    <3>2. CASE h = 0
      BY <1>2, <3>1, <3>2 DEF BlockBefore, L!Last
    <3>3. CASE h # 0
      <4>1. Chains[n] # <<>> /\ Chains[n][h] = ctx[n].chain[h].block
        BY <1>1, <1>2, <3>1, <3>3, ChainsTyped
      <4>2. BlockBefore(ctx[n], h + 1) = ctx[n].chain[h].block
        BY <1>2, <3>3 DEF BlockBefore
      <4> QED
        BY <1>2, <3>1, <4>1, <4>2 DEF L!Last
    <3> QED
      BY <3>2, <3>3
  <2> QED
    BY <1>2, <1>3, <1>4, <2>1 DEF L!Decide
<1>5. CASE ~ L!Longest(n)
  <2>1. PICK q \in Honest : ~ (Len(Chains[q]) <= Len(Chains[n]))
    BY <1>5 DEF L!Longest
  <2>2. /\ Len(Chains[n]) = h /\ Len(Chains[q]) = Height(ctx[q]) /\ Height(ctx[q]) \in Nat
        /\ DOMAIN ctx[q].chain = 1 .. Height(ctx[q])
        /\ \A i \in 1 .. Height(ctx[q]) : Chains[q][i] = ctx[q].chain[i].block
    BY <1>1, ChainsTyped
  <2> HIDE DEF h
  <2>3. h + 1 \in 1 .. Height(ctx[q])
    BY <1>2, <2>1, <2>2
  <2>4. Chains[q][h + 1] = b
    BY <1>2, <2>2, <2>3 DEF h
  <2>5. Len(Chains[q]) > Len(Chains[n])
    BY <1>2, <2>1, <2>2
  <2> QED
    BY <1>3, <2>2, <2>4, <2>5 DEF L!Learn
<1> QED
  BY <1>4, <1>5

\* Every behaviour of the engine is, seen through the committed chains, a
\* behaviour of the ledger: commits extend the longest chain by an executed
\* block on its tip or repeat what the longest holds, and nothing else shows.
THEOREM Refinement == ASSUME FaultBound PROVE Spec => ImplementsLedger
<1>1. Init => L!Init
  BY DEF Init, NewContext, L!Init, Chains, Height, Honest
<1>2. IInv /\ TypeOK' /\ [Next]_vars => [L!Next]_Chains
  <2> SUFFICES ASSUME IInv, TypeOK', [Next]_vars
               PROVE  [L!Next]_Chains
    OBVIOUS
  <2>1. CASE UNCHANGED vars
    BY <2>1 DEF vars, Chains, Height
  <2>2. ASSUME NEW n \in Honest, Kind(n)
        PROVE  [L!Next]_Chains
    <3>1. Quiet(n) \/ Sealing(n) => Chains' = Chains
      BY <2>2, OtherStepsStutter
    <3>2. Committing(n) => L!Decide(n) \/ L!Learn(n)
      BY <2>2, CommitIsDecideOrLearn
    <3> QED
      BY <2>2, <3>1, <3>2 DEF Kind, L!Next
  <2> QED
    BY <2>1, <2>2, StepKinds DEF Next
<1>3. Spec => []IInv
  BY Invariance
<1>4. IInv => TypeOK
  BY DEF IInv
<1> QED
  BY <1>1, <1>2, <1>3, <1>4, PTL DEF Spec, ImplementsLedger, L!Spec
=============================================================================
