------------------------- MODULE BlockstanbulInvariant -------------------------
(***************************************************************************)
(* The inductive invariant behind the safety of the Blockstanbul engine.   *)
(* The first parts say what a node may rely on about its own context, the  *)
(* others how the contexts of different nodes hang together.               *)
(***************************************************************************)
EXTENDS BlockstanbulSafety

\* Somebody's vote for a block: said under its name by a faulty member, or sent.
Backed(type, v, b) ==
    \/ v \in Faulty
    \/ \E m \in msgs : m.type = type /\ m.sender = v /\ m.block = b

AllBacked(type, votes) == \A v \in Validator : votes[v] # None => Backed(type, v, votes[v])

\* Votes a node has counted, and seals it has stored, were really cast.
VotesAreBacked ==
    \A n \in Honest :
        /\ AllBacked("prepare", ctx[n].prepared)
        /\ AllBacked("commit", ctx[n].committed)
        /\ \A i \in DOMAIN ctx[n].chain : AllBacked("commit", ctx[n].chain[i].seals)

\* A proposal under consideration extends the chain and respects the lock.
ProposalFits(c) ==
    c.proposal # None => ExtendsChain(c, c.proposal) /\ c.lock \in {None, c.proposal}

ProposalsFit == \A n \in Honest : ProposalFits(ctx[n])

\* Only executed blocks are prepared, and so only executed blocks are sealed.
VotesAreExecuted == \A m \in msgs : m.type \in {"prepare", "commit"} => m.block \in Valid

\* The block a chain holds before position i.
BlockBefore(c, i) == IF i = 1 THEN Genesis ELSE c.chain[i - 1].block

\* A seal is for a block that extends the signer's own chain at its position.
SealsExtendTheSignersChain ==
    \A m \in msgs : m.type = "commit" /\ m.sender \in Honest =>
        /\ m.block.number <= Height(ctx[m.sender]) + 1
        /\ m.block.parent = BlockBefore(ctx[m.sender], m.block.number)

\* Chains are numbered, and each block points at the one before it.
ChainsAreLinked ==
    \A n \in Honest : \A i \in DOMAIN ctx[n].chain :
        /\ ctx[n].chain[i].block.number = i
        /\ ctx[n].chain[i].block.parent = BlockBefore(ctx[n], i)

\* Nodes agree on the blocks and on the membership that decided them.
ChainsAgree ==
    \A p, q \in Honest : \A i \in DOMAIN ctx[p].chain \cap DOMAIN ctx[q].chain :
        /\ ctx[p].chain[i].block = ctx[q].chain[i].block
        /\ ctx[p].chain[i].members = ctx[q].chain[i].members

IInv ==
    /\ TypeOK
    /\ VotesAreBacked /\ ProposalsFit /\ VotesAreExecuted
    /\ CommitOnce /\ SealBindsLock /\ SealsExtendTheSignersChain
    /\ CertifiedChain /\ ChainsAreLinked /\ ChainsAgree

-----------------------------------------------------------------------------
(* What the properties about views and rounds rest on.  None of it needs the *)
(* bound on the faulty weight.                                               *)

\* Somebody's vote for round r, cast no later than at the height given.
AskedFor(v, r, height) ==
    \/ v \in Faulty
    \/ \E m \in msgs : m.type = "roundchange" /\ m.sender = v /\ m.round = r /\ m.height <= height

\* Votes for rounds a node counts were cast, at this height or an earlier one.
RoundVotesAreBacked ==
    \A n \in Honest : \A r \in 1 .. MaxRound : \A v \in ctx[n].roundChanged[r] :
        AskedFor(v, r, Height(ctx[n]))

\* Whatever a node may propose extends its chain.
WorkFits(c) ==
    /\ \A b \in {c.proposal, c.lock} \ {None} : ExtendsChain(c, b)
    /\ HasCandidate(c) => ExtendsChain(c, c.myBlock)

\* Of the messages a node loops back only the last can still change anything:
\* the others are votes for rounds it has already reached.
OnlyLastIsLive ==
    \A n \in Honest : \A i \in 1 .. Len(loop[n]) - 1 :
        loop[n][i].type = "roundchange" /\ loop[n][i].round <= ctx[n].round

\* A proposal of n that n will accept when its loopback comes to it.
Returning(n, m) ==
    /\ loop[n] # <<>> /\ loop[n][Len(loop[n])] = m /\ m.sender = n
    /\ FromProposer(ctx[n], m) /\ Acceptable(ctx[n], m)

\* What a node has proposed: nothing beyond its view; and in its view, what it
\* has proposed keeps it from proposing anything else.
ProposalBinds(n, m) ==
    LET c == ctx[n] IN
    /\ m.height < Height(c) \/ (m.height = Height(c) /\ m.round <= c.round)
    /\ m.block.number = m.height + 1
    /\ m.block.parent = BlockBefore(c, m.height + 1)
    /\ SameView(c, m) /\ CanBeAccepted(m)
         => c.proposal # None \/ c.lock = m.block \/ Returning(n, m)

ProposalsBind ==
    \A m \in msgs : m.type = "preprepare" /\ m.sender \in Steady \ Operated
                      => ProposalBinds(m.sender, m)

ViewInv ==
    /\ TypeOK
    /\ RoundVotesAreBacked /\ OnlyLastIsLive /\ ProposalsBind /\ OneProposalPerView
    /\ \A n \in Honest : WorkFits(ctx[n])
=============================================================================
