-------------------------- MODULE BlockstanbulSafety --------------------------
(***************************************************************************)
(* What the Blockstanbul engine must never do.  Liveness is stated in      *)
(* BlockstanbulLiveness, the proofs are in BlockstanbulProofs.             *)
(***************************************************************************)
EXTENDS Blockstanbul

\* Members that follow the protocol and keep their memory.
Steady == Validator \ (Faulty \cup Crashing)

\* Every variable keeps its type: in particular no round number escapes Round
\* and whatever waits to be looped back has been sent.
TypeOK ==
    /\ ctx  \in [Validator -> Context]
    /\ msgs \subseteq Message
    /\ loop \in [Validator -> Seq(msgs)]
    /\ vm   \in [Validator -> SUBSET Block]

\* Two nodes never commit different blocks at one height, whatever rounds they
\* commit in, whether they commit by votes or by sync, and whichever blocks
\* the VM answers for late.
Agreement ==
    \A p, q \in Honest : \A i \in DOMAIN ctx[p].chain \cap DOMAIN ctx[q].chain :
        ctx[p].chain[i].block = ctx[q].chain[i].block

\* Nobody seals two blocks of one height, over all rounds: the lock a node
\* takes with its first COMMIT is kept through every later round.
CommitOnce ==
    \A m1, m2 \in msgs :
        /\ m1.type = "commit" /\ m2.type = "commit"
        /\ m1.sender = m2.sender /\ m1.sender \in Steady
        /\ m1.block.number = m2.block.number
        => m1.block = m2.block

\* A seal binds its signer until the height is over: whoever has sent COMMIT
\* for a block of the height it is deciding is still locked on that block.
SealBindsLock ==
    \A m \in msgs :
        m.type = "commit" /\ m.sender \in Steady
           /\ m.block.number = Height(ctx[m.sender]) + 1
        => ctx[m.sender].lock = m.block

\* Only blocks the VM has confirmed are committed: votes for a proposal are
\* cast before anyone knows the others' answers, and answers arrive late.
OnlyExecuted ==
    \A n \in Honest : \A i \in DOMAIN ctx[n].chain : ctx[n].chain[i].block \in Valid

\* Each committed block was sealed by a supermajority of the membership the
\* blocks before it lead to, at the stakes they lead to, and the membership a
\* node counts votes by now is the one its last block leads to.
MembersBefore(c, i) ==
    IF i = 1 THEN InitMembership ELSE After(c.chain[i - 1].members, c.chain[i - 1].block)

CertifiedChain ==
    \A n \in Honest :
        /\ \A i \in DOMAIN ctx[n].chain :
             LET e == ctx[n].chain[i]
             IN  /\ e.members = MembersBefore(ctx[n], i)
                 /\ SealHolders(e.block) \in Supermajorities[e.members][StakingActiveFor(i)]
        /\ ctx[n].members = MembersBefore(ctx[n], Height(ctx[n]) + 1)

\* Once staking is active a header may not name an earlier round than its
\* parent's: a node that has synced past the round it is in proposes blocks
\* everybody refuses, itself included, until its round has caught up.
CanBeAccepted(m) ==
    StakingActiveFor(m.block.number) /\ m.block.parent # Genesis => m.block.parent.round <= m.round

\* In a view a node proposes one block that the others may accept, through
\* timeouts, locks, candidates rebuilt by the VM and proposals looped back;
\* operators who force the round they are in, and restarts, are the exceptions.
OneProposalPerView ==
    \A m1, m2 \in msgs :
        /\ m1.type = "preprepare" /\ m2.type = "preprepare"
        /\ m1.sender = m2.sender /\ m1.sender \in Steady \ Operated
        /\ m1.height = m2.height /\ m1.round = m2.round
        /\ CanBeAccepted(m1)
        => m1.block = m2.block

\* A node never returns to an earlier view, unless it restarts.
ViewNeverGoesBack ==
    [][\A n \in Honest \ Crashing :
          \/ Height(ctx'[n]) > Height(ctx[n])
          \/ Height(ctx'[n]) = Height(ctx[n]) /\ ctx'[n].round >= ctx[n].round]_vars

\* Whoever leaves a round unforced does so because a supermajority asked to.
\* The round it enters may be later than the one voted on, never beyond what
\* has been asked for.  Votes may stem from earlier heights: nextRound keeps
\* those for later rounds.
Asking(c, r) ==
    {m.sender : m \in {x \in msgs : /\ x.type = "roundchange" /\ x.height <= Height(c)
                                    /\ x.round > c.round /\ x.round <= r}}

RoundsAreAskedFor ==
    [][\A n \in Honest \ (Operated \cup Crashing) :
          ctx'[n].round > ctx[n].round =>
             Asking(ctx[n], ctx'[n].round) \cup Faulty
                \in Supermajorities[ctx[n].members][StakingActiveNow(ctx[n])]]_vars

\* The engine implements the ledger: every commit either extends the longest
\* chain by an executed block on its tip or repeats what the longest holds.
Chains ==
    [n \in Honest |-> [i \in 1 .. Height(ctx[n]) |-> ctx[n].chain[i].block]]

L == INSTANCE Ledger WITH Replica <- Honest, Executable <- Valid, chain <- Chains

ImplementsLedger == L!Spec
=============================================================================
