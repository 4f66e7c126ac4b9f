------------------------- MODULE BlockstanbulViewProofs -------------------------
(***************************************************************************)
(* What the Blockstanbul engine keeps whatever part of the validators is   *)
(* faulty, for every set of validators, memberships, blocks and rounds:    *)
(* how quorums meet, its types, the order of views, the votes behind every *)
(* round, and one proposal per view.                                       *)
(*                                                                         *)
(* For views a step is of one of six kinds: it works in its view, proposes *)
(* in it, advances to a later round, decides the height, is forced by an   *)
(* operator or restarts.  ViewSteps classifies every action of Next; the   *)
(* parts of ViewInv are then shown to survive each kind.                   *)
(***************************************************************************)
EXTENDS BlockstanbulInvariant, SequenceTheorems, FiniteSetTheorems, TLAPS

-----------------------------------------------------------------------------
(* Weighted votes, for every finite validator set and every weight map *)

\* The vote units of any set of voters are finitely many.
LEMMA VoteUnitsFinite ==
    ASSUME NEW V, IsFiniteSet(V), NEW w \in [V -> Nat], NEW S
    PROVE  IsFiniteSet(VoteUnits(w, S))
<1> DEFINE D == S \cap V
           f == [v \in D |-> {v} \X (1 .. w[v])]
           T == {{v} \X (1 .. w[v]) : v \in D}
<1>1. IsFiniteSet(D)
  BY FS_Intersection
<1>2. f \in Surjection(D, T)
  BY DEF Surjection
<1>3. IsFiniteSet(T)
  BY <1>1, <1>2, FS_Surjection
<1>4. \A v \in D : IsFiniteSet({v} \X (1 .. w[v]))
  <2> TAKE v \in D
  <2>1. IsFiniteSet({v})
    BY FS_Singleton
  <2>2. IsFiniteSet(1 .. w[v])
    BY FS_Interval
  <2> QED BY <2>1, <2>2, FS_Product
<1>5. IsFiniteSet(UNION T)
  BY <1>3, <1>4, FS_UNION
<1> QED BY <1>5 DEF VoteUnits

\* Units of an intersection are the units both sides own; a smaller set of
\* voters owns no more units than a larger one.
LEMMA VoteUnitsMeet ==
    ASSUME NEW w, NEW S, NEW T
    PROVE  /\ VoteUnits(w, S \cap T) = VoteUnits(w, S) \cap VoteUnits(w, T)
           /\ VoteUnits(w, S) \subseteq VoteUnits(w, DOMAIN w)
           /\ S \subseteq T => VoteUnits(w, S) \subseteq VoteUnits(w, T)
BY DEF VoteUnits

\* A weight is a natural number.
LEMMA WeightIsNat ==
    ASSUME NEW V, IsFiniteSet(V), NEW w \in [V -> Nat], NEW S
    PROVE  WeightOf(w, S) \in Nat
BY VoteUnitsFinite, FS_CardinalityType DEF WeightOf

\* More voters never weigh less.
LEMMA WeightMonotone ==
    ASSUME NEW V, IsFiniteSet(V), NEW w \in [V -> Nat], NEW S, NEW T, S \subseteq T
    PROVE  WeightOf(w, S) <= WeightOf(w, T)
<1>1. VoteUnits(w, S) \subseteq VoteUnits(w, T)
  BY VoteUnitsMeet
<1> QED BY <1>1, VoteUnitsFinite, FS_Subset DEF WeightOf

\* Two sets of voters weigh together at most the total plus what they share.
LEMMA WeightOverlap ==
    ASSUME NEW V, IsFiniteSet(V), NEW w \in [V -> Nat], NEW S, NEW T
    PROVE  WeightOf(w, S) + WeightOf(w, T) <= TotalWeight(w) + WeightOf(w, S \cap T)
<1> DEFINE A == VoteUnits(w, S)
           B == VoteUnits(w, T)
           U == VoteUnits(w, DOMAIN w)
<1>1. /\ IsFiniteSet(A) /\ IsFiniteSet(B) /\ IsFiniteSet(U)
  BY VoteUnitsFinite
<1>2. A \cup B \subseteq U
  BY VoteUnitsMeet
<1>3. A \cap B = VoteUnits(w, S \cap T)
  BY VoteUnitsMeet
<1> HIDE DEF A, B, U
<1>4. Cardinality(A \cup B) = Cardinality(A) + Cardinality(B) - Cardinality(A \cap B)
  BY <1>1, FS_Union
<1>5. Cardinality(A \cup B) <= Cardinality(U)
  BY <1>1, <1>2, FS_Subset
<1>6. /\ Cardinality(A) \in Nat /\ Cardinality(B) \in Nat
      /\ Cardinality(U) \in Nat /\ Cardinality(A \cap B) \in Nat
  BY <1>1, FS_CardinalityType, FS_Intersection
<1>7. Cardinality(A) + Cardinality(B) <= Cardinality(U) + Cardinality(A \cap B)
  BY <1>4, <1>5, <1>6
<1> QED BY <1>7, <1>3 DEF A, B, U, WeightOf, TotalWeight

\* Quorum intersection: if the members of F weigh at most a third, any two
\* supermajorities share a voter outside F.  hasSupermajority's strict "more
\* than two thirds" is what makes this hold.
THEOREM SupermajoritiesIntersect ==
    ASSUME NEW V, IsFiniteSet(V), NEW w \in [V -> Nat], NEW F,
           3 * WeightOf(w, F) <= TotalWeight(w),
           NEW S, NEW T, HasSupermajority(w, S), HasSupermajority(w, T)
    PROVE  \E v \in V : v \in S /\ v \in T /\ v \notin F
<1>1. WeightOf(w, S) + WeightOf(w, T) <= TotalWeight(w) + WeightOf(w, S \cap T)
  BY WeightOverlap
<1>2. /\ WeightOf(w, S) \in Nat /\ WeightOf(w, T) \in Nat /\ WeightOf(w, F) \in Nat
      /\ WeightOf(w, S \cap T) \in Nat /\ WeightOf(w, S \cap T \cap V) \in Nat
      /\ TotalWeight(w) \in Nat
  BY WeightIsNat DEF TotalWeight
<1>3. 3 * WeightOf(w, S \cap T) > TotalWeight(w)
  BY <1>1, <1>2 DEF HasSupermajority
<1>4. WeightOf(w, S \cap T) = WeightOf(w, S \cap T \cap V)
  <2>1. S \cap T \cap DOMAIN w = S \cap T \cap V \cap DOMAIN w
    OBVIOUS
  <2> QED BY <2>1, Zenon DEF WeightOf, VoteUnits
<1>5. ~ (S \cap T \cap V \subseteq F)
  <2> SUFFICES ASSUME S \cap T \cap V \subseteq F PROVE FALSE
    OBVIOUS
  <2>1. WeightOf(w, S \cap T \cap V) <= WeightOf(w, F)
    BY WeightMonotone
  <2> QED BY <2>1, <1>2, <1>3, <1>4
<1> QED BY <1>5

\* A supermajority is in particular a minority: the piggy-backed round change
\* has always set pendingRound by the time the supermajority branch reads it.
LEMMA SupermajorityIsMinority ==
    ASSUME NEW V, IsFiniteSet(V), NEW w \in [V -> Nat], NEW S, HasSupermajority(w, S)
    PROVE  HasMinority(w, S)
<1>1. WeightOf(w, S) \in Nat /\ TotalWeight(w) \in Nat
  BY WeightIsNat DEF TotalWeight
<1> QED BY <1>1 DEF HasSupermajority, HasMinority

-----------------------------------------------------------------------------
USE DEF Round, MaybeBlock, Votes

-----------------------------------------------------------------------------
(* The procedures handlers share keep contexts and messages well-typed *)

\* The empty vote map is a vote map.
LEMMA NoVotesTyped == NoVotes \in Votes
BY DEF NoVotes

\* The view's sequence is a natural number.
LEMMA HeightIsNat ==
    ASSUME NEW c \in Context
    PROVE  Height(c) \in Nat
BY DEF Height, Context

\* What a node signs about a block is a consensus message.
LEMMA ViewMsgTyped ==
    ASSUME NEW c \in Context, NEW n \in Validator, NEW b \in Block,
           NEW type \in {"preprepare", "prepare", "commit"}
    PROVE  ViewMsg(type, n, c, b) \in Message
<1>1. c.round \in Round
  BY DEF Context
<1> QED
  BY <1>1, HeightIsNat DEF ViewMsg, Message, BlockMessage

\* What a node signs to ask for a round is a consensus message.
LEMMA VoteForRoundTyped ==
    ASSUME NEW c \in Context, NEW n \in Validator, NEW r \in Round
    PROVE  VoteForRound(n, c, r) \in Message
BY HeightIsNat DEF VoteForRound, Message, RoundMessage

\* roundChange leaves a context, and asks for a round within the bound if it asks.
LEMMA RoundChangeTyped ==
    ASSUME NEW c \in Context, NEW n \in Validator
    PROVE  /\ RoundChange(c) \in Context
           /\ RoundChangeVote(c, n) \in Seq(Message)
<1>1. c.round \in Round /\ MaxRound \in Nat
  BY ConstantsAssumption DEF Context
<1>2. c.round < MaxRound => c.round + 1 \in Round
  BY <1>1
<1>3. RoundChange(c) \in Context
  BY <1>2 DEF RoundChange, Context
<1>4. c.round < MaxRound => VoteForRound(n, c, c.round + 1) \in Message
  BY <1>2, VoteForRoundTyped
<1> QED
  BY <1>3, <1>4 DEF RoundChangeVote

\* Forgetting a round's votes leaves a context.
LEMMA ClearRoundTyped ==
    ASSUME NEW c \in Context, NEW r \in Round
    PROVE  ClearRound(c, r) \in Context
<1>1. MaxRound \in Nat /\ 0 \in Round
  BY ConstantsAssumption
<1>2. [k \in 1 .. MaxRound |-> IF k <= r THEN {} ELSE c.roundChanged[k]]
        \in [1 .. MaxRound -> SUBSET Validator]
  BY DEF Context
<1> QED
  BY <1>1, <1>2, NoVotesTyped DEF ClearRound, Context

\* nextRound leaves a context, its candidate restamped or not.
LEMMA NextRoundTyped ==
    ASSUME NEW c \in Context, NEW n \in Validator, NEW r \in Round
    PROVE  NextRound(c, n, r) \in Context
<1> DEFINE d == ClearRound(c, r)
<1>1. d \in Context
  BY ClearRoundTyped
<1> HIDE DEF d
<1>2. CASE d.myBlock = None
  BY <1>1, <1>2 DEF NextRound, HasCandidate, d
<1>3. CASE d.myBlock # None
  <2>1. d.myBlock \in Block /\ d.members \in Membership
    BY <1>1, <1>3 DEF Context
  <2>2. Stamp(d.myBlock, n, d.members, r) \in Block
    BY <2>1, BlockAssumption
  <2>3. [d EXCEPT !.myBlock = Stamp(d.myBlock, n, d.members, r)] \in Context
    BY <1>1, <2>2 DEF Context
  <2> QED
    BY <1>1, <2>3 DEF NextRound, d
<1> QED
  BY <1>2, <1>3

\* nextRound sends consensus messages only.
LEMMA ReproposalTyped ==
    ASSUME NEW d \in Context, NEW n \in Validator
    PROVE  Reproposal(d, n) \in Seq(Message)
<1>1. d.lock \in MaybeBlock /\ d.myBlock \in MaybeBlock
  BY DEF Context
<1>2. /\ d.lock # None => ViewMsg("preprepare", n, d, d.lock) \in Message
      /\ d.myBlock # None => ViewMsg("preprepare", n, d, d.myBlock) \in Message
  BY <1>1, ViewMsgTyped
<1> QED
  BY <1>2 DEF Reproposal, HasCandidate

\* commitBlock leaves a context whose membership is one a chain can lead to.
LEMMA CommitBlockTyped ==
    ASSUME NEW c \in Context, NEW b \in Block, NEW seals \in Votes
    PROVE  CommitBlock(c, b, seals) \in Context
<1> DEFINE e == [block |-> b, seals |-> seals, members |-> c.members]
           d == [c EXCEPT !.chain = Append(c.chain, e), !.members = After(c.members, b),
                          !.lock = None, !.myBlock = None]
<1>1. c.members \in Membership /\ c.chain \in Seq(Entry) /\ c.round \in Round
  BY DEF Context
<1>2. e \in Entry /\ After(c.members, b) \in Membership
  BY <1>1, MembershipAssumption DEF Entry
<1>3. Append(c.chain, e) \in Seq(Entry)
  BY <1>1, <1>2
<1>4. d \in Context
  BY <1>2, <1>3 DEF Context
<1> QED
  BY <1>1, <1>4, ClearRoundTyped DEF CommitBlock

\* A node starts, and restarts, with a context.
LEMMA NewContextTyped ==
    ASSUME NEW chain \in Seq(Entry), NEW g \in Membership
    PROVE  NewContext(chain, g) \in Context
<1>1. MaxRound \in Nat
  BY ConstantsAssumption
<1>2. CASE chain = <<>>
  BY <1>1, <1>2, NoVotesTyped DEF NewContext, Context
<1>3. CASE chain # <<>>
  <2>1. chain[Len(chain)] \in Entry
    BY <1>3
  <2>2. chain[Len(chain)].block.round \in Round
    BY <2>1, BlockAssumption DEF Entry
  <2> QED
    BY <1>1, <1>3, <2>2, NoVotesTyped DEF NewContext, Context
<1> QED
  BY <1>2, <1>3

-----------------------------------------------------------------------------
(* Messages that can be handled are well-typed *)

\* Whatever a node can receive, from faulty members too, is a consensus message.
LEMMA ReceivedTyped ==
    ASSUME TypeOK
    PROVE  msgs \cup FaultyMessage \subseteq Message
<1>1. \A n \in Honest : Len(ctx[n].chain) \in Nat
  BY HeightIsNat DEF TypeOK, Honest, Height
<1>2. Faulty \subseteq Validator
  BY ConstantsAssumption
<1>3. FaultyMessage \subseteq Message
  BY <1>1, <1>2 DEF FaultyMessage, Message, BlockMessage, RoundMessage
<1> QED
  BY <1>3 DEF TypeOK

\* A message being looped back has been sent, and the rest of them too.
LEMMA LoopedTyped ==
    ASSUME TypeOK, NEW n \in Validator, ~ Idle(n)
    PROVE  Head(loop[n]) \in Message /\ Tail(loop[n]) \in Seq(msgs)
<1>1. loop[n] \in Seq(msgs) /\ loop[n] # <<>> /\ msgs \subseteq Message
  BY DEF TypeOK, Idle
<1> HIDE DEF Idle
<1> QED
  BY <1>1

-----------------------------------------------------------------------------
(* Each kind of step keeps the types *)

\* The step every handler ends in keeps the types of what it is given.
LEMMA UpdateTyped ==
    ASSUME TypeOK, NEW n \in Validator, NEW c \in Context,
           NEW out \in Seq(Message), NEW rest \in Seq(msgs),
           Update(n, c, out, rest), vm' \in [Validator -> SUBSET Block]
    PROVE  TypeOK'
<1>1. ctx' \in [Validator -> Context]
  BY DEF TypeOK, Update
<1>2. {out[i] : i \in DOMAIN out} \subseteq Message
  OBVIOUS
<1>3. msgs' \subseteq Message
  BY <1>2 DEF TypeOK, Update
<1>4. rest \o out \in Seq(msgs')
  <2>1. rest \in Seq(msgs') /\ out \in Seq(msgs')
    BY DEF Update
  <2> QED
    BY <2>1
<1>5. loop' \in [Validator -> Seq(msgs')]
  <2>1. \A k \in Validator : loop[k] \in Seq(msgs')
    BY DEF TypeOK, Update
  <2> QED
    BY <1>4, <2>1 DEF TypeOK, Update
<1> QED
  BY <1>1, <1>3, <1>5 DEF TypeOK

\* What a message carries.
LEMMA MessageFields ==
    ASSUME NEW m \in Message
    PROVE  /\ m.sender \in Validator /\ m.height \in Nat /\ m.round \in Round
           /\ m.type # "roundchange" => m.block \in Block
           /\ m.type = "roundchange" => m.block = None
BY DEF Message, BlockMessage, RoundMessage

\* Handling any one message keeps the types.
LEMMA HandleTyped ==
    ASSUME TypeOK, NEW n \in Validator, NEW m \in Message, NEW rest \in Seq(msgs),
           Handle(n, m, rest)
    PROVE  TypeOK'
<1> DEFINE c == ctx[n]
<1>1. c \in Context /\ vm \in [Validator -> SUBSET Block] /\ <<>> \in Seq(Message) /\ <<>> \in Seq(msgs)
  BY DEF TypeOK
<1>2. CASE RefuseProposal(n, m, rest)
  <2>1. Update(n, RoundChange(c), RoundChangeVote(c, n), rest) /\ vm' = vm
    BY <1>2 DEF RefuseProposal
  <2> QED
    BY <1>1, <2>1, RoundChangeTyped, UpdateTyped
<1>3. CASE AcceptProposal(n, m, rest)
  <2>1. m.block \in Block
    BY <1>3, MessageFields DEF AcceptProposal, FromProposer
  <2>2. [c EXCEPT !.proposal = m.block] \in Context
    BY <1>1, <2>1 DEF Context
  <2>3. vm' \in [Validator -> SUBSET Block]
    BY <1>1, <1>3, <2>1 DEF AcceptProposal
  <2>4. \/ Update(n, [c EXCEPT !.proposal = m.block], <<>>, rest)
        \/ Update(n, c, <<>>, rest)
    BY <1>3 DEF AcceptProposal
  <2> QED
    BY <1>1, <2>2, <2>3, <2>4, UpdateTyped
<1>4. CASE OnPrepare(n, m, rest)
  <2> DEFINE ps == [c.prepared EXCEPT ![m.sender] = m.block]
             d  == [c EXCEPT !.prepared = ps]
             out == IF MayVote(c, n) THEN << ViewMsg("commit", n, c, m.block) >> ELSE <<>>
  <2>1. m.block \in Block
    BY <1>4, MessageFields DEF OnPrepare
  <2>2. d \in Context /\ SetLock(d) \in Context
    BY <1>1, <2>1, MessageFields DEF Context, SetLock
  <2>3. out \in Seq(Message)
    BY <1>1, <2>1, ViewMsgTyped
  <2>4. vm' = vm /\ (Update(n, SetLock(d), out, rest) \/ Update(n, d, <<>>, rest))
    BY <1>4 DEF OnPrepare
  <2> HIDE DEF d, out
  <2> QED
    BY <1>1, <2>2, <2>3, <2>4, UpdateTyped
<1>5. CASE OnCommit(n, m, rest)
  <2> DEFINE cs == [c.committed EXCEPT ![m.sender] = m.block]
             d  == [c EXCEPT !.committed = cs]
  <2>1. m.block \in Block
    BY <1>5, MessageFields DEF OnCommit
  <2>2. cs \in Votes
    BY <1>1, <2>1 DEF Context
  <2>3. d \in Context /\ CommitBlock(c, m.block, cs) \in Context
    BY <1>1, <2>1, <2>2, CommitBlockTyped DEF Context
  <2>4. vm' = vm /\ (Update(n, CommitBlock(c, m.block, cs), <<>>, rest) \/ Update(n, d, <<>>, rest))
    BY <1>5 DEF OnCommit
  <2> QED
    BY <1>1, <2>3, <2>4, UpdateTyped
<1>6. CASE OnRoundChange(n, m, rest)
  <2> DEFINE voters == c.roundChanged[m.round] \cup {m.sender}
             joins  == IsMinority(c, voters) /\ m.round > c.pendingRound
             d      == [c EXCEPT !.roundChanged[m.round] = voters,
                                 !.pendingRound = IF joins THEN m.round ELSE c.pendingRound]
             vote   == IF joins /\ MayVote(c, n) THEN << VoteForRound(n, c, m.round) >> ELSE <<>>
             e      == NextRound(d, n, d.pendingRound)
  <2>1. d \in Context
    <3>1. m.round \in Round /\ m.sender \in Validator
      BY MessageFields
    <3>2. voters \subseteq Validator \/ m.round \notin 1 .. MaxRound
      BY <1>1, <3>1 DEF Context
    <3> HIDE DEF voters, joins
    <3>3. [c.roundChanged EXCEPT ![m.round] = voters] \in [1 .. MaxRound -> SUBSET Validator]
      BY <1>1, <3>2 DEF Context
    <3> QED
      BY <1>1, <3>1, <3>3 DEF Context
  <2>2. d.pendingRound \in Round
    BY <2>1 DEF Context
  <2>3. vote \in Seq(Message)
    BY <1>1, VoteForRoundTyped, MessageFields
  <2> HIDE DEF d, vote
  <2>4. e \in Context /\ Reproposal(e, n) \in Seq(Message)
    BY <2>1, <2>2, NextRoundTyped, ReproposalTyped
  <2>5. vm' = vm /\ (Update(n, e, vote \o Reproposal(e, n), rest) \/ Update(n, d, vote, rest))
    BY <1>6 DEF OnRoundChange, d, vote
  <2> HIDE DEF e
  <2>6. vote \o Reproposal(e, n) \in Seq(Message)
    BY <2>3, <2>4
  <2> QED
    BY <1>1, <2>1, <2>3, <2>4, <2>5, <2>6, UpdateTyped
<1> QED
  BY <1>2, <1>3, <1>4, <1>5, <1>6 DEF Handle
\* Taking a candidate from the VM keeps the types, the proposal of a lock included.
LEMMA UnannouncedBlockTyped ==
    ASSUME TypeOK, NEW n \in Validator, UnannouncedBlock(n)
    PROVE  TypeOK'
<1> DEFINE c == ctx[n]
<1>1. /\ c \in Context /\ vm \in [Validator -> SUBSET Block] /\ <<>> \in Seq(Message) /\ <<>> \in Seq(msgs)
      /\ Idle(n) /\ loop[n] = <<>> /\ c.lock \in MaybeBlock
  BY DEF TypeOK, UnannouncedBlock, Idle, Context
<1>2. PICK b \in Buildable(c, n) :
        LET d    == [c EXCEPT !.myBlock = b]
            real == IF c.lock = None THEN b ELSE c.lock
        IN  IF MayPropose(c, n) /\ ExtendsChain(c, real)
            THEN /\ Update(n, [d EXCEPT !.proposal = real],
                           IF MayVote(c, n) THEN << ViewMsg("preprepare", n, c, real) >> ELSE <<>>,
                           <<>>)
                 /\ vm' = [vm EXCEPT ![n] = IF MayVote(c, n) THEN @ \cup {real} ELSE @]
            ELSE Update(n, d, <<>>, <<>>) /\ UNCHANGED vm
  BY DEF UnannouncedBlock
<1> DEFINE d    == [c EXCEPT !.myBlock = b]
           real == IF c.lock = None THEN b ELSE c.lock
           out  == IF MayVote(c, n) THEN << ViewMsg("preprepare", n, c, real) >> ELSE <<>>
<1>3. b \in Block
  BY ConstantsAssumption DEF Buildable
<1>4. real \in Block
  BY <1>1, <1>3
<1>5. d \in Context /\ [d EXCEPT !.proposal = real] \in Context
  BY <1>1, <1>3, <1>4 DEF Context
<1>6. out \in Seq(Message)
  BY <1>1, <1>4, ViewMsgTyped
<1>7. \/ Update(n, [d EXCEPT !.proposal = real], out, <<>>)
      \/ Update(n, d, <<>>, <<>>)
  BY <1>2
<1>8. vm' \in [Validator -> SUBSET Block]
  BY <1>1, <1>2, <1>4
<1> HIDE DEF d, real, out
<1> QED
  BY <1>1, <1>5, <1>6, <1>7, <1>8, UpdateTyped

\* Blocks a peer serves carry votes.
LEMMA SealedBlocksTyped ==
    ASSUME TypeOK, NEW e \in SealedBlocks
    PROVE  e.block \in Block /\ e.seals \in Votes
<1>1. CASE e \in ServedBlocks
  <2>1. PICK p \in Honest : e \in {[block |-> ctx[p].chain[i].block, seals |-> ctx[p].chain[i].seals] :
                                     i \in DOMAIN ctx[p].chain}
    BY <1>1 DEF ServedBlocks
  <2>2. PICK i \in DOMAIN ctx[p].chain :
               e = [block |-> ctx[p].chain[i].block, seals |-> ctx[p].chain[i].seals]
    BY <2>1
  <2>3. ctx[p].chain \in Seq(Entry)
    BY DEF TypeOK, Context, Honest
  <2>4. ctx[p].chain[i] \in Entry
    BY <2>3
  <2> QED
    BY <2>2, <2>4 DEF Entry
<1>2. CASE e \in AssembledBlocks
  <2>1. PICK b \in Block : \E S \in SUBSET SealHolders(b) :
               e = [block |-> b, seals |-> [v \in Validator |-> IF v \in S THEN b ELSE None]]
    BY <1>2 DEF AssembledBlocks
  <2> QED
    BY <2>1
<1> QED
  BY <1>1, <1>2 DEF SealedBlocks

\* Committing a block by sync keeps the types.
LEMMA PreviousBlockTyped ==
    ASSUME TypeOK, NEW n \in Validator, PreviousBlock(n)
    PROVE  TypeOK'
<1>1. /\ ctx[n] \in Context /\ vm \in [Validator -> SUBSET Block]
      /\ <<>> \in Seq(Message) /\ <<>> \in Seq(msgs) /\ vm' = vm
  BY DEF TypeOK, PreviousBlock
<1>2. PICK e \in SealedBlocks : Update(n, CommitBlock(ctx[n], e.block, e.seals), <<>>, <<>>)
  BY DEF PreviousBlock
<1>3. CommitBlock(ctx[n], e.block, e.seals) \in Context
  BY <1>1, SealedBlocksTyped, CommitBlockTyped
<1> QED
  BY <1>1, <1>2, <1>3, UpdateTyped

\* One case per action of Next.
LEMMA NextTyped ==
    ASSUME TypeOK, [Next]_vars
    PROVE  TypeOK'
<1>1. CASE UNCHANGED vars
  BY <1>1 DEF TypeOK, vars
<1>2. ASSUME NEW n \in Honest,
             \/ Receive(n) \/ Loopback(n) \/ Timeout(n) \/ UnannouncedBlock(n)
             \/ AcceptPreprepare(n) \/ RejectPreprepare(n) \/ PreviousBlock(n)
             \/ ForcedRound(n) \/ ForcedValidator(n) \/ Restart(n)
      PROVE  TypeOK'
  <2>1. /\ n \in Validator /\ ctx[n] \in Context /\ vm \in [Validator -> SUBSET Block]
        /\ <<>> \in Seq(Message) /\ <<>> \in Seq(msgs)
    BY DEF TypeOK, Honest
  <2>2. CASE Receive(n)
    BY <2>1, <2>2, ReceivedTyped, HandleTyped DEF Receive
  <2>3. CASE Loopback(n)
    <3>1. Head(loop[n]) \in Message /\ Tail(loop[n]) \in Seq(msgs)
      BY <2>1, <2>3, LoopedTyped DEF Loopback
    <3>2. CASE Handle(n, Head(loop[n]), Tail(loop[n]))
      BY <2>1, <3>1, <3>2, HandleTyped
    <3>3. CASE Update(n, ctx[n], <<>>, Tail(loop[n])) /\ UNCHANGED vm
      BY <2>1, <3>1, <3>3, UpdateTyped
    <3> QED
      BY <2>3, <3>2, <3>3 DEF Loopback
  <2>4. CASE Timeout(n)
    BY <2>1, <2>4, RoundChangeTyped, UpdateTyped DEF Timeout
  <2>5. CASE UnannouncedBlock(n)
    BY <2>1, <2>5, UnannouncedBlockTyped
  <2>6. CASE AcceptPreprepare(n)
    <3>1. PICK b \in Confirmed(n) :
            /\ vm' = [vm EXCEPT ![n] = @ \ {b}]
            /\ Update(n, ctx[n], IF MayVote(ctx[n], n)
                                 THEN << ViewMsg("prepare", n, ctx[n], b) >> ELSE <<>>, <<>>)
      BY <2>6 DEF AcceptPreprepare
    <3>2. b \in Block /\ vm' \in [Validator -> SUBSET Block]
      BY <2>1, <3>1 DEF Confirmed
    <3>3. (IF MayVote(ctx[n], n) THEN << ViewMsg("prepare", n, ctx[n], b) >> ELSE <<>>)
            \in Seq(Message)
      BY <2>1, <3>2, ViewMsgTyped
    <3> QED
      BY <2>1, <3>1, <3>2, <3>3, UpdateTyped
  <2>7. CASE RejectPreprepare(n)
    <3>1. vm' \in [Validator -> SUBSET Block]
      BY <2>1, <2>7 DEF RejectPreprepare
    <3> QED
      BY <2>1, <2>7, <3>1, RoundChangeTyped, UpdateTyped DEF RejectPreprepare
  <2>8. CASE PreviousBlock(n)
    BY <2>1, <2>8, PreviousBlockTyped
  <2>9. CASE ForcedRound(n)
    <3>1. PICK r \in ForceableRounds(ctx[n]) :
            Update(n, NextRound(ctx[n], n, r), Reproposal(NextRound(ctx[n], n, r), n), <<>>)
      BY <2>9 DEF ForcedRound
    <3>2. r \in Round
      BY <2>1, ConstantsAssumption DEF ForceableRounds, Context
    <3>3. vm' = vm
      BY <2>9 DEF ForcedRound
    <3> QED
      BY <2>1, <3>1, <3>2, <3>3, NextRoundTyped, ReproposalTyped, UpdateTyped
  <2>10. CASE ForcedValidator(n)
    <3>1. PICK on \in BOOLEAN : Update(n, [ctx[n] EXCEPT !.behavior = on], <<>>, <<>>)
      BY <2>10 DEF ForcedValidator
    <3>2. [ctx[n] EXCEPT !.behavior = on] \in Context
      BY <2>1 DEF Context
    <3>3. vm' = vm
      BY <2>10 DEF ForcedValidator
    <3> QED
      BY <2>1, <3>1, <3>2, <3>3, UpdateTyped
  <2>11. CASE Restart(n)
    <3>1. NewContext(ctx[n].chain, ctx[n].members) \in Context
      <4>1. ctx[n].chain \in Seq(Entry) /\ ctx[n].members \in Membership
        BY <2>1 DEF Context
      <4> QED
        BY <4>1, NewContextTyped
    <3>2. vm' = vm /\ Update(n, NewContext(ctx[n].chain, ctx[n].members), <<>>, <<>>)
      BY <2>11 DEF Restart
    <3> QED
      BY <2>1, <3>1, <3>2, UpdateTyped
  <2> QED
    BY <1>2, <2>2, <2>3, <2>4, <2>5, <2>6, <2>7, <2>8, <2>9, <2>10, <2>11
<1> QED
  BY <1>1, <1>2 DEF Next

\* The genesis state is typed.
LEMMA InitTyped ==
    ASSUME Init
    PROVE  TypeOK
<1>1. <<>> \in Seq(Entry) /\ <<>> \in Seq(Message) /\ <<>> \in Seq(msgs) /\ InitMembership \in Membership
  BY MembershipAssumption
<1>2. NewContext(<<>>, InitMembership) \in Context
  BY <1>1, NewContextTyped
<1> QED
  BY <1>1, <1>2 DEF Init, TypeOK

-----------------------------------------------------------------------------
\* The engine is type-correct for every number of validators, blocks, rounds
\* and every membership: no handler leaves a context, a queue, a message or a
\* VM request outside its type, whatever faulty members put on the wire.
THEOREM TypeCorrect == Spec => []TypeOK
<1>1. Init => TypeOK
  BY InitTyped
<1>2. TypeOK /\ [Next]_vars => TypeOK'
  BY NextTyped
<1> QED
  BY <1>1, <1>2, PTL DEF Spec

-----------------------------------------------------------------------------
(* Kinds of steps as far as views are concerned, seen from the node n that   *)
(* takes them                                                                *)

SameMembership(n) == ctx'[n].chain = ctx[n].chain /\ ctx'[n].members = ctx[n].members
NewMsgs     == msgs' \ msgs
NoProposal  == \A m \in NewMsgs : m.type # "preprepare"

\* The round and what is proposed in it stay.
Working(n) ==
    /\ SameMembership(n) /\ ctx'[n].round = ctx[n].round /\ NoProposal
    /\ ctx[n].proposal # None => ctx'[n].proposal # None
    /\ ctx'[n].lock = ctx[n].lock \/ ctx'[n].proposal # None
    /\ \A m : Returning(n, m) => ctx'[n].proposal # None \/ Returning(n, m)'

\* A leader without a proposal proposes its lock, or else its candidate.
Proposing(n) ==
    /\ SameMembership(n) /\ ctx'[n].round = ctx[n].round
    /\ Idle(n) /\ ctx[n].proposal = None /\ ctx'[n].proposal # None
    /\ \A m \in NewMsgs : /\ SameView(ctx[n], m) /\ ExtendsChain(ctx[n], m.block)
                          /\ m.block = ctx'[n].proposal
                          /\ ctx[n].lock \in {None, m.block}

\* The node moves to a later round, for which enough votes were cast.
Advancing(n) ==
    /\ SameMembership(n) /\ ctx'[n].round > ctx[n].round
    /\ Asking(ctx[n], ctx'[n].round) \cup Faulty
          \in Supermajorities[ctx[n].members][StakingActiveNow(ctx[n])]
    /\ \A m1, m2 \in NewMsgs :
          m1.type = "preprepare" /\ m2.type = "preprepare" => m1.block = m2.block
    /\ \A m \in NewMsgs : m.type = "preprepare" =>
          /\ SameView(ctx'[n], m) /\ ExtendsChain(ctx[n], m.block)
          /\ CanBeAccepted(m) => ctx'[n].lock = m.block \/ Returning(n, m)'

\* The node starts the next height in the round it is in.
Deciding(n) ==
    /\ \E e : ctx'[n].chain = Append(ctx[n].chain, e)
    /\ ctx'[n].round = ctx[n].round /\ NewMsgs = {}

Forced(n)    == n \in Operated /\ SameMembership(n) /\ ctx'[n].round >= ctx[n].round
Restarted(n) == n \in Crashing /\ SameMembership(n)

\* What holds of every step of n.
Orderly(n) ==
    /\ \A k \in Validator \ {n} : ctx'[k] = ctx[k] /\ loop'[k] = loop[k]
    /\ msgs \subseteq msgs' /\ \A m \in NewMsgs : m.sender = n
    /\ \A r \in 1 .. MaxRound : \A v \in ctx'[n].roundChanged[r] : AskedFor(v, r, Height(ctx[n]))
    /\ \A i \in 1 .. Len(loop'[n]) - 1 :
          loop'[n][i].type = "roundchange" /\ loop'[n][i].round <= ctx'[n].round
    /\ WorkFits(ctx'[n])

ViewStep(n) ==
    /\ Orderly(n)
    /\ \/ Working(n) \/ Proposing(n) \/ Advancing(n) \/ Deciding(n)
       \/ Forced(n) \/ Restarted(n)

-----------------------------------------------------------------------------
(* Quorums of a membership *)

\* The weight map of a membership is finite, over its members.
LEMMA WeightsTyped ==
    ASSUME NEW g \in Membership, NEW weighted \in BOOLEAN
    PROVE  /\ g.vals \subseteq Validator /\ IsFiniteSet(g.vals)
           /\ Weights(g, weighted) \in [g.vals -> Nat]
<1>1. g.vals \subseteq Validator /\ g.stakes \in [Validator -> Nat]
  BY MembershipAssumption
<1>2. IsFiniteSet(g.vals)
  BY <1>1, ConstantsAssumption, FS_Subset
<1>3. Weights(g, weighted) \in [g.vals -> Nat]
  BY <1>1 DEF Weights, VoteWeights
<1> QED
  BY <1>1, <1>2, <1>3

\* More voters keep a supermajority.
LEMMA QuorumGrows ==
    ASSUME NEW g \in Membership, NEW weighted \in BOOLEAN,
           NEW S \in Supermajorities[g][weighted], NEW T \in SUBSET Validator, S \subseteq T
    PROVE  T \in Supermajorities[g][weighted]
<1> DEFINE w == Weights(g, weighted)
<1>1. HasSupermajority(w, S)
  BY DEF Supermajorities
<1>2. w \in [g.vals -> Nat] /\ IsFiniteSet(g.vals)
  BY WeightsTyped
<1> HIDE DEF w
<1>3. WeightOf(w, S) <= WeightOf(w, T)
  BY <1>2, WeightMonotone
<1>4. WeightOf(w, S) \in Nat /\ WeightOf(w, T) \in Nat /\ TotalWeight(w) \in Nat
  BY <1>2, WeightIsNat DEF TotalWeight
<1>5. HasSupermajority(w, T)
  BY <1>1, <1>3, <1>4 DEF HasSupermajority
<1> QED
  BY <1>5 DEF Supermajorities, w

-----------------------------------------------------------------------------
(* What a handler needs to be given for its step to be orderly *)

\* What the invariant says of n alone.
LEMMA OwnView ==
    ASSUME ViewInv, NEW n \in Honest
    PROVE  /\ TypeOK /\ n \in Validator /\ ctx[n] \in Context /\ WorkFits(ctx[n])
           /\ \A r \in 1 .. MaxRound : \A v \in ctx[n].roundChanged[r] :
                 AskedFor(v, r, Height(ctx[n]))
           /\ \A i \in 1 .. Len(loop[n]) - 1 :
                 loop[n][i].type = "roundchange" /\ loop[n][i].round <= ctx[n].round
BY DEF ViewInv, TypeOK, RoundVotesAreBacked, OnlyLastIsLive, Honest

\* What a handler sends: first its vote, then its proposal.
LEMMA TwoMessages == \A a, b : <<a>> \o <<b>> = <<a, b>>
<1> TAKE a, b
<1>1. <<a>> \in Seq({a, b}) /\ <<b>> \in Seq({a, b})
  OBVIOUS
<1>2. /\ <<a>> \o <<b>> \in Seq({a, b}) /\ Len(<<a>> \o <<b>>) = 2
      /\ (<<a>> \o <<b>>)[1] = a /\ (<<a>> \o <<b>>)[2] = b
  BY <1>1
<1>3. /\ <<a, b>> \in Seq({a, b}) /\ Len(<<a, b>>) = 2
      /\ <<a, b>>[1] = a /\ <<a, b>>[2] = b
  OBVIOUS
<1>4. \A i \in 1 .. 2 : i = 1 \/ i = 2
  OBVIOUS
<1> DEFINE s == <<a>> \o <<b>>
           t == <<a, b>>
<1>5. s \in Seq({a, b}) /\ t \in Seq({a, b}) /\ Len(s) = Len(t) /\ \A i \in 1 .. Len(s) : s[i] = t[i]
  BY <1>2, <1>3, <1>4
<1> HIDE DEF s, t
<1>6. s = t
  BY <1>5, SeqEqual
<1> QED
  BY <1>6 DEF s, t

\* Having looped back everything else, a handler leaves what it sends in the queue.
LEMMA OrderlyUpdate ==
    ASSUME TypeOK, NEW n \in Honest, NEW c, NEW out, Update(n, c, out, <<>>),
           out = <<>> \/ (\E m : out = <<m>> /\ m.sender = n)
             \/ (\E m1, m2 : /\ out = <<m1, m2>> /\ m1.sender = n /\ m2.sender = n
                             /\ m1.type = "roundchange" /\ m1.round <= c.round),
           \A r \in 1 .. MaxRound : \A v \in c.roundChanged[r] : AskedFor(v, r, Height(ctx[n])),
           WorkFits(c)
    PROVE  /\ Orderly(n) /\ ctx'[n] = c /\ loop'[n] = out
           /\ msgs' = msgs \cup {out[i] : i \in DOMAIN out}
<1>1. n \in Validator
  BY DEF Honest
<1>2. /\ ctx'[n] = c /\ loop'[n] = <<>> \o out /\ msgs' = msgs \cup {out[i] : i \in DOMAIN out}
      /\ \A k \in Validator \ {n} : ctx'[k] = ctx[k] /\ loop'[k] = loop[k]
  BY <1>1 DEF Update, TypeOK
<1>3. <<>> \o out = out
  <2>1. CASE out = <<>>
    BY <2>1
  <2>2. CASE \E m : out = <<m>>
    BY <2>2
  <2>3. CASE \E m1, m2 : out = <<m1, m2>>
    BY <2>3
  <2> QED
    BY <2>1, <2>2, <2>3
<1>4. \A i \in DOMAIN out : out[i].sender = n
  <2>1. CASE out = <<>>
    BY <2>1
  <2>2. CASE \E m : out = <<m>> /\ m.sender = n
    BY <2>2
  <2>3. CASE \E m1, m2 : out = <<m1, m2>> /\ m1.sender = n /\ m2.sender = n
    BY <2>3
  <2> QED
    BY <2>1, <2>2, <2>3
<1>5. \A i \in 1 .. Len(out) - 1 : out[i].type = "roundchange" /\ out[i].round <= c.round
  <2>1. CASE out = <<>>
    BY <2>1
  <2>2. CASE \E m : out = <<m>>
    BY <2>2
  <2>3. CASE \E m1, m2 : out = <<m1, m2>> /\ m1.type = "roundchange" /\ m1.round <= c.round
    BY <2>3
  <2> QED
    BY <2>1, <2>2, <2>3
<1> QED
  BY <1>2, <1>3, <1>4, <1>5 DEF Orderly, NewMsgs

\* Work that fits a context fits every context with the same chain and work.
LEMMA WorkStillFits ==
    ASSUME NEW c, NEW d, WorkFits(c), d.chain = c.chain, d.myBlock = c.myBlock,
           d.proposal = c.proposal, d.lock \in {c.lock, c.proposal}
    PROVE  WorkFits(d)
BY DEF WorkFits, ExtendsChain, HasCandidate, Height, LastBlock

\* A handler that neither proposes nor leaves the view is a working step.
LEMMA WorkingStep ==
    ASSUME ViewInv, NEW n \in Honest, NEW c, NEW out, Update(n, c, out, <<>>),
           out = <<>> \/ (\E m : out = <<m>> /\ m.sender = n /\ m.type # "preprepare"),
           c.chain = ctx[n].chain, c.members = ctx[n].members, c.round = ctx[n].round,
           ctx[n].proposal # None => c.proposal # None,
           c.lock = ctx[n].lock \/ c.proposal # None,
           \A r \in 1 .. MaxRound : \A v \in c.roundChanged[r] : AskedFor(v, r, Height(ctx[n])),
           \A m : Returning(n, m) => c.proposal # None,
           WorkFits(c)
    PROVE  ViewStep(n)
<1>1. /\ Orderly(n) /\ ctx'[n] = c
      /\ msgs' = msgs \cup {out[i] : i \in DOMAIN out}
  BY OwnView, OrderlyUpdate
<1>2. \A i \in DOMAIN out : out[i].type # "preprepare"
  <2>1. CASE out = <<>>
    BY <2>1
  <2>2. CASE \E m : out = <<m>> /\ m.type # "preprepare"
    BY <2>2
  <2> QED
    BY <2>1, <2>2
<1>3. NoProposal
  BY <1>1, <1>2 DEF NoProposal, NewMsgs
<1>4. Working(n)
  BY <1>1, <1>3 DEF Working, SameMembership
<1> QED
  BY <1>1, <1>4 DEF ViewStep

\* Asking for the next round is a working step.
LEMMA AskingStep ==
    ASSUME ViewInv, NEW n \in Honest, \A m : ~ Returning(n, m),
           Update(n, RoundChange(ctx[n]), RoundChangeVote(ctx[n], n), <<>>)
    PROVE  ViewStep(n)
<1> DEFINE c   == ctx[n]
           d   == RoundChange(c)
           out == RoundChangeVote(c, n)
<1>1. c \in Context /\ WorkFits(c)
  BY OwnView
<1>2. /\ d.chain = c.chain /\ d.members = c.members /\ d.round = c.round
      /\ d.proposal = c.proposal /\ d.lock = c.lock /\ d.myBlock = c.myBlock
      /\ d.roundChanged = c.roundChanged
  BY <1>1 DEF RoundChange, Context
<1>3. out = <<>> \/ (\E m : out = <<m>> /\ m.sender = n /\ m.type # "preprepare")
  BY DEF RoundChangeVote, VoteForRound
<1>4. Update(n, d, out, <<>>)
  OBVIOUS
<1> HIDE DEF d, out
<1>5. WorkFits(d)
  BY <1>1, <1>2, WorkStillFits
<1> QED
  BY <1>2, <1>3, <1>4, <1>5, OwnView, WorkingStep

\* A refused proposal is not one the node was about to accept from itself.
LEMMA RefuseProposalStep ==
    ASSUME ViewInv, NEW n \in Honest, NEW m, RefuseProposal(n, m, <<>>),
           \A x : Returning(n, x) => x = m
    PROVE  ViewStep(n)
<1>1. \A x : ~ Returning(n, x)
  BY DEF RefuseProposal, Returning
<1> QED
  BY <1>1, AskingStep DEF RefuseProposal

\* The proposal a node accepts extends its chain.
LEMMA AcceptProposalStep ==
    ASSUME ViewInv, NEW n \in Honest, NEW m \in Message, AcceptProposal(n, m, <<>>)
    PROVE  ViewStep(n)
<1> DEFINE c == ctx[n]
           d == [c EXCEPT !.proposal = m.block]
<1>1. c \in Context /\ WorkFits(c)
  BY OwnView
<1>2. m.block \in Block /\ m.block # None /\ ExtendsChain(c, m.block)
  BY MessageFields, ConstantsAssumption DEF AcceptProposal, FromProposer, Acceptable
<1>3. CASE Update(n, d, <<>>, <<>>)
  <2>1. /\ d.chain = c.chain /\ d.members = c.members /\ d.round = c.round
        /\ d.proposal = m.block /\ d.lock = c.lock /\ d.myBlock = c.myBlock
        /\ d.roundChanged = c.roundChanged
    BY <1>1 DEF Context
  <2> HIDE DEF d
  <2>2. WorkFits(d)
    BY <1>1, <1>2, <2>1 DEF WorkFits, ExtendsChain, HasCandidate, Height, LastBlock
  <2> QED
    BY <1>2, <1>3, <2>1, <2>2, OwnView, WorkingStep
<1>4. CASE Update(n, c, <<>>, <<>>) /\ c.proposal # None
  BY <1>4, OwnView, WorkingStep
<1> QED
  BY <1>3, <1>4 DEF AcceptProposal

\* A PREPARE keeps the proposal, and a lock it sets is the proposal.
LEMMA OnPrepareStep ==
    ASSUME ViewInv, NEW n \in Honest, NEW m \in Message, OnPrepare(n, m, <<>>),
           \A x : Returning(n, x) => x = m
    PROVE  ViewStep(n)
<1> DEFINE c   == ctx[n]
           ps  == [c.prepared EXCEPT ![m.sender] = m.block]
           d   == [c EXCEPT !.prepared = ps]
           out == IF MayVote(c, n) THEN << ViewMsg("commit", n, c, m.block) >> ELSE <<>>
<1>1. c \in Context /\ WorkFits(c)
  BY OwnView
<1>2. m.type = "prepare" /\ m.block \in Block /\ m.block # None
  BY MessageFields, ConstantsAssumption DEF OnPrepare
<1>3. \A x : ~ Returning(n, x)
  BY <1>2 DEF Returning, FromProposer
<1>4. /\ d.chain = c.chain /\ d.members = c.members /\ d.round = c.round
      /\ d.proposal = c.proposal /\ d.lock = c.lock /\ d.myBlock = c.myBlock
      /\ d.roundChanged = c.roundChanged
  BY <1>1 DEF Context
<1>6. CASE Update(n, d, <<>>, <<>>)
  <2> HIDE DEF d
  <2>1. WorkFits(d)
    BY <1>1, <1>4, WorkStillFits
  <2> QED
    BY <1>3, <1>4, <1>6, <2>1, OwnView, WorkingStep
<1>7. CASE Update(n, SetLock(d), out, <<>>) /\ c.proposal = m.block
  <2> DEFINE e == SetLock(d)
  <2>1. /\ e.chain = c.chain /\ e.members = c.members /\ e.round = c.round
        /\ e.proposal = c.proposal /\ e.lock = c.proposal /\ e.myBlock = c.myBlock
        /\ e.roundChanged = c.roundChanged
    BY <1>1, <1>4 DEF SetLock, Context
  <2>2. out = <<>> \/ (\E x : out = <<x>> /\ x.sender = n /\ x.type # "preprepare")
    BY DEF ViewMsg
  <2> HIDE DEF d, e, out
  <2>3. WorkFits(e)
    BY <1>1, <2>1, WorkStillFits
  <2>4. Update(n, e, out, <<>>)
    BY <1>7 DEF e
  <2> QED
    BY <1>2, <1>3, <1>7, <2>1, <2>2, <2>3, <2>4, OwnView, WorkingStep
<1> QED
  BY <1>6, <1>7 DEF OnPrepare

\* commitBlock starts the next height in the round of the last, with nothing to
\* propose yet.
LEMMA DecidingStep ==
    ASSUME ViewInv, NEW n \in Honest, NEW b \in Block, NEW seals \in Votes,
           Update(n, CommitBlock(ctx[n], b, seals), <<>>, <<>>)
    PROVE  ViewStep(n)
<1> DEFINE c == ctx[n]
           d == CommitBlock(c, b, seals)
           e == [block |-> b, seals |-> seals, members |-> c.members]
<1>1. c \in Context
  BY OwnView
<1>2. /\ d.chain = Append(c.chain, e) /\ d.round = c.round
      /\ d.proposal = None /\ d.lock = None /\ d.myBlock = None
      /\ d.roundChanged = [k \in 1 .. MaxRound |-> IF k <= c.round THEN {} ELSE c.roundChanged[k]]
  BY <1>1 DEF CommitBlock, ClearRound, Context
<1> HIDE DEF d, e
<1>3. WorkFits(d)
  BY <1>2 DEF WorkFits, HasCandidate
<1>4. \A r \in 1 .. MaxRound : \A v \in d.roundChanged[r] : AskedFor(v, r, Height(c))
  BY <1>2, OwnView
<1>5. Update(n, d, <<>>, <<>>)
  BY DEF d
<1>6. Orderly(n) /\ ctx'[n] = d /\ msgs' = msgs \cup {(<<>>)[i] : i \in DOMAIN <<>>}
  BY <1>3, <1>4, <1>5, OwnView, OrderlyUpdate
<1>7. NewMsgs = {}
  BY <1>6 DEF NewMsgs
<1>8. Deciding(n)
  BY <1>2, <1>6, <1>7 DEF Deciding
<1> QED
  BY <1>6, <1>8 DEF ViewStep

\* A COMMIT completes a quorum and decides, or is counted.
LEMMA OnCommitStep ==
    ASSUME ViewInv, NEW n \in Honest, NEW m \in Message, OnCommit(n, m, <<>>),
           \A x : Returning(n, x) => x = m
    PROVE  ViewStep(n)
<1> DEFINE c  == ctx[n]
           cs == [c.committed EXCEPT ![m.sender] = m.block]
           d  == [c EXCEPT !.committed = cs]
<1>1. c \in Context /\ WorkFits(c) /\ c.committed \in Votes
  BY OwnView DEF Context
<1>2. m.type = "commit" /\ m.block \in Block /\ m.sender \in Validator
  BY MessageFields DEF OnCommit
<1>3. \A x : ~ Returning(n, x)
  BY <1>2 DEF Returning, FromProposer
<1>4. cs \in Votes
  BY <1>1, <1>2 DEF Votes, MaybeBlock
<1>5. /\ d.chain = c.chain /\ d.members = c.members /\ d.round = c.round
      /\ d.proposal = c.proposal /\ d.lock = c.lock /\ d.myBlock = c.myBlock
      /\ d.roundChanged = c.roundChanged
  BY <1>1 DEF Context
<1>6. CASE Update(n, d, <<>>, <<>>)
  <2> HIDE DEF d
  <2>1. WorkFits(d)
    BY <1>1, <1>5, WorkStillFits
  <2> QED
    BY <1>3, <1>5, <1>6, <2>1, OwnView, WorkingStep
<1>7. CASE Update(n, CommitBlock(c, m.block, cs), <<>>, <<>>)
  <2> HIDE DEF cs
  <2> QED
    BY <1>2, <1>4, <1>7, DecidingStep
<1> QED
  BY <1>6, <1>7 DEF OnCommit

\* What nextRound leaves: the chain, the membership and the lock, a candidate
\* restamped for the round or as it was, and the votes for later rounds only.
LEMMA NextRoundEffect ==
    ASSUME NEW c \in Context, NEW n \in Validator, NEW r \in Round
    PROVE  LET e == NextRound(c, n, r) IN
           /\ e \in Context
           /\ e.chain = c.chain /\ e.members = c.members /\ e.lock = c.lock
           /\ e.round = r /\ e.proposal = None /\ e.behavior = c.behavior
           /\ \A k \in 1 .. MaxRound : e.roundChanged[k] \subseteq c.roundChanged[k]
           /\ IF LeadsRound(e, n) /\ c.lock = None /\ HasCandidate(c)
              THEN e.myBlock = Stamp(c.myBlock, n, c.members, r)
              ELSE e.myBlock = c.myBlock
<1> DEFINE d == ClearRound(c, r)
           e == NextRound(c, n, r)
           f == [d EXCEPT !.myBlock = Stamp(d.myBlock, n, d.members, r)]
<1>1. d \in Context /\ e \in Context
  BY ClearRoundTyped, NextRoundTyped
<1>2. /\ d.chain = c.chain /\ d.members = c.members /\ d.lock = c.lock
      /\ d.round = r /\ d.proposal = None /\ d.behavior = c.behavior /\ d.myBlock = c.myBlock
      /\ d.roundChanged = [k \in 1 .. MaxRound |-> IF k <= r THEN {} ELSE c.roundChanged[k]]
  BY DEF ClearRound, Context
<1>3. e = IF LeadsRound(d, n) /\ d.lock = None /\ HasCandidate(d) THEN f ELSE d
  BY DEF NextRound
<1> HIDE DEF d, e
<1>4. /\ f.chain = d.chain /\ f.members = d.members /\ f.lock = d.lock
      /\ f.round = d.round /\ f.proposal = d.proposal /\ f.behavior = d.behavior
      /\ f.roundChanged = d.roundChanged /\ f.myBlock = Stamp(d.myBlock, n, d.members, r)
  BY <1>1 DEF Context
<1> HIDE DEF f
<1>5. /\ e.chain = d.chain /\ e.members = d.members /\ e.lock = d.lock /\ e.round = d.round
      /\ e.proposal = d.proposal /\ e.behavior = d.behavior /\ e.roundChanged = d.roundChanged
  BY <1>3, <1>4
<1>6. LeadsRound(e, n) = LeadsRound(d, n)
  BY <1>5 DEF LeadsRound, MayVote, Proposer, Selected, StakingActiveNow, Height, LastRound
<1>7. HasCandidate(d) = HasCandidate(c)
  BY <1>2 DEF HasCandidate, Height
<1>8. IF LeadsRound(e, n) /\ c.lock = None /\ HasCandidate(c)
      THEN e.myBlock = Stamp(c.myBlock, n, c.members, r)
      ELSE e.myBlock = c.myBlock
  BY <1>2, <1>3, <1>4, <1>6, <1>7
<1>9. \A k \in 1 .. MaxRound : e.roundChanged[k] \subseteq c.roundChanged[k]
  BY <1>2, <1>5
<1> QED
  BY <1>1, <1>2, <1>5, <1>8, <1>9 DEF e

\* Restamping a block changes its hash, not its place.
LEMMA StampKeepsPlace ==
    ASSUME NEW b \in Block, NEW n \in Validator, NEW g \in Membership, NEW r \in Round
    PROVE  LET s == Stamp(b, n, g, r) IN
           /\ s \in Block /\ s.number = b.number /\ s.parent = b.parent
           /\ s.signer = n /\ s.members = g
           /\ StakingActiveFor(b.number) => s.round = r
BY BlockAssumption DEF Stamp

\* Work that fitted still fits after nextRound.
LEMMA NextRoundFits ==
    ASSUME NEW c \in Context, NEW n \in Validator, NEW r \in Round, WorkFits(c)
    PROVE  WorkFits(NextRound(c, n, r))
<1> DEFINE e == NextRound(c, n, r)
<1>1. /\ e.chain = c.chain /\ e.lock = c.lock /\ e.proposal = None
      /\ e.myBlock = c.myBlock
           \/ (HasCandidate(c) /\ e.myBlock = Stamp(c.myBlock, n, c.members, r))
  BY NextRoundEffect
<1> HIDE DEF e
<1>2. \A b : ExtendsChain(c, b) = ExtendsChain(e, b)
  BY <1>1 DEF ExtendsChain, Height, LastBlock
<1>3. Height(e) = Height(c)
  BY <1>1 DEF Height
<1>4. ASSUME HasCandidate(e)
      PROVE  ExtendsChain(e, e.myBlock)
  <2>1. CASE e.myBlock = c.myBlock
    <3>1. HasCandidate(c)
      BY <1>3, <1>4, <2>1 DEF HasCandidate
    <3> QED
      BY <1>2, <2>1, <3>1 DEF WorkFits
  <2>2. CASE HasCandidate(c) /\ e.myBlock = Stamp(c.myBlock, n, c.members, r)
    <3>1. c.myBlock \in Block /\ c.members \in Membership
      BY <2>2 DEF HasCandidate, Context, MaybeBlock
    <3>2. e.myBlock.number = c.myBlock.number /\ e.myBlock.parent = c.myBlock.parent
      BY <2>2, <3>1, StampKeepsPlace
    <3>3. ExtendsChain(c, c.myBlock)
      BY <2>2 DEF WorkFits
    <3> QED
      BY <1>2, <3>2, <3>3 DEF ExtendsChain
  <2> QED
    BY <1>1, <2>1, <2>2
<1> QED
  BY <1>1, <1>2, <1>4 DEF WorkFits, e

\* What nextRound re-proposes extends the chain, and its author accepts it when
\* it is looped back, unless it sticks to its lock or is behind the last block.
LEMMA ReproposalBinds ==
    ASSUME NEW c \in Context, NEW n \in Validator, NEW r \in Round, WorkFits(c),
           c.chain # <<>> => c.chain[Len(c.chain)].block \in Block,
           NEW m, NEW e, e = NextRound(c, n, r), Reproposal(e, n) = <<m>>
    PROVE  /\ m.type = "preprepare" /\ m.sender = n /\ SameView(e, m) /\ ExtendsChain(c, m.block)
           /\ CanBeAccepted(m) => e.lock = m.block \/ (FromProposer(e, m) /\ Acceptable(e, m))
<1>1. /\ e \in Context /\ WorkFits(e) /\ e.lock = c.lock /\ e.chain = c.chain
      /\ e.round = r /\ e.members = c.members
  BY NextRoundEffect, NextRoundFits
<1>2. LeadsRound(e, n)
  BY DEF Reproposal
<1>3. \A b : ExtendsChain(c, b) = ExtendsChain(e, b)
  BY <1>1 DEF ExtendsChain, Height, LastBlock
<1>4. CASE e.lock # None
  <2>1. m = ViewMsg("preprepare", n, e, e.lock)
    BY <1>2, <1>4 DEF Reproposal
  <2>2. ExtendsChain(e, e.lock)
    BY <1>1, <1>4 DEF WorkFits
  <2> QED
    BY <1>3, <2>1, <2>2 DEF ViewMsg, SameView
<1>5. CASE e.lock = None
  <2>1. HasCandidate(e) /\ m = ViewMsg("preprepare", n, e, e.myBlock)
    BY <1>2, <1>5 DEF Reproposal
  <2>2. /\ ExtendsChain(e, e.myBlock) /\ e.myBlock \in Block /\ c.myBlock \in MaybeBlock
        /\ c.members \in Membership
    BY <1>1, <2>1 DEF WorkFits, HasCandidate, Context, MaybeBlock
  <2>3. HasCandidate(c)
    <3>1. \/ e.myBlock = c.myBlock
          \/ HasCandidate(c)
      BY NextRoundEffect
    <3>2. Height(e) = Height(c)
      BY <1>1 DEF Height
    <3> QED
      BY <2>1, <3>1, <3>2 DEF HasCandidate
  <2>4. c.myBlock \in Block /\ e.myBlock = Stamp(c.myBlock, n, c.members, r)
    BY <1>1, <1>2, <1>5, <2>2, <2>3, NextRoundEffect DEF HasCandidate, MaybeBlock
  <2>5. /\ e.myBlock.signer = n /\ e.myBlock.members = c.members
        /\ StakingActiveFor(e.myBlock.number) => e.myBlock.round = r
    BY <2>2, <2>4, StampKeepsPlace
  <2>6. /\ m.type = "preprepare" /\ m.sender = n /\ m.block = e.myBlock
        /\ m.height = Height(e) /\ m.round = e.round
    BY <2>1 DEF ViewMsg
  <2>7. FromProposer(e, m)
    BY <1>2, <2>5, <2>6 DEF FromProposer, Authorized, LeadsRound, MayVote
  <2>8. ASSUME CanBeAccepted(m)
        PROVE  HeaderOK(e, m.block)
    <3> SUFFICES ASSUME StakingActiveNow(e)
                 PROVE  /\ m.block.round <= e.round /\ m.block.round >= LastRound(e)
                        /\ m.block.members = e.members
                        /\ m.block.signer = Selected(e, m.block.round)
      BY DEF HeaderOK
    <3>1. StakingActiveFor(m.block.number) /\ m.block.parent = LastBlock(e)
      BY <2>2, <2>6 DEF StakingActiveNow, ExtendsChain
    <3>2. m.block.round = r /\ r \in Nat
      BY <2>5, <2>6, <3>1, ConstantsAssumption DEF Round
    <3>3. LastRound(e) <= r
      <4>1. CASE e.chain = <<>>
        BY <3>2, <4>1 DEF LastRound
      <4>2. CASE e.chain # <<>>
        <5>1. LastBlock(e) \in Block /\ LastRound(e) = LastBlock(e).round
          BY <1>1, <4>2 DEF LastBlock, LastRound
        <5>2. LastBlock(e) # Genesis
          BY <5>1, ConstantsAssumption
        <5> QED
          BY <1>1, <2>6, <2>8, <3>1, <5>1, <5>2 DEF CanBeAccepted
      <4> QED
        BY <4>1, <4>2
    <3>4. LastRound(e) \in Nat
      <4>1. CASE e.chain = <<>>
        BY <4>1 DEF LastRound
      <4>2. CASE e.chain # <<>>
        <5>1. c.chain[Len(c.chain)].block.round \in Round
          BY <1>1, <4>2, BlockAssumption
        <5> QED
          BY <1>1, <4>2, <5>1, ConstantsAssumption DEF LastRound, Round
      <4> QED
        BY <4>1, <4>2
    <3>5. n = Selected(e, e.round)
      BY <1>2 DEF LeadsRound, Proposer
    <3> QED
      BY <1>1, <2>5, <2>6, <3>2, <3>3, <3>4, <3>5
  <2>9. CanBeAccepted(m) => Acceptable(e, m)
    BY <1>5, <2>2, <2>6, <2>8 DEF Acceptable, SameView
  <2> QED
    BY <1>3, <2>2, <2>6, <2>7, <2>9 DEF SameView
<1> QED
  BY <1>4, <1>5

\* Entering a round is orderly, and leaves what it proposes last in the queue.
LEMMA NewRoundOrderly ==
    ASSUME ViewInv, NEW n \in Honest, NEW d \in Context, NEW r \in Round, NEW vote,
           d.chain = ctx[n].chain, d.members = ctx[n].members, WorkFits(d),
           \A k \in 1 .. MaxRound : \A v \in d.roundChanged[k] : AskedFor(v, k, Height(ctx[n])),
           vote = <<>> \/ (\E v : vote = <<v>> /\ v.sender = n /\ v.type = "roundchange" /\ v.round <= r),
           Update(n, NextRound(d, n, r), vote \o Reproposal(NextRound(d, n, r), n), <<>>)
    PROVE  /\ Orderly(n) /\ ctx'[n] = NextRound(d, n, r) /\ SameMembership(n) /\ ctx'[n].round = r
           /\ \A m1, m2 \in NewMsgs :
                 m1.type = "preprepare" /\ m2.type = "preprepare" => m1.block = m2.block
           /\ \A m \in NewMsgs : m.type = "preprepare" =>
                 /\ SameView(ctx'[n], m) /\ ExtendsChain(ctx[n], m.block)
                 /\ CanBeAccepted(m) => ctx'[n].lock = m.block \/ Returning(n, m)'
<1> DEFINE e   == NextRound(d, n, r)
           re  == Reproposal(e, n)
           out == vote \o re
<1>1. n \in Validator /\ ctx[n] \in Context
  BY OwnView
<1>2. /\ e.chain = d.chain /\ e.members = d.members /\ e.round = r
      /\ \A k \in 1 .. MaxRound : e.roundChanged[k] \subseteq d.roundChanged[k]
  BY <1>1, NextRoundEffect
<1>3. WorkFits(e)
  BY <1>1, NextRoundFits
<1>4. re = <<>> \/ (\E m : re = <<m>> /\ m.sender = n)
  BY DEF Reproposal, ViewMsg
<1>5. d.chain # <<>> => d.chain[Len(d.chain)].block \in Block
  <2>1. d.chain \in Seq(Entry)
    BY DEF Context
  <2>2. d.chain # <<>> => d.chain[Len(d.chain)] \in Entry
    BY <2>1
  <2> QED
    BY <2>2 DEF Entry
<1>6. \A m : re = <<m>> =>
        /\ m.type = "preprepare" /\ m.sender = n /\ SameView(e, m) /\ ExtendsChain(d, m.block)
        /\ CanBeAccepted(m) => e.lock = m.block \/ (FromProposer(e, m) /\ Acceptable(e, m))
  BY <1>1, <1>5, ReproposalBinds
<1>7. Update(n, e, out, <<>>)
  OBVIOUS
<1> HIDE DEF e, re
<1>8. \/ out = <<>> /\ vote = <<>> /\ re = <<>>
      \/ \E m : out = <<m>> /\ vote = <<m>> /\ re = <<>>
      \/ \E m : out = <<m>> /\ vote = <<>> /\ re = <<m>>
      \/ \E m1, m2 : out = <<m1, m2>> /\ vote = <<m1>> /\ re = <<m2>>
  <2>1. CASE vote = <<>> /\ re = <<>>
    BY <2>1
  <2>2. CASE vote = <<>> /\ \E m : re = <<m>>
    BY <2>2
  <2>3. CASE re = <<>> /\ \E m : vote = <<m>>
    BY <2>3
  <2>4. CASE (\E m : re = <<m>>) /\ (\E m : vote = <<m>>)
    <3>1. PICK m1, m2 : vote = <<m1>> /\ re = <<m2>>
      BY <2>4
    <3> QED
      BY <3>1, TwoMessages
  <2> QED
    BY <1>4, <2>1, <2>2, <2>3, <2>4
<1> HIDE DEF out
<1>9. \/ out = <<>>
      \/ \E m : out = <<m>> /\ m.sender = n
      \/ \E m1, m2 : /\ out = <<m1, m2>> /\ m1.sender = n /\ m2.sender = n
                     /\ m1.type = "roundchange" /\ m1.round <= e.round
  <2>1. \A m : vote = <<m>> => m.sender = n /\ m.type = "roundchange" /\ m.round <= e.round
    BY <1>2
  <2>2. \A m : re = <<m>> => m.sender = n
    BY <1>4
  <2> QED
    BY <1>8, <2>1, <2>2
<1>10. \A k \in 1 .. MaxRound : \A v \in e.roundChanged[k] : AskedFor(v, k, Height(ctx[n]))
  BY <1>2
<1>11. /\ Orderly(n) /\ ctx'[n] = e /\ loop'[n] = out
       /\ msgs' = msgs \cup {out[i] : i \in DOMAIN out}
  BY <1>3, <1>7, <1>9, <1>10, OwnView, OrderlyUpdate
<1>12. \A i \in DOMAIN out : out[i].type = "preprepare" =>
          re = <<out[i]>> /\ out # <<>> /\ out[Len(out)] = out[i]
  <2>1. \A m : vote = <<m>> => m.type # "preprepare"
    OBVIOUS
  <2>2. CASE out = <<>>
    BY <2>2
  <2>3. CASE \E m : out = <<m>> /\ vote = <<m>>
    BY <2>1, <2>3
  <2>4. CASE \E m : out = <<m>> /\ re = <<m>>
    BY <2>4
  <2>5. CASE \E m1, m2 : out = <<m1, m2>> /\ vote = <<m1>> /\ re = <<m2>>
    BY <2>1, <2>5
  <2> QED
    BY <1>8, <2>2, <2>3, <2>4, <2>5
<1>13. \A m \in NewMsgs : m.type = "preprepare" => re = <<m>> /\ out # <<>> /\ out[Len(out)] = m
  BY <1>11, <1>12 DEF NewMsgs
<1>14. ASSUME NEW m \in NewMsgs, m.type = "preprepare"
       PROVE  /\ SameView(ctx'[n], m) /\ ExtendsChain(ctx[n], m.block)
              /\ CanBeAccepted(m) => ctx'[n].lock = m.block \/ Returning(n, m)'
  <2>1. re = <<m>> /\ loop'[n] # <<>> /\ loop'[n][Len(loop'[n])] = m
    BY <1>11, <1>13, <1>14
  <2>2. ExtendsChain(ctx[n], m.block)
    BY <1>6, <2>1 DEF ExtendsChain, Height, LastBlock
  <2>3. FromProposer(e, m) /\ Acceptable(e, m) => Returning(n, m)'
    BY <1>6, <1>11, <2>1 DEF Returning
  <2> QED
    BY <1>6, <1>11, <2>1, <2>2, <2>3
<1>15. \A m1, m2 \in NewMsgs :
          m1.type = "preprepare" /\ m2.type = "preprepare" => m1.block = m2.block
  BY <1>13
<1>16. SameMembership(n) /\ ctx'[n].round = r
  BY <1>2, <1>11 DEF SameMembership
<1> QED
  BY <1>11, <1>14, <1>15, <1>16 DEF e

\* A counted vote for a later round.
LEMMA OnRoundChangeStep ==
    ASSUME ViewInv, NEW n \in Honest, NEW m \in Message, m \in msgs \/ m.sender \in Faulty,
           OnRoundChange(n, m, <<>>), \A x : Returning(n, x) => x = m
    PROVE  ViewStep(n)
<1> DEFINE c      == ctx[n]
           voters == c.roundChanged[m.round] \cup {m.sender}
           joins  == IsMinority(c, voters) /\ m.round > c.pendingRound
           d      == [c EXCEPT !.roundChanged[m.round] = voters,
                               !.pendingRound = IF joins THEN m.round ELSE c.pendingRound]
           vote   == IF joins /\ MayVote(c, n) THEN << VoteForRound(n, c, m.round) >> ELSE <<>>
           e      == NextRound(d, n, d.pendingRound)
<1>1. c \in Context /\ WorkFits(c) /\ n \in Validator
  BY OwnView
<1>2. /\ m.type = "roundchange" /\ m.sender \in Validator /\ m.round \in 0 .. MaxRound
      /\ m.height = Height(c) /\ m.round > c.round /\ c.round \in 0 .. MaxRound
      /\ c.pendingRound \in 0 .. MaxRound /\ MaxRound \in Nat
      /\ c.roundChanged \in [1 .. MaxRound -> SUBSET Validator] /\ m.round \in 1 .. MaxRound
  BY <1>1, MessageFields, ConstantsAssumption DEF OnRoundChange, FreshRoundVote, Context, Round
<1>3. /\ d.chain = c.chain /\ d.members = c.members /\ d.round = c.round
      /\ d.proposal = c.proposal /\ d.lock = c.lock /\ d.myBlock = c.myBlock
      /\ d.roundChanged = [c.roundChanged EXCEPT ![m.round] = voters]
      /\ d.pendingRound = IF joins THEN m.round ELSE c.pendingRound
  BY <1>1 DEF Context
<1>4. voters \in SUBSET Validator
  BY <1>2
<1>5. d \in Context
  <2> HIDE DEF voters, joins
  <2>1. [c.roundChanged EXCEPT ![m.round] = voters] \in [1 .. MaxRound -> SUBSET Validator]
    BY <1>2, <1>4
  <2>2. (IF joins THEN m.round ELSE c.pendingRound) \in Round
    BY <1>2 DEF Round
  <2> QED
    BY <1>1, <2>1, <2>2 DEF Context
<1>6. \/ Update(n, e, vote \o Reproposal(e, n), <<>>) /\ IsSupermajority(c, voters)
      \/ Update(n, d, vote, <<>>)
  BY DEF OnRoundChange
<1>7. \A x : ~ Returning(n, x)
  BY <1>2 DEF Returning, FromProposer
<1>8. AskedFor(m.sender, m.round, Height(c))
  BY <1>2, HeightIsNat, <1>1 DEF AskedFor
<1> HIDE DEF d
<1>9. \A k \in 1 .. MaxRound : \A v \in d.roundChanged[k] : AskedFor(v, k, Height(c))
  <2>1. \A k \in 1 .. MaxRound : \A v \in c.roundChanged[k] : AskedFor(v, k, Height(c))
    BY OwnView
  <2> QED
    BY <1>2, <1>3, <1>8, <2>1
<1>10. WorkFits(d)
  BY <1>1, <1>3, WorkStillFits
<1>11. vote = <<>> \/ (\E v : /\ vote = <<v>> /\ v.sender = n /\ v.type = "roundchange"
                              /\ v.round = m.round /\ joins)
  <2> HIDE DEF voters, joins
  <2> QED
    BY DEF VoteForRound
<1> HIDE DEF vote, voters, joins
<1>12. CASE Update(n, d, vote, <<>>)
  BY <1>3, <1>7, <1>9, <1>10, <1>11, <1>12, OwnView, WorkingStep
<1>13. CASE Update(n, e, vote \o Reproposal(e, n), <<>>) /\ IsSupermajority(c, voters)
  <2>1. c.members \in Membership /\ StakingActiveNow(c) \in BOOLEAN
    BY <1>1 DEF Context, StakingActiveNow, StakingActiveFor
  <2>2. IsMinority(c, voters)
    <3>1. HasSupermajority(Weights(c.members, StakingActiveNow(c)), voters)
      BY <1>13, <2>1 DEF IsSupermajority, Supermajorities
    <3>2. HasMinority(Weights(c.members, StakingActiveNow(c)), voters)
      BY <2>1, <3>1, WeightsTyped, SupermajorityIsMinority
    <3> QED
      BY <1>4, <2>1, <3>2 DEF IsMinority, Minorities
  <2>3. d.pendingRound \in Round /\ d.pendingRound >= m.round
    BY <1>2, <1>3, <2>2 DEF joins, Round
  <2>4. vote = <<>> \/ (\E v : /\ vote = <<v>> /\ v.sender = n /\ v.type = "roundchange"
                               /\ v.round <= d.pendingRound)
    BY <1>2, <1>11, <2>3
  <2>5. voters \subseteq Asking(c, d.pendingRound) \cup Faulty
    <3> SUFFICES ASSUME NEW v \in voters, v \notin Faulty
                 PROVE  v \in Asking(c, d.pendingRound)
      OBVIOUS
    <3>1. AskedFor(v, m.round, Height(c))
      BY <1>2, <1>3, <1>9
    <3>2. PICK x \in msgs : /\ x.type = "roundchange" /\ x.sender = v /\ x.round = m.round
                            /\ x.height <= Height(c)
      BY <3>1 DEF AskedFor
    <3> QED
      BY <1>2, <2>3, <3>2 DEF Asking
  <2>6. Asking(c, d.pendingRound) \cup Faulty \subseteq Validator
    <3>1. \A x \in msgs : x.sender \in Validator
      BY OwnView, MessageFields DEF TypeOK
    <3> QED
      BY <3>1, ConstantsAssumption DEF Asking
  <2>7. Asking(c, d.pendingRound) \cup Faulty \in Supermajorities[c.members][StakingActiveNow(c)]
    BY <1>13, <2>1, <2>5, <2>6, QuorumGrows DEF IsSupermajority
  <2>8. /\ Orderly(n) /\ SameMembership(n) /\ ctx'[n].round = d.pendingRound
        /\ \A m1, m2 \in NewMsgs :
              m1.type = "preprepare" /\ m2.type = "preprepare" => m1.block = m2.block
        /\ \A x \in NewMsgs : x.type = "preprepare" =>
              /\ SameView(ctx'[n], x) /\ ExtendsChain(ctx[n], x.block)
              /\ CanBeAccepted(x) => ctx'[n].lock = x.block \/ Returning(n, x)'
    BY <1>3, <1>5, <1>9, <1>10, <1>13, <2>3, <2>4, NewRoundOrderly
  <2>9. Advancing(n)
    BY <1>2, <2>3, <2>7, <2>8 DEF Advancing, Round
  <2> QED
    BY <2>8, <2>9 DEF ViewStep
<1> QED
  BY <1>6, <1>12, <1>13

\* Handling a message with nothing else left to loop back.
LEMMA HandleStep ==
    ASSUME ViewInv, NEW n \in Honest, NEW m \in Message, m \in msgs \/ m.sender \in Faulty,
           Handle(n, m, <<>>), \A x : Returning(n, x) => x = m
    PROVE  ViewStep(n)
BY RefuseProposalStep, AcceptProposalStep, OnPrepareStep, OnCommitStep, OnRoundChangeStep DEF Handle

\* A message of its own that a node ignores is not a proposal it would accept.
LEMMA IgnoredStep ==
    ASSUME ViewInv, NEW n \in Honest, ~ Idle(n), Ignored(ctx[n], Head(loop[n])),
           Update(n, ctx[n], <<>>, Tail(loop[n]))
    PROVE  ViewStep(n)
<1>1. /\ TypeOK /\ n \in Validator /\ WorkFits(ctx[n])
      /\ loop[n] \in Seq(msgs) /\ loop[n] # <<>>
  BY OwnView DEF TypeOK, Idle
<1>2. Tail(loop[n]) \o <<>> = Tail(loop[n])
  BY <1>1
<1>3. /\ ctx'[n] = ctx[n] /\ loop'[n] = Tail(loop[n]) /\ msgs' = msgs
      /\ \A k \in Validator \ {n} : ctx'[k] = ctx[k] /\ loop'[k] = loop[k]
  BY <1>1, <1>2 DEF Update, TypeOK
<1>4. \A i \in 1 .. Len(loop'[n]) - 1 :
         loop'[n][i].type = "roundchange" /\ loop'[n][i].round <= ctx'[n].round
  BY <1>1, <1>3, OwnView
<1>5. Orderly(n)
  BY <1>1, <1>3, <1>4, OwnView DEF Orderly, NewMsgs
<1>6. ASSUME NEW m, Returning(n, m)
      PROVE  Returning(n, m)'
  <2>1. m # Head(loop[n])
    BY <1>6 DEF Returning, FromProposer, Ignored
  <2>2. Tail(loop[n]) # <<>> /\ Tail(loop[n])[Len(Tail(loop[n]))] = m
    BY <1>1, <1>6, <2>1 DEF Returning
  <2> QED
    BY <1>3, <1>6, <2>2 DEF Returning
<1>7. Working(n)
  BY <1>3, <1>6 DEF Working, SameMembership, NoProposal, NewMsgs
<1> QED
  BY <1>5, <1>7 DEF ViewStep

\* Only the last message of the queue can be handled at all.
LEMMA LoopbackStep ==
    ASSUME ViewInv, NEW n \in Honest, Loopback(n)
    PROVE  ViewStep(n)
<1> DEFINE m == Head(loop[n])
<1>1. /\ TypeOK /\ n \in Validator /\ loop[n] \in Seq(msgs) /\ loop[n] # <<>>
      /\ msgs \subseteq Message /\ ctx[n] \in Context
  BY OwnView DEF TypeOK, Idle, Loopback
<1>2. m \in msgs /\ m \in Message /\ m = loop[n][1]
  BY <1>1
<1>3. CASE Handle(n, m, Tail(loop[n]))
  <2>1. Len(loop[n]) = 1
    <3>1. SUFFICES ASSUME Len(loop[n]) # 1
                   PROVE  FALSE
      OBVIOUS
    <3>2. 1 \in 1 .. Len(loop[n]) - 1
      <4> DEFINE k == Len(loop[n])
      <4>1. k \in Nat /\ k # 0 /\ k # 1
        BY <1>1, <3>1, EmptySeq
      <4> HIDE DEF k
      <4>2. 1 \in 1 .. k - 1
        BY <4>1
      <4> QED
        BY <4>2 DEF k
    <3>3. m.type = "roundchange" /\ m.round <= ctx[n].round
      BY <1>2, <3>2, OwnView
    <3>4. FreshRoundVote(ctx[n], m)
      BY <1>3, <3>3 DEF Handle, RefuseProposal, AcceptProposal, FromProposer, OnPrepare, OnCommit,
                        OnRoundChange
    <3>5. m.round \in Nat /\ ctx[n].round \in Nat
      BY <1>1, <1>2, MessageFields, ConstantsAssumption DEF Context, Round
    <3> QED
      BY <3>3, <3>4, <3>5 DEF FreshRoundVote
  <2>2. Tail(loop[n]) = <<>>
    <3>1. Tail(loop[n]) \in Seq(msgs) /\ Len(Tail(loop[n])) = 0
      BY <1>1, <2>1
    <3> QED
      BY <3>1, EmptySeq
  <2>3. \A x : Returning(n, x) => x = m
    BY <1>2, <2>1 DEF Returning
  <2> QED
    BY <1>2, <1>3, <2>2, <2>3, HandleStep
<1>4. CASE Ignored(ctx[n], m) /\ Update(n, ctx[n], <<>>, Tail(loop[n]))
  BY <1>4, IgnoredStep DEF Loopback
<1> QED
  BY <1>3, <1>4 DEF Loopback

\* A node proposes the candidate it has built, or its lock in its place.
LEMMA UnannouncedBlockStep ==
    ASSUME ViewInv, NEW n \in Honest, UnannouncedBlock(n)
    PROVE  ViewStep(n)
<1> DEFINE c == ctx[n]
<1>1. c \in Context /\ WorkFits(c) /\ n \in Validator /\ Idle(n) /\ Height(c) \in Nat
  BY OwnView, HeightIsNat DEF UnannouncedBlock
<1>2. PICK b \in Buildable(c, n) :
        LET d    == [c EXCEPT !.myBlock = b]
            real == IF c.lock = None THEN b ELSE c.lock
        IN  IF MayPropose(c, n) /\ ExtendsChain(c, real)
            THEN /\ Update(n, [d EXCEPT !.proposal = real],
                           IF MayVote(c, n) THEN << ViewMsg("preprepare", n, c, real) >> ELSE <<>>,
                           <<>>)
                 /\ vm' = [vm EXCEPT ![n] = IF MayVote(c, n) THEN @ \cup {real} ELSE @]
            ELSE Update(n, d, <<>>, <<>>) /\ UNCHANGED vm
  BY DEF UnannouncedBlock
<1> DEFINE d    == [c EXCEPT !.myBlock = b]
           real == IF c.lock = None THEN b ELSE c.lock
           e    == [d EXCEPT !.proposal = real]
           out  == IF MayVote(c, n) THEN << ViewMsg("preprepare", n, c, real) >> ELSE <<>>
<1>3. /\ d.chain = c.chain /\ d.members = c.members /\ d.lock = c.lock /\ d.round = c.round
      /\ d.proposal = c.proposal /\ d.myBlock = b /\ d.roundChanged = c.roundChanged
  BY <1>1 DEF Context
<1>4. /\ e.chain = c.chain /\ e.members = c.members /\ e.lock = c.lock /\ e.round = c.round
      /\ e.proposal = real /\ e.myBlock = b /\ e.roundChanged = c.roundChanged
  BY <1>1 DEF Context
<1>5. b.number = Height(c) + 1 => ExtendsChain(c, b)
  <2>1. SUFFICES ASSUME c.chain # <<>>, ExtendsChain([c EXCEPT !.chain = Front(c.chain)], b)
                 PROVE  b.number = Height(c)
    BY <1>1 DEF Buildable
  <2>2. c.chain \in Seq(Entry)
    BY <1>1 DEF Context
  <2>3. Len(Front(c.chain)) = Len(c.chain) - 1
    BY <2>1, <2>2 DEF Front
  <2>4. [c EXCEPT !.chain = Front(c.chain)].chain = Front(c.chain)
    BY <1>1 DEF Context
  <2>5. b.number = Len(Front(c.chain)) + 1
    BY <2>1, <2>4 DEF ExtendsChain, Height
  <2> QED
    BY <2>2, <2>3, <2>5 DEF Height
<1>6. b \in Block /\ real # None
  BY <1>2, ConstantsAssumption DEF Buildable
<1>7. \A x : ~ Returning(n, x)
  BY <1>1 DEF Idle, Returning
<1>8. out = <<>> \/ out = << ViewMsg("preprepare", n, c, real) >>
  OBVIOUS
<1>9. \/ Update(n, e, out, <<>>) /\ MayPropose(c, n) /\ ExtendsChain(c, real)
      \/ Update(n, d, <<>>, <<>>)
  BY <1>2
<1>10. c.lock \in {None, real}
  OBVIOUS
<1> HIDE DEF d, e, out, real
<1>11. CASE Update(n, d, <<>>, <<>>)
  <2>1. WorkFits(d)
    BY <1>1, <1>3, <1>5 DEF WorkFits, ExtendsChain, HasCandidate, Height, LastBlock
  <2> QED
    BY <1>3, <1>7, <1>11, <2>1, OwnView, WorkingStep
<1>12. CASE Update(n, e, out, <<>>) /\ MayPropose(c, n) /\ ExtendsChain(c, real)
  <2>1. WorkFits(e)
    BY <1>1, <1>4, <1>5, <1>12 DEF WorkFits, ExtendsChain, HasCandidate, Height, LastBlock
  <2>2. out = <<>> \/ \E x : out = <<x>> /\ x.sender = n
    BY <1>8 DEF ViewMsg
  <2>3. /\ Orderly(n) /\ ctx'[n] = e /\ msgs' = msgs \cup {out[i] : i \in DOMAIN out}
    BY <1>4, <1>12, <2>1, <2>2, OwnView, OrderlyUpdate
  <2>4. \A i \in DOMAIN out : out[i] = ViewMsg("preprepare", n, c, real)
    <3>1. CASE out = <<>>
      BY <3>1
    <3>2. CASE out = << ViewMsg("preprepare", n, c, real) >>
      BY <3>2
    <3> QED
      BY <1>8, <3>1, <3>2
  <2>5. \A m \in NewMsgs : m = ViewMsg("preprepare", n, c, real)
    BY <2>3, <2>4 DEF NewMsgs
  <2>6. \A m \in NewMsgs : /\ SameView(c, m) /\ ExtendsChain(c, m.block)
                           /\ m.block = real /\ c.lock \in {None, m.block}
    BY <1>10, <1>12, <2>5 DEF ViewMsg, SameView
  <2>7. Proposing(n)
    BY <1>1, <1>4, <1>6, <1>12, <2>3, <2>6 DEF Proposing, SameMembership, MayPropose
  <2> QED
    BY <2>3, <2>7 DEF ViewStep
<1> QED
  BY <1>9, <1>11, <1>12

\* The VM's answer makes a node prepare, in whatever view it is then.
LEMMA AcceptPreprepareStep ==
    ASSUME ViewInv, NEW n \in Honest, AcceptPreprepare(n)
    PROVE  ViewStep(n)
<1> DEFINE c == ctx[n]
<1>1. PICK b \in Confirmed(n) :
        Update(n, c, IF MayVote(c, n) THEN << ViewMsg("prepare", n, c, b) >> ELSE <<>>, <<>>)
  BY DEF AcceptPreprepare
<1> DEFINE out == IF MayVote(c, n) THEN << ViewMsg("prepare", n, c, b) >> ELSE <<>>
<1>2. out = <<>> \/ \E m : out = <<m>> /\ m.sender = n /\ m.type # "preprepare"
  BY DEF ViewMsg
<1>3. Update(n, c, out, <<>>)
  BY <1>1
<1>4. \A x : ~ Returning(n, x)
  BY DEF AcceptPreprepare, Idle, Returning
<1> HIDE DEF out
<1> QED
  BY <1>2, <1>3, <1>4, OwnView, WorkingStep

\* Sync decides the next height in the round the node is in.
LEMMA PreviousBlockStep ==
    ASSUME ViewInv, NEW n \in Honest, PreviousBlock(n)
    PROVE  ViewStep(n)
<1>1. PICK e \in SealedBlocks : Update(n, CommitBlock(ctx[n], e.block, e.seals), <<>>, <<>>)
  BY DEF PreviousBlock
<1>2. e.block \in Block /\ e.seals \in Votes
  BY OwnView, SealedBlocksTyped
<1> QED
  BY <1>1, <1>2, DecidingStep

\* An operator forces no earlier round.
LEMMA ForcedRoundStep ==
    ASSUME ViewInv, NEW n \in Honest, ForcedRound(n)
    PROVE  ViewStep(n)
<1> DEFINE c == ctx[n]
<1>1. c \in Context /\ WorkFits(c)
  BY OwnView
<1>2. PICK r \in ForceableRounds(c) :
        Update(n, NextRound(c, n, r), Reproposal(NextRound(c, n, r), n), <<>>)
  BY DEF ForcedRound
<1>3. r \in Round /\ r >= c.round
  BY <1>1, <1>2, ConstantsAssumption DEF ForceableRounds, Context, Round
<1> DEFINE re == Reproposal(NextRound(c, n, r), n)
<1>4. <<>> \o re = re
  <2>1. re = <<>> \/ \E v : re = <<v>>
    BY DEF Reproposal
  <2> HIDE DEF re
  <2> QED
    BY <2>1
<1>5. Update(n, NextRound(c, n, r), <<>> \o re, <<>>)
  BY <1>2, <1>4
<1> HIDE DEF re
<1>6. Orderly(n) /\ ctx'[n] = NextRound(c, n, r) /\ SameMembership(n) /\ ctx'[n].round = r
  BY <1>1, <1>3, <1>5, OwnView, NewRoundOrderly DEF re
<1>7. Forced(n)
  BY <1>3, <1>6 DEF Forced, ForcedRound
<1> QED
  BY <1>6, <1>7 DEF ViewStep

\* Muting the vote leaves the view alone.
LEMMA ForcedValidatorStep ==
    ASSUME ViewInv, NEW n \in Honest, ForcedValidator(n)
    PROVE  ViewStep(n)
<1>1. PICK on \in BOOLEAN : Update(n, [ctx[n] EXCEPT !.behavior = on], <<>>, <<>>)
  BY DEF ForcedValidator
<1> DEFINE c == ctx[n]
           d == [c EXCEPT !.behavior = on]
<1>2. /\ d.chain = c.chain /\ d.members = c.members /\ d.round = c.round
      /\ d.proposal = c.proposal /\ d.lock = c.lock /\ d.myBlock = c.myBlock
      /\ d.roundChanged = c.roundChanged
  BY OwnView DEF Context
<1>3. \A x : ~ Returning(n, x)
  BY DEF ForcedValidator, Idle, Returning
<1> HIDE DEF d
<1>4. WorkFits(d)
  BY <1>2, OwnView, WorkStillFits
<1> QED
  BY <1>1, <1>2, <1>3, <1>4, OwnView, WorkingStep DEF d

\* A restart keeps the chain and forgets all work.
LEMMA RestartStep ==
    ASSUME ViewInv, NEW n \in Honest, Restart(n)
    PROVE  ViewStep(n)
<1> DEFINE c == NewContext(ctx[n].chain, ctx[n].members)
<1>1. /\ c.chain = ctx[n].chain /\ c.members = ctx[n].members
      /\ c.lock = None /\ c.proposal = None /\ c.myBlock = None
      /\ c.roundChanged = [k \in 1 .. MaxRound |-> {}]
  BY DEF NewContext
<1>2. Update(n, c, <<>>, <<>>) /\ n \in Crashing
  BY DEF Restart
<1> HIDE DEF c
<1>3. WorkFits(c)
  BY <1>1 DEF WorkFits, HasCandidate
<1>4. Orderly(n) /\ ctx'[n] = c
  BY <1>1, <1>2, <1>3, OwnView, OrderlyUpdate
<1> QED
  BY <1>1, <1>2, <1>4 DEF ViewStep, Restarted, SameMembership

\* One case per action of Next.
LEMMA ViewSteps ==
    ASSUME ViewInv, NEW n \in Honest,
           \/ Receive(n) \/ Loopback(n) \/ Timeout(n) \/ UnannouncedBlock(n)
           \/ AcceptPreprepare(n) \/ RejectPreprepare(n) \/ PreviousBlock(n)
           \/ ForcedRound(n) \/ ForcedValidator(n) \/ Restart(n)
    PROVE  ViewStep(n)
<1>1. CASE Receive(n)
  <2>1. PICK m \in msgs \cup FaultyMessage : Handle(n, m, <<>>)
    BY <1>1 DEF Receive
  <2>2. m \in Message
    BY OwnView, ReceivedTyped
  <2>3. m \in msgs \/ m.sender \in Faulty
    BY DEF FaultyMessage
  <2>4. \A x : ~ Returning(n, x)
    BY <1>1 DEF Receive, Idle, Returning
  <2> QED
    BY <2>1, <2>2, <2>3, <2>4, HandleStep
<1>2. CASE Timeout(n) \/ RejectPreprepare(n)
  <2>1. \A x : ~ Returning(n, x)
    BY <1>2 DEF Timeout, RejectPreprepare, Idle, Returning
  <2> QED
    BY <1>2, <2>1, AskingStep DEF Timeout, RejectPreprepare
<1> QED
  BY <1>1, <1>2, LoopbackStep, UnannouncedBlockStep, AcceptPreprepareStep, PreviousBlockStep,
     ForcedRoundStep, ForcedValidatorStep, RestartStep


-----------------------------------------------------------------------------
(* The invariant is inductive *)

\* A step moves no honest node down, and leaves the blocks it has built on.
LEMMA ChainsOnlyGrow ==
    ASSUME ViewInv, TypeOK', NEW n \in Honest, ViewStep(n), NEW k \in Honest
    PROVE  /\ Height(ctx[k]) \in Nat /\ Height(ctx'[k]) \in Nat
           /\ Height(ctx'[k]) = Height(ctx[k]) \/ Height(ctx'[k]) = Height(ctx[k]) + 1
           /\ \A i \in 1 .. Height(ctx[k]) + 1 : BlockBefore(ctx'[k], i) = BlockBefore(ctx[k], i)
<1>1. ctx[k].chain \in Seq(Entry)
  BY DEF ViewInv, TypeOK, Context, Honest
<1>2. CASE ctx'[k].chain = ctx[k].chain
  BY <1>1, <1>2 DEF Height, BlockBefore
<1>3. CASE \E e : ctx'[k].chain = Append(ctx[k].chain, e)
  <2>1. PICK e : ctx'[k].chain = Append(ctx[k].chain, e)
    BY <1>3
  <2>2. /\ Len(ctx'[k].chain) = Len(ctx[k].chain) + 1
        /\ \A i \in 1 .. Len(ctx[k].chain) : ctx'[k].chain[i] = ctx[k].chain[i]
        /\ Len(ctx[k].chain) \in Nat
    BY <1>1, <2>1
  <2>3. ASSUME NEW i \in 1 .. Len(ctx[k].chain) + 1
        PROVE  BlockBefore(ctx'[k], i) = BlockBefore(ctx[k], i)
    <3>1. i # 1 => i - 1 \in 1 .. Len(ctx[k].chain)
      BY <2>2
    <3> QED
      BY <2>2, <3>1 DEF BlockBefore
  <2> QED
    BY <2>2, <2>3 DEF Height
<1>4. k # n => ctx'[k] = ctx[k]
  BY DEF ViewStep, Orderly, Honest
<1> QED
  BY <1>2, <1>3, <1>4
     DEF ViewStep, SameMembership, Working, Proposing, Advancing, Deciding, Forced, Restarted

\* Votes counted stay backed: the votes sent stay, and heights only grow.
LEMMA RoundVotesStayBacked ==
    ASSUME ViewInv, TypeOK', NEW n \in Honest, ViewStep(n)
    PROVE  RoundVotesAreBacked'
<1> SUFFICES ASSUME NEW k \in Honest, NEW r \in 1 .. MaxRound, NEW v \in ctx'[k].roundChanged[r]
             PROVE  AskedFor(v, r, Height(ctx[k]))'
  BY DEF RoundVotesAreBacked
<1>1. AskedFor(v, r, Height(ctx[k]))
  <2>1. CASE k = n
    BY <2>1 DEF ViewStep, Orderly
  <2>2. CASE k # n
    BY <2>2 DEF ViewStep, Orderly, ViewInv, RoundVotesAreBacked, Honest
  <2> QED
    BY <2>1, <2>2
<1>2. CASE v \in Faulty
  BY <1>2 DEF AskedFor
<1>3. CASE \E m \in msgs : /\ m.type = "roundchange" /\ m.sender = v /\ m.round = r
                           /\ m.height <= Height(ctx[k])
  <2>1. PICK m \in msgs : /\ m.type = "roundchange" /\ m.sender = v /\ m.round = r
                          /\ m.height <= Height(ctx[k])
    BY <1>3
  <2>2. m.height \in Nat
    BY MessageFields DEF ViewInv, TypeOK
  <2>3. m.height <= Height(ctx'[k])
    BY <2>1, <2>2, ChainsOnlyGrow
  <2>4. m \in msgs'
    BY DEF ViewStep, Orderly
  <2> QED
    BY <2>1, <2>3, <2>4 DEF AskedFor
<1> QED
  BY <1>1, <1>2, <1>3 DEF AskedFor

\* What n has proposed binds it after the step too.
LEMMA OldProposalsBind ==
    ASSUME ViewInv, TypeOK', NEW n \in Steady \ Operated, ViewStep(n),
           NEW m \in msgs, m.type = "preprepare", m.sender = n
    PROVE  ProposalBinds(n, m)'
<1> DEFINE c == ctx[n]
           d == ctx'[n]
<1>1. /\ n \in Honest /\ n \in Validator /\ ~ Forced(n) /\ ~ Restarted(n)
  BY DEF Steady, Honest, Forced, Restarted
<1>2. ProposalBinds(n, m) /\ m.height \in Nat /\ m.round \in Nat /\ m.block \in Block
  BY MessageFields, ConstantsAssumption DEF ViewInv, ProposalsBind, TypeOK, Round
<1>3. /\ c.round \in Nat /\ d.round \in Nat
  BY <1>1, ConstantsAssumption DEF ViewInv, TypeOK, Context, Round
<1>4. /\ Height(c) \in Nat /\ Height(d) \in Nat
      /\ Height(d) = Height(c) \/ Height(d) = Height(c) + 1
      /\ \A i \in 1 .. Height(c) + 1 : BlockBefore(d, i) = BlockBefore(c, i)
  BY <1>1, ChainsOnlyGrow
<1>5. SameMembership(n) => Height(d) = Height(c)
  BY DEF SameMembership, Height
<1>6. m.height + 1 \in 1 .. Height(c) + 1
  BY <1>2, <1>3, <1>4 DEF ProposalBinds
<1>7. Deciding(n) => Height(d) = Height(c) + 1
  <2>1. c.chain \in Seq(Entry)
    BY <1>1 DEF ViewInv, TypeOK, Context
  <2> QED
    BY <2>1 DEF Deciding, Height
<1>8. \/ Height(d) = Height(c) /\ d.round >= c.round
      \/ Height(d) = Height(c) + 1
  BY <1>1, <1>3, <1>4, <1>5, <1>7 DEF ViewStep, Working, Proposing, Advancing
<1>9. m.height < Height(d) \/ (m.height = Height(d) /\ m.round <= d.round)
  BY <1>2, <1>3, <1>4, <1>8 DEF ProposalBinds
<1>10. ASSUME SameView(d, m), CanBeAccepted(m)
      PROVE  d.proposal # None \/ d.lock = m.block \/ Returning(n, m)'
  <2>1. CASE Working(n)
    <3>1. SameView(c, m)
      BY <1>5, <1>10, <2>1 DEF SameView, Working
    <3>2. c.proposal # None \/ c.lock = m.block \/ Returning(n, m)
      BY <1>2, <1>10, <3>1 DEF ProposalBinds
    <3> QED
      BY <2>1, <3>2 DEF Working
  <2>2. CASE Proposing(n)
    BY <2>2 DEF Proposing
  <2>3. CASE Advancing(n)
    BY <1>2, <1>3, <1>4, <1>5, <1>10, <2>3 DEF Advancing, SameView, ProposalBinds
  <2>4. CASE Deciding(n)
    BY <1>2, <1>3, <1>4, <1>10, <1>7, <2>4 DEF SameView, ProposalBinds
  <2> QED
    BY <1>1, <2>1, <2>2, <2>3, <2>4 DEF ViewStep
<1>11. /\ m.block.number = m.height + 1
       /\ m.block.parent = BlockBefore(d, m.height + 1)
  BY <1>2, <1>4, <1>6 DEF ProposalBinds
<1> QED
  BY <1>9, <1>10, <1>11 DEF ProposalBinds

\* What n proposes in a step binds it from then on.
LEMMA NewProposalsBind ==
    ASSUME ViewInv, TypeOK', NEW n \in Steady \ Operated, ViewStep(n),
           NEW m \in NewMsgs, m.type = "preprepare"
    PROVE  ProposalBinds(n, m)'
<1> DEFINE c == ctx[n]
           d == ctx'[n]
<1>1. n \in Honest /\ ~ Forced(n) /\ ~ Restarted(n) /\ Height(c) \in Nat
  BY HeightIsNat DEF Steady, Honest, Forced, Restarted, ViewInv, TypeOK
<1>2. d.chain = c.chain /\ SameView(d, m) /\ ExtendsChain(c, m.block)
  BY <1>1 DEF ViewStep, Working, NoProposal, Proposing, Advancing, Deciding, SameMembership, SameView, Height
<1>3. /\ m.height = Height(c) /\ Height(d) = Height(c) /\ m.round = d.round
      /\ m.block.number = Height(c) + 1 /\ m.block.parent = LastBlock(c)
  BY <1>2 DEF SameView, ExtendsChain, Height
<1>4. LastBlock(c) = BlockBefore(d, Height(c) + 1)
  <2>1. c.chain \in Seq(Entry)
    BY <1>1 DEF ViewInv, TypeOK, Context, Honest
  <2>2. c.chain = <<>> <=> Len(c.chain) = 0
    BY <2>1, EmptySeq
  <2> QED
    BY <1>1, <1>2, <2>1, <2>2 DEF LastBlock, BlockBefore, Height
<1>5. d.round \in Nat
  BY <1>1, ConstantsAssumption DEF TypeOK, Context, Round, Honest
<1>6. CanBeAccepted(m) => d.proposal # None \/ d.lock = m.block \/ Returning(n, m)'
  BY <1>1 DEF ViewStep, Working, NoProposal, Proposing, Advancing, Deciding
<1> QED
  BY <1>1, <1>3, <1>4, <1>5, <1>6 DEF ProposalBinds

\* A second proposal for a view is the first one again.
LEMMA StillOneProposal ==
    ASSUME ViewInv, TypeOK', ProposalsBind', NEW n \in Honest, ViewStep(n)
    PROVE  OneProposalPerView'
<1>1. ASSUME NEW m1 \in msgs, NEW m2 \in NewMsgs,
             m1.type = "preprepare", m2.type = "preprepare",
             m1.sender = m2.sender, m1.sender \in Steady \ Operated,
             m1.height = m2.height, m1.round = m2.round, CanBeAccepted(m1)
      PROVE  m1.block = m2.block
  <2> DEFINE c == ctx[n]
  <2>1. m2.sender = n /\ n \in Steady \ Operated /\ ~ Forced(n) /\ ~ Restarted(n)
    BY <1>1 DEF ViewStep, Orderly, Steady, Forced, Restarted
  <2>2. /\ ProposalBinds(n, m1) /\ m1.height \in Nat /\ m1.round \in Nat
        /\ m1.block \in Block /\ m1.block # None
    BY <1>1, <2>1, MessageFields, ConstantsAssumption DEF ViewInv, ProposalsBind, TypeOK, Round
  <2>3. Height(c) \in Nat /\ c.round \in Nat /\ ctx'[n].round \in Nat
    <3>1. c \in Context /\ ctx'[n] \in Context
      BY DEF ViewInv, TypeOK, Honest
    <3>2. c.round \in Round /\ ctx'[n].round \in Round
      BY <3>1 DEF Context
    <3> QED
      BY <3>1, <3>2, HeightIsNat, ConstantsAssumption
  <2>4. CASE Proposing(n)
    <3>1. SameView(c, m1)
      BY <1>1, <2>4 DEF Proposing, SameView
    <3>2. c.lock = m1.block
      BY <1>1, <2>2, <2>4, <3>1 DEF ProposalBinds, Proposing, Returning, Idle
    <3>3. c.lock \in {None, m2.block}
      BY <1>1, <2>4 DEF Proposing
    <3> QED
      BY <2>2, <3>2, <3>3
  <2>5. CASE Advancing(n)
    <3>1. SameView(ctx'[n], m2) /\ Height(ctx'[n]) = Height(c)
      BY <1>1, <2>5 DEF Advancing, SameMembership, Height
    <3> QED
      BY <1>1, <2>2, <2>3, <2>5, <3>1 DEF ProposalBinds, Advancing, SameView
  <2>6. ~ Working(n) /\ ~ Deciding(n)
    BY <1>1 DEF Working, NoProposal, Deciding
  <2> QED
    BY <2>1, <2>4, <2>5, <2>6 DEF ViewStep
<1>2. ASSUME NEW m1 \in NewMsgs, NEW m2 \in NewMsgs,
             m1.type = "preprepare", m2.type = "preprepare", m1.sender \in Steady \ Operated
      PROVE  m1.block = m2.block
  <2>1. n \in Steady \ Operated /\ ~ Forced(n) /\ ~ Restarted(n)
    BY <1>2 DEF ViewStep, Orderly, Steady, Forced, Restarted
  <2> QED
    BY <1>2, <2>1 DEF ViewStep, Working, NoProposal, Proposing, Advancing, Deciding
<1>3. ASSUME NEW m1 \in msgs', NEW m2 \in msgs',
             m1.type = "preprepare", m2.type = "preprepare",
             m1.sender = m2.sender, m1.sender \in Steady \ Operated,
             m1.height = m2.height, m1.round = m2.round, CanBeAccepted(m1)
      PROVE  CanBeAccepted(m2)
  <2>1. ProposalBinds(m1.sender, m1)' /\ ProposalBinds(m1.sender, m2)'
    BY <1>3 DEF ProposalsBind
  <2>2. m1.block.number = m2.block.number /\ m1.block.parent = m2.block.parent
    BY <1>3, <2>1 DEF ProposalBinds
  <2> QED
    BY <1>3, <2>2 DEF CanBeAccepted
<1>4. ASSUME NEW m1 \in msgs', NEW m2 \in msgs',
             m1.type = "preprepare", m2.type = "preprepare",
             m1.sender = m2.sender, m1.sender \in Steady \ Operated,
             m1.height = m2.height, m1.round = m2.round, CanBeAccepted(m1)
      PROVE  m1.block = m2.block
  <2>1. CASE m1 \in msgs /\ m2 \in msgs
    BY <1>4, <2>1 DEF ViewInv, OneProposalPerView
  <2>2. CASE m1 \in msgs /\ m2 \notin msgs
    BY <1>1, <1>4, <2>2 DEF NewMsgs
  <2>3. CASE m1 \notin msgs /\ m2 \in msgs
    BY <1>1, <1>3, <1>4, <2>3 DEF NewMsgs
  <2>4. CASE m1 \notin msgs /\ m2 \notin msgs
    BY <1>2, <1>4, <2>4 DEF NewMsgs
  <2> QED
    BY <2>1, <2>2, <2>3, <2>4
<1> QED
  BY <1>4 DEF OneProposalPerView, CanBeAccepted

\* Every step preserves the invariant.
LEMMA NextViewInv ==
    ASSUME ViewInv, [Next]_vars
    PROVE  ViewInv'
<1>1. TypeOK'
  BY NextTyped DEF ViewInv
<1>2. CASE UNCHANGED vars
  <2>1. ctx' = ctx /\ msgs' = msgs /\ loop' = loop
    BY <1>2 DEF vars
  <2>2. RoundVotesAreBacked'
    BY <2>1 DEF ViewInv, RoundVotesAreBacked, AskedFor
  <2>3. OnlyLastIsLive' /\ OneProposalPerView' /\ \A n \in Honest : WorkFits(ctx'[n])
    BY <2>1 DEF ViewInv, OnlyLastIsLive, OneProposalPerView
  <2>4. ProposalsBind'
    BY <2>1 DEF ViewInv, ProposalsBind, ProposalBinds, Returning
  <2> QED
    BY <1>1, <2>2, <2>3, <2>4 DEF ViewInv
<1>3. ASSUME NEW n \in Honest, ViewStep(n)
      PROVE  ViewInv'
  <2>1. RoundVotesAreBacked'
    BY <1>1, <1>3, RoundVotesStayBacked
  <2>2. OnlyLastIsLive' /\ \A k \in Honest : WorkFits(ctx'[k])
    BY <1>3 DEF ViewStep, Orderly, ViewInv, OnlyLastIsLive, Honest
  <2>3. ProposalsBind'
    <3> SUFFICES ASSUME NEW m \in msgs', m.type = "preprepare", m.sender \in Steady \ Operated
                 PROVE  ProposalBinds(m.sender, m)'
      BY DEF ProposalsBind
    <3>1. CASE m.sender = n /\ m \in msgs
      BY <1>1, <1>3, <3>1, OldProposalsBind
    <3>2. CASE m \notin msgs
      BY <1>1, <1>3, <3>2, NewProposalsBind DEF NewMsgs, ViewStep, Orderly
    <3>3. CASE m.sender # n /\ m \in msgs
      <4>1. /\ ProposalBinds(m.sender, m) /\ m.sender \in Validator
        BY <3>3 DEF ViewInv, ProposalsBind, Steady
      <4>2. ctx'[m.sender] = ctx[m.sender] /\ loop'[m.sender] = loop[m.sender]
        BY <1>3, <3>3, <4>1 DEF ViewStep, Orderly
      <4> QED
        BY <4>1, <4>2 DEF ProposalBinds, Returning
    <3> QED
      BY <3>1, <3>2, <3>3
  <2>4. OneProposalPerView'
    BY <1>1, <1>3, <2>3, StillOneProposal
  <2> QED
    BY <1>1, <2>1, <2>2, <2>3, <2>4 DEF ViewInv
<1> QED
  BY <1>2, <1>3, ViewSteps DEF Next

\* The invariant holds at genesis.
LEMMA InitViewInv ==
    ASSUME Init
    PROVE  ViewInv
<1>1. /\ msgs = {} /\ loop = [n \in Validator |-> <<>>]
      /\ \A n \in Validator : /\ ctx[n].proposal = None /\ ctx[n].lock = None /\ ctx[n].myBlock = None
                              /\ ctx[n].roundChanged = [k \in 1 .. MaxRound |-> {}]
  BY DEF Init, NewContext
<1>2. RoundVotesAreBacked
  BY <1>1 DEF RoundVotesAreBacked, Honest
<1>3. OnlyLastIsLive
  BY <1>1 DEF OnlyLastIsLive, Honest
<1>4. ProposalsBind /\ OneProposalPerView
  BY <1>1 DEF ProposalsBind, OneProposalPerView
<1>5. \A n \in Honest : WorkFits(ctx[n])
  BY <1>1 DEF WorkFits, HasCandidate, Honest
<1> QED
  BY <1>2, <1>3, <1>4, <1>5, InitTyped DEF ViewInv

-----------------------------------------------------------------------------
(* What follows from it, whatever part of the validators is faulty *)

\* Views and proposals hang together as ViewInv says in every reachable state.
THEOREM ViewInvariance == Spec => []ViewInv
<1>1. Init => ViewInv
  BY InitViewInv
<1>2. ViewInv /\ [Next]_vars => ViewInv'
  BY NextViewInv
<1> QED
  BY <1>1, <1>2, PTL DEF Spec

\* In a view a node proposes at most one block that can be accepted, unless an
\* operator forces its round or it restarts.
THEOREM OneProposalHolds == Spec => []OneProposalPerView
<1>1. ViewInv => OneProposalPerView
  BY DEF ViewInv
<1> QED
  BY <1>1, ViewInvariance, PTL

\* Without a restart no step takes a node back to an earlier view.
THEOREM ViewsOnlyGrow == Spec => ViewNeverGoesBack
<1> DEFINE Up(n) == \/ Height(ctx'[n]) > Height(ctx[n])
                    \/ Height(ctx'[n]) = Height(ctx[n]) /\ ctx'[n].round >= ctx[n].round
<1>1. ASSUME ViewInv, TypeOK', [Next]_vars, NEW k \in Honest \ Crashing
      PROVE  Up(k)
  <2>1. /\ ctx[k].round \in Nat /\ Height(ctx[k]) \in Nat
    BY <1>1, OwnView, HeightIsNat, ConstantsAssumption DEF Context, Round
  <2>2. CASE ctx'[k] = ctx[k]
    BY <2>1, <2>2
  <2>3. ASSUME ViewStep(k)
        PROVE  Up(k)
    <3>1. CASE SameMembership(k) /\ ctx'[k].round >= ctx[k].round
      BY <2>1, <3>1 DEF SameMembership, Height
    <3>2. CASE Deciding(k)
      <4>1. ctx[k].chain \in Seq(Entry)
        BY <1>1, OwnView DEF Context
      <4> QED
        BY <2>1, <3>2, <4>1 DEF Deciding, Height
    <3>3. ctx'[k].round \in Nat
      BY <1>1, ConstantsAssumption DEF TypeOK, Context, Round, Honest
    <3>4. ~ Restarted(k)
      BY <1>1 DEF Restarted
    <3> QED
      BY <2>1, <2>3, <3>1, <3>2, <3>3, <3>4 DEF ViewStep, Working, Proposing, Advancing, Forced
  <2>4. ASSUME NEW n \in Honest, ViewStep(n), k # n
        PROVE  ctx'[k] = ctx[k]
    BY <1>1, <2>4 DEF ViewStep, Orderly, Honest
  <2>5. UNCHANGED vars => ctx'[k] = ctx[k]
    BY DEF vars
  <2> QED
    BY <1>1, <2>2, <2>3, <2>4, <2>5, ViewSteps DEF Next
<1>2. ViewInv /\ TypeOK' /\ [Next]_vars
        => [\A n \in Honest \ Crashing :
              \/ Height(ctx'[n]) > Height(ctx[n])
              \/ Height(ctx'[n]) = Height(ctx[n]) /\ ctx'[n].round >= ctx[n].round]_vars
  BY <1>1
<1>3. ViewInv => TypeOK
  BY DEF ViewInv
<1> QED
  BY <1>2, <1>3, ViewInvariance, PTL DEF Spec, ViewNeverGoesBack

\* Without an operator or a restart, a node leaves its round only if faulty
\* members and members that have asked for a later round, none later than the
\* one it enters, are a supermajority.
THEOREM RoundsHaveBackers == Spec => RoundsAreAskedFor
<1>1. ASSUME ViewInv, [Next]_vars, NEW k \in Honest \ (Operated \cup Crashing),
             ctx'[k].round > ctx[k].round
      PROVE  Asking(ctx[k], ctx'[k].round) \cup Faulty
                \in Supermajorities[ctx[k].members][StakingActiveNow(ctx[k])]
  <2>1. ctx[k].round \in Nat
    BY <1>1, OwnView, ConstantsAssumption DEF Context, Round
  <2>2. ctx'[k] # ctx[k]
    BY <1>1, <2>1
  <2>3. ASSUME NEW n \in Honest, ViewStep(n)
        PROVE  k = n
    BY <1>1, <2>2, <2>3 DEF ViewStep, Orderly, Honest
  <2>4. ViewStep(k)
    BY <1>1, <2>2, <2>3, ViewSteps DEF Next, vars
  <2>5. ~ Forced(k) /\ ~ Restarted(k)
    BY <1>1 DEF Forced, Restarted
  <2> QED
    BY <1>1, <2>1, <2>4, <2>5 DEF ViewStep, Working, Proposing, Advancing, Deciding
<1>2. ViewInv /\ [Next]_vars
        => [\A n \in Honest \ (Operated \cup Crashing) :
              ctx'[n].round > ctx[n].round =>
                 Asking(ctx[n], ctx'[n].round) \cup Faulty
                    \in Supermajorities[ctx[n].members][StakingActiveNow(ctx[n])]]_vars
  BY <1>1
<1> QED
  BY <1>2, ViewInvariance, PTL DEF Spec, RoundsAreAskedFor
=============================================================================
