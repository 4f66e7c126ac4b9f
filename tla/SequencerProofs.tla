--------------------------- MODULE SequencerProofs ----------------------------
(***************************************************************************)
(* What the sequencer's log and records keep through any order of blocks,  *)
(* deletions and crashes, for every chain and every number of crashes.     *)
(***************************************************************************)
EXTENDS SequencerSafety, SequenceTheorems, FiniteSetTheorems, TLAPS

-----------------------------------------------------------------------------
(* Gapless sequences *)

\* A block's parent is a block or genesis.
LEMMA ParentIsHash == ASSUME NEW b \in Block PROVE b \in Hash /\ b.parent \in Hash
BY SequencerAssumption DEF Hash

\* The members of a concatenation are those of its parts.
LEMMA MembersOfConcat ==
    ASSUME NEW S, NEW s \in Seq(S), NEW t \in Seq(S)
    PROVE  Members(s \o t) = Members(s) \cup Members(t)
<1>1. /\ Len(s) \in Nat /\ DOMAIN s = 1 .. Len(s)
      /\ Len(t) \in Nat /\ DOMAIN t = 1 .. Len(t)
  BY LenProperties
<1>2. /\ s \o t \in Seq(S) /\ Len(s \o t) = Len(s) + Len(t)
      /\ \A i \in 1 .. Len(s) + Len(t) :
            (s \o t)[i] = IF i <= Len(s) THEN s[i] ELSE t[i - Len(s)]
  BY ConcatProperties
<1>3. DOMAIN (s \o t) = 1 .. Len(s) + Len(t)
  BY <1>2, LenProperties
<1>4. ASSUME NEW i \in DOMAIN s PROVE s[i] \in Members(s \o t)
  <2>1. i \in 1 .. Len(s) + Len(t) /\ (s \o t)[i] = s[i]
    BY <1>1, <1>2
  <2> QED
    BY <2>1, <1>3 DEF Members
<1>5. ASSUME NEW i \in DOMAIN t PROVE t[i] \in Members(s \o t)
  <2>1. /\ Len(s) + i \in 1 .. Len(s) + Len(t)
        /\ (s \o t)[Len(s) + i] = t[i]
    BY <1>1, <1>2
  <2> QED
    BY <2>1, <1>3 DEF Members
<1>6. ASSUME NEW i \in 1 .. Len(s) + Len(t)
      PROVE  (s \o t)[i] \in Members(s) \cup Members(t)
  <2>1. CASE i <= Len(s)
    BY <2>1, <1>1, <1>2 DEF Members
  <2>2. CASE i > Len(s)
    <3>1. i - Len(s) \in DOMAIN t /\ (s \o t)[i] = t[i - Len(s)]
      BY <2>2, <1>1, <1>2
    <3> QED
      BY <3>1 DEF Members
  <2> QED
    BY <2>1, <2>2, <1>1
<1> QED
  BY <1>3, <1>4, <1>5, <1>6 DEF Members

\* What a gapless sequence begins with is gapless.
LEMMA PrefixHasNoGap ==
    ASSUME NEW S, NEW s \in Seq(S), NEW t \in Seq(S), NoGap(s \o t)
    PROVE  NoGap(s)
<1>1. Len(s) \in Nat /\ DOMAIN s = 1 .. Len(s) /\ Len(t) \in Nat
  BY LenProperties
<1>2. /\ s \o t \in Seq(S) /\ Len(s \o t) = Len(s) + Len(t)
      /\ \A i \in 1 .. Len(s) + Len(t) :
            (s \o t)[i] = IF i <= Len(s) THEN s[i] ELSE t[i - Len(s)]
  BY ConcatProperties
<1>3. DOMAIN (s \o t) = 1 .. Len(s) + Len(t)
  BY <1>2, LenProperties
<1> SUFFICES ASSUME NEW i \in 1 .. Len(s), s[i] # Genesis
             PROVE  \E j \in 1 .. i - 1 : s[j] = s[i].parent
  BY <1>1 DEF NoGap
<1>4. i \in DOMAIN (s \o t) /\ (s \o t)[i] = s[i]
  BY <1>1, <1>2, <1>3
<1>5. PICK j \in 1 .. i - 1 : (s \o t)[j] = s[i].parent
  BY <1>4 DEF NoGap
<1>6. j \in 1 .. Len(s) + Len(t) /\ j <= Len(s)
  BY <1>1
<1>7. (s \o t)[j] = s[j]
  BY <1>6, <1>2
<1> QED
  BY <1>5, <1>7

\* A gapless sequence may go on with a block whose parent it holds.
LEMMA AppendLeavesNoGap ==
    ASSUME NEW S, NEW s \in Seq(S), NEW b \in S, NoGap(s), b.parent \in Members(s)
    PROVE  NoGap(Append(s, b)) /\ Members(Append(s, b)) = Members(s) \cup {b}
<1>1. Len(s) \in Nat /\ DOMAIN s = 1 .. Len(s)
  BY LenProperties
<1>2. /\ Append(s, b) \in Seq(S) /\ Len(Append(s, b)) = Len(s) + 1
      /\ \A i \in 1 .. Len(s) : Append(s, b)[i] = s[i]
      /\ Append(s, b)[Len(s) + 1] = b
  BY AppendProperties
<1>3. DOMAIN Append(s, b) = 1 .. Len(s) + 1
  BY <1>2, LenProperties
<1>4. ASSUME NEW i \in 1 .. Len(s) + 1, Append(s, b)[i] # Genesis
      PROVE  \E j \in 1 .. i - 1 : Append(s, b)[j] = Append(s, b)[i].parent
  <2>1. CASE i = Len(s) + 1
    <3>1. PICK j \in 1 .. Len(s) : s[j] = b.parent
      BY <1>1 DEF Members
    <3> QED
      BY <2>1, <3>1, <1>1, <1>2
  <2>2. CASE i # Len(s) + 1
    <3>1. i \in 1 .. Len(s) /\ Append(s, b)[i] = s[i]
      BY <2>2, <1>1, <1>2
    <3>2. PICK j \in 1 .. i - 1 : s[j] = s[i].parent
      BY <3>1, <1>1, <1>4 DEF NoGap
    <3>3. Append(s, b)[j] = s[j]
      BY <3>1, <1>1, <1>2
    <3> QED
      BY <3>1, <3>2, <3>3
  <2> QED
    BY <2>1, <2>2
<1>5. NoGap(Append(s, b))
  BY <1>3, <1>4 DEF NoGap
<1>6. ASSUME NEW i \in 1 .. Len(s) + 1 PROVE Append(s, b)[i] \in Members(s) \cup {b}
  BY <1>1, <1>2 DEF Members
<1>7. ASSUME NEW i \in 1 .. Len(s) PROVE s[i] \in Members(Append(s, b))
  <2>1. i \in 1 .. Len(s) + 1 /\ Append(s, b)[i] = s[i]
    BY <1>1, <1>2
  <2> QED
    BY <2>1, <1>3 DEF Members
<1>8. b \in Members(Append(s, b))
  <2>1. Len(s) + 1 \in 1 .. Len(s) + 1
    BY <1>1
  <2> QED
    BY <2>1, <1>2, <1>3 DEF Members
<1>9. Members(Append(s, b)) \subseteq Members(s) \cup {b}
  BY <1>3, <1>6 DEF Members
<1>10. Members(s) \subseteq Members(Append(s, b))
  BY <1>1, <1>7 DEF Members
<1> QED
  BY <1>5, <1>8, <1>9, <1>10

\* Splitting a sequence where a chunk ends loses nothing.
LEMMA ChunkAndRest ==
    ASSUME NEW S, NEW s \in Seq(S), NEW p \in Seq(S), NEW k \in 1 .. Len(p)
    PROVE  LET done == s \o SubSeq(p, 1, k)
               rest == SubSeq(p, k + 1, Len(p))
           IN  done \in Seq(S) /\ rest \in Seq(S) /\ done \o rest = s \o p
<1> DEFINE chunk == SubSeq(p, 1, k)
           done  == s \o chunk
           rest  == SubSeq(p, k + 1, Len(p))
<1>1. /\ Len(p) \in Nat /\ p \in [1 .. Len(p) -> S] /\ Len(s) \in Nat
  BY LenProperties
<1>2. /\ chunk \in Seq(S) /\ Len(chunk) = k
      /\ \A i \in 1 .. k : chunk[i] = p[i]
  <2>1. \A i \in 1 .. k : p[i] \in S
    BY <1>1
  <2> QED
    BY <1>1, <2>1, SubSeqProperties
<1>3. /\ rest \in Seq(S) /\ Len(rest) = Len(p) - k
      /\ \A i \in 1 .. Len(p) - k : rest[i] = p[k + i]
  <2>1. \A i \in k + 1 .. Len(p) : p[i] \in S
    BY <1>1
  <2>2. /\ SubSeq(p, k + 1, Len(p)) \in Seq(S)
        /\ Len(SubSeq(p, k + 1, Len(p))) = IF k + 1 <= Len(p) THEN Len(p) - (k + 1) + 1 ELSE 0
        /\ \A i \in 1 .. Len(p) - (k + 1) + 1 :
              SubSeq(p, k + 1, Len(p))[i] = p[(k + 1) + i - 1]
    BY <1>1, <2>1, SubSeqProperties
  <2> QED
    BY <1>1, <2>2
<1> HIDE DEF chunk, rest
<1>4. /\ done \in Seq(S) /\ Len(done) = Len(s) + k
      /\ \A i \in 1 .. Len(s) + k : done[i] = IF i <= Len(s) THEN s[i] ELSE chunk[i - Len(s)]
  BY <1>2, ConcatProperties
<1> HIDE DEF done
<1>5. /\ done \o rest \in Seq(S) /\ Len(done \o rest) = Len(s) + Len(p)
      /\ \A i \in 1 .. Len(s) + Len(p) :
            (done \o rest)[i] = IF i <= Len(s) + k THEN done[i] ELSE rest[i - (Len(s) + k)]
  <2>1. /\ done \o rest \in Seq(S) /\ Len(done \o rest) = Len(done) + Len(rest)
        /\ \A i \in 1 .. Len(done) + Len(rest) :
              (done \o rest)[i] = IF i <= Len(done) THEN done[i] ELSE rest[i - Len(done)]
    BY <1>3, <1>4, ConcatProperties
  <2> QED
    BY <2>1, <1>1, <1>3, <1>4
<1>6. /\ s \o p \in Seq(S) /\ Len(s \o p) = Len(s) + Len(p)
      /\ \A i \in 1 .. Len(s) + Len(p) : (s \o p)[i] = IF i <= Len(s) THEN s[i] ELSE p[i - Len(s)]
  BY ConcatProperties
<1>7. ASSUME NEW i \in 1 .. Len(s) + Len(p) PROVE (done \o rest)[i] = (s \o p)[i]
  <2>1. CASE i <= Len(s)
    BY <2>1, <1>1, <1>4, <1>5, <1>6
  <2>2. CASE i > Len(s) /\ i <= Len(s) + k
    <3>1. i - Len(s) \in 1 .. k
      BY <2>2, <1>1
    <3> QED
      BY <3>1, <2>2, <1>1, <1>2, <1>4, <1>5, <1>6
  <2>3. CASE i > Len(s) + k
    <3>1. /\ i - (Len(s) + k) \in 1 .. Len(p) - k
          /\ k + (i - (Len(s) + k)) = i - Len(s)
      BY <2>3, <1>1
    <3>2. rest[i - (Len(s) + k)] = p[i - Len(s)]
      BY <3>1, <1>3
    <3>3. (done \o rest)[i] = rest[i - (Len(s) + k)]
      BY <2>3, <1>1, <1>5
    <3>4. (s \o p)[i] = p[i - Len(s)]
      BY <2>3, <1>1, <1>6
    <3> QED
      BY <3>2, <3>3, <3>4
  <2>4. \/ i <= Len(s)
        \/ i > Len(s) /\ i <= Len(s) + k
        \/ i > Len(s) + k
    BY <1>1
  <2> QED
    BY <2>1, <2>2, <2>3, <2>4, Zenon
<1>8. done \o rest = s \o p
  <2> DEFINE a == done \o rest
             b == s \o p
  <2>1. /\ a \in Seq(S) /\ b \in Seq(S) /\ Len(a) = Len(b)
        /\ \A i \in 1 .. Len(a) : a[i] = b[i]
    BY <1>5, <1>6, <1>7
  <2> HIDE DEF a, b
  <2>2. a = b
    BY <2>1, SeqEqual
  <2> QED
    BY <2>2 DEF a, b
<1> QED
  BY <1>3, <1>4, <1>8 DEF done, rest, chunk

\* How often a block occurs in a sequence, as it goes on with a block.
LEMMA TimesAppend ==
    ASSUME NEW S, NEW s \in Seq(S), NEW c \in S, NEW b
    PROVE  /\ Times(s, b) \in Nat
           /\ Times(Append(s, c), b) = IF b = c THEN Times(s, b) + 1 ELSE Times(s, b)
<1> DEFINE A == {i \in DOMAIN s : s[i] = b}
           B == {i \in DOMAIN Append(s, c) : Append(s, c)[i] = b}
<1>1. Len(s) \in Nat /\ DOMAIN s = 1 .. Len(s)
  BY LenProperties
<1>2. /\ Append(s, c) \in Seq(S) /\ Len(Append(s, c)) = Len(s) + 1
      /\ \A i \in 1 .. Len(s) : Append(s, c)[i] = s[i]
      /\ Append(s, c)[Len(s) + 1] = c
  BY AppendProperties
<1>3. DOMAIN Append(s, c) = 1 .. Len(s) + 1
  BY <1>2, LenProperties
<1>4. IsFiniteSet(A)
  <2>1. IsFiniteSet(1 .. Len(s)) /\ A \subseteq 1 .. Len(s)
    BY <1>1, FS_Interval
  <2> QED
    BY <2>1, FS_Subset
<1>5. 1 .. Len(s) + 1 = (1 .. Len(s)) \cup {Len(s) + 1} /\ Len(s) + 1 \notin 1 .. Len(s)
  BY <1>1
<1>6. B = IF b = c THEN A \cup {Len(s) + 1} ELSE A
  BY <1>1, <1>2, <1>3, <1>5
<1>7. Len(s) + 1 \notin A
  BY <1>1, <1>5
<1> HIDE DEF A, B
<1>8. Cardinality(A) \in Nat /\ Cardinality(A \cup {Len(s) + 1}) = Cardinality(A) + 1
  BY <1>4, <1>7, FS_CardinalityType, FS_AddElement
<1> QED
  BY <1>6, <1>8 DEF Times, A, B

\* A block occurs no more often in what a sequence begins with.
LEMMA TimesPrefix ==
    ASSUME NEW S, NEW s \in Seq(S), NEW t \in Seq(S), NEW b
    PROVE  /\ Times(s, b) \in Nat /\ Times(s \o t, b) \in Nat
           /\ Times(s, b) <= Times(s \o t, b)
<1> DEFINE A == {i \in DOMAIN s : s[i] = b}
           B == {i \in DOMAIN (s \o t) : (s \o t)[i] = b}
<1>1. Len(s) \in Nat /\ DOMAIN s = 1 .. Len(s) /\ Len(t) \in Nat
  BY LenProperties
<1>2. /\ s \o t \in Seq(S) /\ Len(s \o t) = Len(s) + Len(t)
      /\ \A i \in 1 .. Len(s) + Len(t) :
            (s \o t)[i] = IF i <= Len(s) THEN s[i] ELSE t[i - Len(s)]
  BY ConcatProperties
<1>3. DOMAIN (s \o t) = 1 .. Len(s) + Len(t)
  BY <1>2, LenProperties
<1>4. A \subseteq B
  BY <1>1, <1>2, <1>3
<1>5. IsFiniteSet(B)
  <2>1. B \subseteq 1 .. Len(s) + Len(t)
    BY <1>3
  <2>2. Len(s) + Len(t) \in Int
    BY <1>1
  <2>3. IsFiniteSet(1 .. Len(s) + Len(t))
    BY <2>2, FS_Interval
  <2> QED
    BY <2>1, <2>3, FS_Subset
<1> HIDE DEF A, B
<1>6. Cardinality(A) \in Nat /\ Cardinality(B) \in Nat /\ Cardinality(A) <= Cardinality(B)
  BY <1>4, <1>5, FS_Subset, FS_CardinalityType
<1> QED
  BY <1>6 DEF Times, A, B

-----------------------------------------------------------------------------
(* Types *)

\* Parking a copy leaves sequences of copies under every hash.
LEMMA ParkType ==
    ASSUME TypeOK, NEW c \in Copy, Park(c)
    PROVE  parked' \in [Hash -> Seq(Copy)]
<1>1. c.block \in Block
  BY DEF Copy
<1>2. c.block.parent \in Hash
  BY <1>1, ParentIsHash
<1>3. parked[c.block.parent] \in Seq(Copy)
  BY <1>2 DEF TypeOK
<1>4. <<c>> \o parked[c.block.parent] \in Seq(Copy)
  <2>1. <<c>> \in Seq(Copy)
    OBVIOUS
  <2> QED
    BY <2>1, <1>3, ConcatProperties
<1>5. parked \in [Hash -> Seq(Copy)]
  BY DEF TypeOK
<1> QED
  BY <1>2, <1>4, <1>5 DEF Park

\* Committing a block keeps every type.
LEMMA CommitType ==
    ASSUME TypeOK, NEW b \in Block, NEW children \in Seq(Copy), Commit(b, children),
           UNCHANGED <<step, crashes, storeVars>>
    PROVE  TypeOK'
<1>1. b \in Hash
  BY ParentIsHash
<1> DEFINE left == IF work = <<>> THEN <<>> ELSE Tail(work)
<1>2. left \in Seq(Copy)
  <2>1. CASE work = <<>>
    BY <2>1
  <2>2. CASE work # <<>>
    BY <2>2, HeadTailProperties DEF TypeOK
  <2> QED
    BY <2>1, <2>2
<1>3. children \o left \in Seq(Copy)
  <2> HIDE DEF left
  <2> QED
    BY <1>2, ConcatProperties
<1>4. Append(pending, b) \in Seq(Block)
  BY AppendProperties DEF TypeOK
<1>5. <<>> \in Seq(Copy)
  OBVIOUS
<1>6. [parked EXCEPT ![b] = <<>>] \in [Hash -> Seq(Copy)]
  BY <1>5 DEF TypeOK
<1>7. tip' = b /\ UNCHANGED <<step, crashes, disk, best, log>>
  BY DEF Commit, storeVars
<1>8. CASE b.parent \in emitted
  <2>1. /\ emitted' = emitted \cup {b} /\ unsaved' = b
        /\ parked' = [parked EXCEPT ![b] = <<>>]
        /\ pending' = Append(pending, b) /\ work' = children \o left
    BY <1>8 DEF Commit
  <2> HIDE DEF left
  <2> QED
    BY <2>1, <1>1, <1>3, <1>4, <1>6, <1>7 DEF TypeOK
<1>9. CASE b.parent \notin emitted
  <2>1. work' = left /\ UNCHANGED <<emitted, parked, pending, unsaved>>
    BY <1>9 DEF Commit
  <2> HIDE DEF left
  <2> QED
    BY <2>1, <1>1, <1>2, <1>7 DEF TypeOK
<1> QED
  BY <1>8, <1>9

\* A sequence of blocks is one of hashes.
LEMMA BlocksAreHashes == ASSUME NEW s \in Seq(Block) PROVE s \in Seq(Hash)
<1>1. Block \subseteq Hash
  BY DEF Hash
<1> QED
  BY <1>1, SeqMonotonic

\* Writing a chunk moves output from what is pending to the log and changes
\* none of it.
LEMMA WritingKeepsOutput ==
    ASSUME TypeOK, WriteChunk
    PROVE  /\ log' \in Seq(Hash) /\ pending' \in Seq(Block) /\ Output' = Output
           /\ step' \in {"writing", "marking"} /\ (step' = "marking" => pending' = <<>>)
           /\ Members(log) \subseteq Members(log')
<1>1. log \in Seq(Hash) /\ pending \in Seq(Block) /\ pending \in Seq(Hash)
  BY BlocksAreHashes DEF TypeOK
<1>2. CASE pending = <<>>
  <2>1. log' = log /\ pending' = pending /\ step' = "marking"
    BY <1>2 DEF WriteChunk
  <2> QED
    BY <2>1, <1>1, <1>2 DEF Output
<1>3. CASE pending # <<>>
  <2>1. PICK k \in 1 .. Len(pending) :
           /\ log' = log \o SubSeq(pending, 1, k)
           /\ pending' = SubSeq(pending, k + 1, Len(pending))
    BY <1>3 DEF WriteChunk
  <2>2. step' = "writing"
    BY <1>3 DEF WriteChunk
  <2>3. log' \in Seq(Hash) /\ log' \o pending' = log \o pending
    BY <2>1, <1>1, ChunkAndRest
  <2>4. pending' \in Seq(Block)
    <3>1. <<>> \in Seq(Block) /\ SubSeq(pending, k + 1, Len(pending)) \in Seq(Block)
      BY <1>1, ChunkAndRest
    <3> QED
      BY <2>1, <3>1
  <2>5. Members(log) \subseteq Members(log')
    <3> DEFINE chunk == SubSeq(pending, 1, k)
    <3>1. chunk \in Seq(Hash)
      <4>1. Len(pending) \in Nat /\ pending \in [1 .. Len(pending) -> Hash]
        BY <1>1, LenProperties
      <4>2. \A i \in 1 .. k : pending[i] \in Hash
        BY <4>1
      <4> QED
        BY <1>1, <4>1, <4>2, SubSeqProperties
    <3> HIDE DEF chunk
    <3>2. Members(log \o chunk) = Members(log) \cup Members(chunk)
      BY <1>1, <3>1, MembersOfConcat
    <3> QED
      BY <2>1, <3>2 DEF chunk
  <2> QED
    BY <2>2, <2>3, <2>4, <2>5 DEF Output
<1> QED
  BY <1>2, <1>3

\* Every step keeps every type.
LEMMA TypeStep == TypeOK /\ [Next]_vars => TypeOK'
<1> SUFFICES ASSUME TypeOK, [Next]_vars PROVE TypeOK'
  OBVIOUS
<1> USE DEF engineVars, storeVars
<1>0. <<>> \in Seq(Copy) /\ <<>> \in Seq(Block)
  OBVIOUS
<1>1. ASSUME NEW c \in Copy, HistoricBlock(c) PROVE TypeOK'
  <2>1. UNCHANGED <<tip, unsaved, disk, best, log, emitted, pending, step, crashes>>
    BY <1>1 DEF HistoricBlock
  <2>2. CASE IsReady(c.block)
    <3>1. work' = <<c>> /\ parked' = parked /\ <<c>> \in Seq(Copy)
      BY <1>1, <2>2 DEF HistoricBlock
    <3> QED
      BY <2>1, <3>1 DEF TypeOK
  <2>3. CASE ~ IsReady(c.block)
    <3>1. Park(c) /\ work' = work
      BY <1>1, <2>3 DEF HistoricBlock
    <3>2. parked' \in [Hash -> Seq(Copy)]
      BY <3>1, ParkType
    <3> QED
      BY <2>1, <3>1, <3>2 DEF TypeOK
  <2> QED
    BY <2>2, <2>3
<1>2. CASE EmitNext
  <2>1. Head(work) \in Copy /\ Tail(work) \in Seq(Copy)
    BY <1>2, HeadTailProperties DEF EmitNext, TypeOK
  <2> DEFINE c == Head(work)
  <2>2. c.block \in Block /\ c.block \in Hash
    BY <2>1, ParentIsHash DEF Copy
  <2>3. UNCHANGED <<step, crashes, storeVars>> /\ UNCHANGED <<step, crashes, disk, best, log>>
    BY <1>2 DEF EmitNext
  <2>4. CASE /\ work' = Tail(work)
             /\ UNCHANGED <<tip, emitted, parked, pending, unsaved>>
    BY <2>1, <2>3, <2>4 DEF TypeOK
  <2>5. CASE Commit(c.block, parked[c.block])
    <3>1. parked[c.block] \in Seq(Copy)
      BY <2>2 DEF TypeOK
    <3> QED
      BY <2>2, <2>3, <2>5, <3>1, CommitType
  <2>6. CASE /\ work' = Tail(work) /\ emitted' = emitted \ {c.block}
             /\ parked' = [parked EXCEPT ![c.block] = <<>>]
             /\ UNCHANGED <<tip, pending, unsaved>>
    <3>1. parked' \in [Hash -> Seq(Copy)]
      BY <1>0, <2>6 DEF TypeOK
    <3> QED
      BY <2>1, <2>3, <2>6, <3>1 DEF TypeOK
  <2> QED
    BY <1>2, <2>4, <2>5, <2>6 DEF EmitNext
<1>3. CASE VotedBlock
  <2>1. PICK b \in Chain : Commit(b, <<>>)
    BY <1>3 DEF VotedBlock
  <2>2. b \in Block
    BY SequencerAssumption
  <2>3. UNCHANGED <<step, crashes, storeVars>>
    BY <1>3 DEF VotedBlock
  <2> QED
    BY <1>0, <2>1, <2>2, <2>3, CommitType
<1>4. ASSUME NEW h \in Deletable, DeleteDepBlock(h) PROVE TypeOK'
  <2>1. parked' \in [Hash -> Seq(Copy)]
    BY <1>0, <1>4 DEF DeleteDepBlock, TypeOK
  <2> QED
    BY <1>4, <2>1 DEF DeleteDepBlock, TypeOK
<1>5. CASE Flush
  BY <1>5 DEF Flush, TypeOK, Step
<1>6. CASE WriteChunk
  <2>1. UNCHANGED <<tip, unsaved, emitted, parked, work, disk, best, crashes>>
    BY <1>6 DEF WriteChunk
  <2>2. step' \in Step
    BY <1>6, WritingKeepsOutput DEF Step
  <2> QED
    BY <1>6, <2>1, <2>2, WritingKeepsOutput DEF TypeOK
<1>7. CASE CommitMarks
  BY <1>7 DEF CommitMarks, TypeOK, Step
<1>8. CASE SaveBest
  <2>1. best' \in Hash /\ unsaved' \in Block \cup {None}
    BY <1>8 DEF SaveBest, TypeOK, Hash
  <2> QED
    BY <1>8, <2>1 DEF SaveBest, TypeOK, Step
<1>9. CASE Crash
  BY <1>0, <1>9 DEF Crash, TypeOK, Step
<1>10. CASE UNCHANGED vars
  BY <1>10 DEF vars, TypeOK
<1> QED
  BY <1>1, <1>2, <1>3, <1>4, <1>5, <1>6, <1>7, <1>8, <1>9, <1>10 DEF Next

-----------------------------------------------------------------------------
(* The invariant *)

\* A step that leaves output, durable records and unsaved block alone keeps the
\* records consistent, as long as marks lost are deletable, marks won are
\* output, and no flush is under way.
LEMMA HandlingKeeps ==
    ASSUME SInv, step = "handling", step' \in {"handling", "writing"},
           UNCHANGED <<log, pending, disk, best, unsaved>>,
           NEW h \in Deletable, emitted' \in {emitted, emitted \ {h}}
    PROVE  (MarksFollowTheOutput /\ MarksOnlyGrow /\ RecordsAreLogged /\ BestIsMarked)'
<1>1. Output' = Output
  BY DEF Output
<1>2. MarksFollowTheOutput'
  BY <1>1 DEF SInv, MarksFollowTheOutput
<1>3. MarksOnlyGrow'
  BY DEF SInv, MarksOnlyGrow
<1> QED
  BY <1>2, <1>3 DEF SInv, RecordsAreLogged, BestIsMarked

\* The same when marks stay as they are.
LEMMA IdlingKeeps ==
    ASSUME SInv, step = "handling", step' \in {"handling", "writing"},
           UNCHANGED <<log, pending, disk, best, unsaved, emitted>>
    PROVE  (MarksFollowTheOutput /\ MarksOnlyGrow /\ RecordsAreLogged /\ BestIsMarked)'
<1>1. Output' = Output
  BY DEF Output
<1>2. MarksFollowTheOutput'
  BY <1>1 DEF SInv, MarksFollowTheOutput
<1>3. MarksOnlyGrow'
  BY DEF SInv, MarksOnlyGrow
<1> QED
  BY <1>2, <1>3 DEF SInv, RecordsAreLogged, BestIsMarked

\* A committed block comes after its parent, or nothing is yielded.
LEMMA CommittingKeeps ==
    ASSUME SInv, step = "handling", NEW b \in Block, NEW children, Commit(b, children),
           UNCHANGED <<step, crashes, storeVars>>
    PROVE  (MarksFollowTheOutput /\ MarksOnlyGrow /\ RecordsAreLogged /\ BestIsMarked)'
<1>1. UNCHANGED <<step, disk, best, log>>
  BY DEF storeVars
<1>2. CASE b.parent \notin emitted
  <2>1. UNCHANGED <<emitted, pending, unsaved>>
    BY <1>2 DEF Commit
  <2> QED
    BY <1>1, <2>1, IdlingKeeps
<1>3. CASE b.parent \in emitted
  <2>1. emitted' = emitted \cup {b} /\ unsaved' = b /\ pending' = Append(pending, b)
    BY <1>3 DEF Commit
  <2>2. b \in Hash /\ log \in Seq(Hash) /\ pending \in Seq(Hash)
    BY ParentIsHash, BlocksAreHashes DEF SInv, TypeOK
  <2>3. Output \in Seq(Hash)
    BY <2>2, ConcatProperties DEF Output
  <2>4. Output' = Append(Output, b)
    <3>1. <<b>> \in Seq(Hash)
      BY <2>2
    <3>2. Append(pending, b) = pending \o <<b>> /\ Append(Output, b) = Output \o <<b>>
      BY <2>2, <2>3, AppendIsConcat
    <3>3. (log \o pending) \o <<b>> = log \o (pending \o <<b>>)
      BY <2>2, <3>1, ConcatAssociative
    <3> QED
      BY <1>1, <2>1, <3>2, <3>3 DEF Output
  <2>5. NoGap(Output) /\ b.parent \in Members(Output)
    BY <1>3 DEF SInv, MarksFollowTheOutput
  <2>6. NoGap(Append(Output, b)) /\ Members(Append(Output, b)) = Members(Output) \cup {b}
    BY <2>2, <2>3, <2>5, AppendLeavesNoGap
  <2>7. MarksFollowTheOutput'
    <3>1. NoGap(Output)' /\ Members(Output)' = Members(Output) \cup {b}
      BY <2>4, <2>6 DEF NoGap, Members
    <3> QED
      BY <1>1, <2>1, <3>1 DEF SInv, MarksFollowTheOutput
  <2>8. MarksOnlyGrow'
    BY <1>1, <2>1 DEF SInv, MarksOnlyGrow
  <2> QED
    BY <1>1, <2>7, <2>8 DEF SInv, RecordsAreLogged, BestIsMarked
<1> QED
  BY <1>2, <1>3

\* The engine commits the block after its tip and moves on to it.
LEMMA CommittingYieldsOnce ==
    ASSUME SInv, NEW b \in Block, NEW children, Commit(b, children),
           b.number = Height(tip) + 1, UNCHANGED <<crashes, log>>
    PROVE  YieldedOncePerLife'
<1>1. /\ log \in Seq(Hash) /\ pending \in Seq(Hash) /\ b \in Hash
      /\ crashes \in Nat /\ Height(tip) \in Nat
  BY ParentIsHash, BlocksAreHashes, SequencerAssumption DEF SInv, TypeOK, Height, Hash
<1>2. Height(b) = Height(tip) + 1 /\ tip' = b
  BY SequencerAssumption DEF Height, Commit
<1>3. Output' = Output \/ Output' = Append(Output, b)
  <2>1. CASE b.parent \in emitted
    <3>1. pending' = Append(pending, b)
      BY <2>1 DEF Commit
    <3>2. Append(pending, b) = pending \o <<b>> /\ <<b>> \in Seq(Hash)
      BY <1>1, AppendIsConcat
    <3>3. Output \in Seq(Hash)
      BY <1>1, ConcatProperties DEF Output
    <3>4. Append(Output, b) = Output \o <<b>>
      BY <1>1, <3>3, AppendIsConcat
    <3>5. (log \o pending) \o <<b>> = log \o (pending \o <<b>>)
      BY <1>1, <3>2, ConcatAssociative
    <3> QED
      BY <3>1, <3>2, <3>4, <3>5 DEF Output
  <2>2. CASE b.parent \notin emitted
    BY <2>2 DEF Commit, Output
  <2> QED
    BY <2>1, <2>2
<1>4. ASSUME NEW c \in Block
      PROVE  Times(Output', c) <= crashes + (IF Height(c) <= Height(b) THEN 1 ELSE 0)
  <2>1. Height(c) \in Nat
    BY SequencerAssumption DEF Height
  <2>2. Times(Output, c) <= crashes + (IF Height(c) <= Height(tip) THEN 1 ELSE 0)
    BY DEF SInv, YieldedOncePerLife
  <2>3. /\ Times(Output, c) \in Nat
        /\ Times(Append(Output, b), c) = IF c = b THEN Times(Output, c) + 1 ELSE Times(Output, c)
    <3>1. Output \in Seq(Hash)
      BY <1>1, ConcatProperties DEF Output
    <3> QED
      BY <1>1, <3>1, TimesAppend
  <2>4. CASE Output' = Output
    BY <1>1, <1>2, <2>1, <2>2, <2>3, <2>4
  <2>5. CASE Output' = Append(Output, b)
    <3>1. Times(Output', c) = Times(Append(Output, b), c)
      BY <2>5
    <3>2. CASE c = b
      BY <1>1, <1>2, <2>2, <2>3, <3>1, <3>2
    <3>3. CASE c # b
      BY <1>1, <1>2, <2>1, <2>2, <2>3, <3>1, <3>3
    <3> QED
      BY <3>2, <3>3
  <2> QED
    BY <1>3, <2>4, <2>5
<1> QED
  BY <1>2, <1>4 DEF YieldedOncePerLife, Times

\* No step yields a block a second time, unless the process has died since.
LEMMA YieldingStep == SInv /\ [Next]_vars => YieldedOncePerLife'
<1> SUFFICES ASSUME SInv, [Next]_vars PROVE YieldedOncePerLife'
  OBVIOUS
<1> USE DEF engineVars, storeVars
<1>0. TypeOK /\ log \in Seq(Hash) /\ pending \in Seq(Hash)
  BY BlocksAreHashes DEF SInv, TypeOK
<1>1. ASSUME Output' = Output, UNCHANGED <<tip, crashes>>
      PROVE  YieldedOncePerLife'
  BY <1>1 DEF SInv, YieldedOncePerLife, Times
<1>2. ASSUME UNCHANGED <<tip, crashes, log, pending>>
      PROVE  YieldedOncePerLife'
  BY <1>1, <1>2 DEF Output
<1>3. CASE EmitNext
  <2> DEFINE c == Head(work)
  <2>1. c.block \in Block /\ UNCHANGED <<crashes, log>>
    BY <1>0, <1>3, HeadTailProperties DEF EmitNext, TypeOK, Copy
  <2>2. CASE Accepts(c) /\ Commit(c.block, parked[c.block])
    BY <2>1, <2>2, CommittingYieldsOnce DEF Accepts
  <2> QED
    BY <1>2, <1>3, <2>1, <2>2 DEF EmitNext
<1>4. CASE VotedBlock
  <2>1. PICK b \in Chain : b.parent = tip /\ Commit(b, <<>>)
    BY <1>4 DEF VotedBlock
  <2>2. b \in Block /\ b.number = Height(tip) + 1 /\ UNCHANGED <<crashes, log>>
    BY <1>4, <2>1, SequencerAssumption, ChainAssumption DEF VotedBlock
  <2> QED
    BY <2>1, <2>2, CommittingYieldsOnce
<1>5. CASE WriteChunk
  BY <1>0, <1>1, <1>5, WritingKeepsOutput DEF WriteChunk
<1>6. CASE Crash
  <2>1. tip' = best /\ crashes' = crashes + 1 /\ pending' = <<>> /\ log' = log
    BY <1>6 DEF Crash
  <2>2. Output' = log
    BY <1>0, <2>1, ConcatEmptySeq DEF Output
  <2>3. ASSUME NEW b \in Block
        PROVE  Times(Output', b) <= crashes' + (IF Height(b) <= Height(tip') THEN 1 ELSE 0)
    <3>1. /\ Times(log, b) \in Nat /\ Times(Output, b) \in Nat
          /\ Times(log, b) <= Times(Output, b)
      BY <1>0, TimesPrefix DEF Output
    <3>2. Times(Output, b) <= crashes + 1 /\ crashes \in Nat
      BY <3>1 DEF SInv, TypeOK, YieldedOncePerLife
    <3> QED
      BY <2>1, <2>2, <3>1, <3>2
  <2> QED
    BY <2>3 DEF YieldedOncePerLife, Times, Height
<1> QED
  BY <1>2, <1>3, <1>4, <1>5, <1>6
     DEF Next, HistoricBlock, DeleteDepBlock, Flush, CommitMarks, SaveBest, vars

\* Every step keeps the invariant.
LEMMA InvariantStep == SInv /\ [Next]_vars => SInv'
<1> SUFFICES ASSUME SInv, [Next]_vars
             PROVE  (MarksFollowTheOutput /\ MarksOnlyGrow /\ RecordsAreLogged /\ BestIsMarked)'
  BY TypeStep, YieldingStep DEF SInv
<1>0. TypeOK /\ log \in Seq(Hash) /\ pending \in Seq(Hash)
  BY BlocksAreHashes DEF SInv, TypeOK
<1> DEFINE Goal == (MarksFollowTheOutput /\ MarksOnlyGrow /\ RecordsAreLogged /\ BestIsMarked)'
<1>1. ASSUME NEW c \in Copy, HistoricBlock(c) PROVE Goal
  <2>1. /\ step = "handling" /\ step' = step
        /\ UNCHANGED <<log, pending, disk, best, unsaved, emitted>>
    BY <1>1 DEF HistoricBlock, engineVars, storeVars
  <2> QED
    BY <2>1, IdlingKeeps
<1>2. CASE EmitNext
  <2>1. step = "handling" /\ UNCHANGED <<step, crashes, storeVars>>
    BY <1>2 DEF EmitNext
  <2>2. UNCHANGED <<disk, best, log>>
    BY <2>1 DEF storeVars
  <2> DEFINE c == Head(work)
  <2>3. c.block \in Block
    BY <1>0, <1>2, HeadTailProperties DEF EmitNext, TypeOK, Copy
  <2>4. CASE UNCHANGED <<emitted, pending, unsaved>>
    BY <2>1, <2>2, <2>4, IdlingKeeps
  <2>5. CASE Commit(c.block, parked[c.block])
    BY <2>1, <2>3, <2>5, CommittingKeeps
  <2>6. CASE ~ Claimed(c.block) /\ emitted' = emitted \ {c.block} /\ UNCHANGED <<pending, unsaved>>
    <3>1. emitted' = emitted
      BY <2>6 DEF Claimed
    <3> QED
      BY <2>1, <2>2, <2>6, <3>1, IdlingKeeps
  <2> QED
    BY <1>2, <2>4, <2>5, <2>6 DEF EmitNext
<1>3. CASE VotedBlock
  <2>1. PICK b \in Chain : Commit(b, <<>>)
    BY <1>3 DEF VotedBlock
  <2>2. b \in Block /\ step = "handling" /\ UNCHANGED <<step, crashes, storeVars>>
    BY <1>3, SequencerAssumption DEF VotedBlock
  <2> QED
    BY <2>1, <2>2, CommittingKeeps
<1>4. ASSUME NEW h \in Deletable, DeleteDepBlock(h) PROVE Goal
  <2>1. /\ step = "handling" /\ step' = step /\ emitted' = emitted \ {h}
        /\ UNCHANGED <<log, pending, disk, best, unsaved>>
    BY <1>4 DEF DeleteDepBlock, engineVars, storeVars
  <2> QED
    BY <2>1, HandlingKeeps
<1>5. CASE Flush
  <2>1. /\ step = "handling" /\ step' = "writing"
        /\ UNCHANGED <<log, pending, disk, best, unsaved, emitted>>
    BY <1>5 DEF Flush, engineVars, storeVars
  <2> QED
    BY <2>1, IdlingKeeps
<1>6. CASE WriteChunk
  <2>1. UNCHANGED <<emitted, disk, best, unsaved>>
    BY <1>6 DEF WriteChunk, engineVars
  <2>2. /\ Output' = Output /\ step' \in {"writing", "marking"}
        /\ (step' = "marking" => pending' = <<>>) /\ Members(log) \subseteq Members(log')
    BY <1>0, <1>6, WritingKeepsOutput
  <2>3. MarksFollowTheOutput'
    BY <2>1, <2>2 DEF SInv, MarksFollowTheOutput
  <2>4. MarksOnlyGrow'
    BY <2>1, <2>2 DEF SInv, MarksOnlyGrow
  <2>5. RecordsAreLogged' /\ BestIsMarked'
    <3>1. Members(log)' = Members(log')
      BY DEF Members
    <3> QED
      BY <2>1, <2>2, <3>1 DEF SInv, RecordsAreLogged, BestIsMarked
  <2> QED
    BY <2>3, <2>4, <2>5
<1>7. CASE CommitMarks
  <2>1. /\ step = "marking" /\ step' = "saving" /\ disk'.emitted = emitted
        /\ UNCHANGED <<emitted, best, unsaved, pending, log>>
    BY <1>7 DEF CommitMarks, engineVars
  <2>2. Output' = Output /\ pending = <<>> /\ Output = log
    BY <1>0, <2>1, ConcatEmptySeq DEF Output, SInv, MarksFollowTheOutput
  <2>3. MarksFollowTheOutput'
    BY <2>1, <2>2 DEF SInv, MarksFollowTheOutput
  <2>4. MarksOnlyGrow'
    BY <2>1 DEF SInv, MarksOnlyGrow
  <2>5. RecordsAreLogged'
    BY <2>1, <2>2 DEF SInv, MarksFollowTheOutput, RecordsAreLogged
  <2>6. BestIsMarked'
    BY <2>1 DEF SInv, MarksOnlyGrow, BestIsMarked
  <2> QED
    BY <2>3, <2>4, <2>5, <2>6
<1>8. CASE SaveBest
  <2>1. step = "saving" /\ step' = "handling" /\ UNCHANGED <<emitted, disk, pending, log>>
    BY <1>8 DEF SaveBest
  <2>2. Output' = Output /\ pending = <<>> /\ Output = log
    BY <1>0, <2>1, ConcatEmptySeq DEF Output, SInv, MarksFollowTheOutput
  <2>3. CASE unsaved # None /\ best' = unsaved /\ unsaved' = None
    <3>1. unsaved \in Members(log) /\ unsaved \in disk.emitted \cup Deletable
      BY <2>1, <2>2, <2>3 DEF SInv, MarksFollowTheOutput, MarksOnlyGrow
    <3> QED
      BY <2>1, <2>2, <2>3, <3>1
         DEF SInv, MarksFollowTheOutput, MarksOnlyGrow, RecordsAreLogged, BestIsMarked
  <2>4. CASE UNCHANGED <<best, unsaved>>
    BY <2>1, <2>2, <2>4
       DEF SInv, MarksFollowTheOutput, MarksOnlyGrow, RecordsAreLogged, BestIsMarked
  <2> QED
    BY <1>8, <2>3, <2>4 DEF SaveBest
<1>9. CASE Crash
  <2>1. /\ unsaved' = None /\ emitted' = disk.emitted /\ pending' = <<>> /\ step' = "handling"
        /\ UNCHANGED <<disk, best, log>>
    BY <1>9 DEF Crash, storeVars
  <2>2. Output' = log
    BY <1>0, <2>1, ConcatEmptySeq DEF Output
  <2>3. NoGap(log)
    <3>1. NoGap(log \o pending)
      BY DEF SInv, MarksFollowTheOutput, Output
    <3> QED
      BY <1>0, <3>1, PrefixHasNoGap
  <2>4. MarksFollowTheOutput'
    BY <2>1, <2>2, <2>3 DEF SInv, MarksFollowTheOutput, RecordsAreLogged
  <2>5. MarksOnlyGrow'
    BY <2>1 DEF MarksOnlyGrow
  <2> QED
    BY <2>1, <2>4, <2>5 DEF SInv, RecordsAreLogged, BestIsMarked
<1>10. CASE UNCHANGED vars
  <2>1. UNCHANGED <<log, pending, disk, best, unsaved, emitted, step>>
    BY <1>10 DEF vars
  <2> QED
    BY <2>1 DEF SInv, MarksFollowTheOutput, MarksOnlyGrow, RecordsAreLogged, BestIsMarked, Output
<1> QED
  BY <1>1, <1>2, <1>3, <1>4, <1>5, <1>6, <1>7, <1>8, <1>9, <1>10 DEF Next

\* A bootstrapped sequencer: genesis is logged, marked and saved.
LEMMA InvariantInit == Init => SInv
<1> SUFFICES ASSUME Init PROVE SInv
  OBVIOUS
<1>1. /\ Genesis \in Hash /\ <<Genesis>> \in Seq(Hash)
      /\ <<>> \in Seq(Copy) /\ <<>> \in Seq(Block) /\ <<>> \in Seq(Hash)
  BY DEF Hash
<1>2. TypeOK
  <2>1. Empty \in [Hash -> Seq(Copy)]
    BY <1>1 DEF Empty
  <2>2. {Genesis} \subseteq Hash
    BY <1>1
  <2> QED
    BY <1>1, <2>1, <2>2, SequencerAssumption DEF Init, TypeOK, Step
<1>3. Output = <<Genesis>>
  BY <1>1, ConcatEmptySeq DEF Init, Output
<1>4. NoGap(<<Genesis>>) /\ Members(<<Genesis>>) = {Genesis}
  BY DEF NoGap, Members
<1>5. MarksFollowTheOutput
  BY <1>3, <1>4 DEF Init, MarksFollowTheOutput
<1>6. MarksOnlyGrow
  BY DEF Init, MarksOnlyGrow
<1>7. RecordsAreLogged /\ BestIsMarked
  BY <1>4 DEF Init, RecordsAreLogged, BestIsMarked
<1>8. YieldedOncePerLife
  <2>1. ASSUME NEW b \in Block PROVE Times(Output, b) = 0
    <3>1. {i \in DOMAIN Output : Output[i] = b} = {}
      BY <1>3, SequencerAssumption
    <3> QED
      BY <3>1, FS_EmptySet DEF Times
  <2>2. crashes = 0
    BY DEF Init
  <2>3. ASSUME NEW b \in Block
        PROVE  Times(Output, b) <= crashes + (IF Height(b) <= Height(tip) THEN 1 ELSE 0)
    BY <2>1, <2>2
  <2> QED
    BY <2>3 DEF YieldedOncePerLife
<1> QED
  BY <1>2, <1>5, <1>6, <1>7, <1>8 DEF SInv

-----------------------------------------------------------------------------
(* Theorems *)

\* Through parking, emission, deletions, flushes and crashes at any point, log
\* and pending output stay one gapless sequence that contains every mark.
THEOREM SequencerInvariance == Spec => []SInv
BY InvariantInit, InvariantStep, PTL DEF Spec

\* The VM never gets a block before its parent, whatever order blocks arrive in
\* and wherever the process dies.
THEOREM LogHolds == Spec => []LogHasNoGap
<1>1. SInv => LogHasNoGap
  <2> SUFFICES ASSUME SInv PROVE NoGap(log)
    BY DEF LogHasNoGap
  <2>1. log \in Seq(Hash) /\ pending \in Seq(Hash) /\ NoGap(log \o pending)
    BY BlocksAreHashes DEF SInv, TypeOK, MarksFollowTheOutput, Output
  <2> QED
    BY <2>1, PrefixHasNoGap
<1> QED
  BY <1>1, SequencerInvariance, PTL

\* No durable record claims a block that the log does not have.
THEOREM RecordsHold == Spec => []RecordsAreLogged
<1>1. SInv => RecordsAreLogged
  BY DEF SInv
<1> QED
  BY <1>1, SequencerInvariance, PTL

\* Where a restarted engine resumes, the mark of its block is durable, unless an
\* operator deletes marks.
THEOREM ResumptionHolds == Spec => []BestIsMarked
<1>1. SInv => BestIsMarked
  BY DEF SInv
<1> QED
  BY <1>1, SequencerInvariance, PTL

\* Within one life of the process no block is logged twice: a process that has
\* died k times has logged no block more than k + 1 times.
THEOREM LoggedOnceHolds == Spec => []LoggedOncePerLife
<1>1. SInv => LoggedOncePerLife
  <2> SUFFICES ASSUME SInv, NEW b \in Block PROVE Times(log, b) <= crashes + 1
    BY DEF LoggedOncePerLife
  <2>1. log \in Seq(Hash) /\ pending \in Seq(Hash) /\ crashes \in Nat
    BY BlocksAreHashes DEF SInv, TypeOK
  <2>2. /\ Times(log, b) \in Nat /\ Times(Output, b) \in Nat
        /\ Times(log, b) <= Times(Output, b)
    BY <2>1, TimesPrefix DEF Output
  <2>3. Times(Output, b) <= crashes + 1
    BY <2>1, <2>2 DEF SInv, YieldedOncePerLife
  <2> QED
    BY <2>1, <2>2, <2>3
<1> QED
  BY <1>1, SequencerInvariance, PTL
=============================================================================
