------------------------- MODULE RoundsOfAHeightProofs -------------------------
(***************************************************************************)
(* Proofs about the selection of proposers, for every set of validators,   *)
(* stakes and seeds.  What is true of every number is shown by way of the  *)
(* set of the numbers of which it is true.                                 *)
(***************************************************************************)
EXTENDS RoundsOfAHeight, FiniteSetTheorems, TLAPS

-----------------------------------------------------------------------------
(* Finite sets of numbers *)

\* Every position of an ascending list has its element: as many elements are
\* below it as the position says.
LEMMA EveryRankIsTaken ==
    ASSUME NEW S \in SUBSET Int, IsFiniteSet(S), NEW k \in 0 .. Cardinality(S) - 1
    PROVE  \E v \in S : Cardinality({u \in S : u < v}) = k
<1> DEFINE n     == Cardinality(S)
           under(v) == {u \in S : u < v}
           rank  == [v \in S |-> Cardinality(under(v))]
<1>1. n \in Nat
  BY FS_CardinalityType
<1>2. ASSUME NEW v \in S
      PROVE  IsFiniteSet(under(v)) /\ Cardinality(under(v)) \in 0 .. n - 1
  <2>1. under(v) \subseteq S /\ v \notin under(v)
    OBVIOUS
  <2>2. IsFiniteSet(under(v)) /\ Cardinality(under(v)) <= n /\ Cardinality(under(v)) # n
    <3> HIDE DEF under
    <3> QED BY <2>1, FS_Subset
  <2>3. Cardinality(under(v)) \in Nat
    BY <2>2, FS_CardinalityType
  <2> QED BY <1>1, <2>2, <2>3
<1>3. ASSUME NEW u \in S, NEW v \in S, u < v PROVE rank[u] < rank[v]
  <2>1. under(u) \subseteq under(v) /\ u \in under(v) /\ u \notin under(u)
    <3>1. u \in Int /\ v \in Int /\ ~ (u < u)
      OBVIOUS
    <3>2. ASSUME NEW x \in S, x < u PROVE x < v
      <4>1. x \in Int
        OBVIOUS
      <4> QED BY <1>3, <3>1, <3>2, <4>1
    <3>3. under(u) \subseteq under(v)
      BY <3>2
    <3> QED BY <1>3, <3>1, <3>3
  <2>2. IsFiniteSet(under(v)) /\ IsFiniteSet(under(u))
    BY <1>2
  <2>3. Cardinality(under(u)) <= Cardinality(under(v)) /\ Cardinality(under(u)) # Cardinality(under(v))
    <3> HIDE DEF under
    <3> QED BY <2>1, <2>2, FS_Subset
  <2>4. Cardinality(under(u)) \in Nat /\ Cardinality(under(v)) \in Nat
    BY <1>2
  <2> QED BY <2>3, <2>4
<1>4. rank \in Injection(S, 0 .. n - 1)
  <2>1. rank \in [S -> 0 .. n - 1]
    BY <1>2
  <2>2. \A u, v \in S : rank[u] = rank[v] => u = v
    <3> SUFFICES ASSUME NEW u \in S, NEW v \in S, u # v PROVE rank[u] # rank[v]
      OBVIOUS
    <3>1. u < v \/ v < u
      OBVIOUS
    <3>2. rank[u] \in Nat /\ rank[v] \in Nat
      BY <1>1, <2>1
    <3> HIDE DEF rank
    <3> QED BY <1>3, <3>1, <3>2
  <2> HIDE DEF rank
  <2> QED BY <2>1, <2>2 DEF Injection, IsInjective
<1>5. IsFiniteSet(0 .. n - 1) /\ Cardinality(0 .. n - 1) = n
  BY <1>1, FS_Interval
<1>6. rank \in Surjection(S, 0 .. n - 1)
  <2> HIDE DEF rank, n
  <2> QED BY <1>4, <1>5, FS_Injection DEF n
<1>7. PICK v \in S : rank[v] = k
  BY <1>6 DEF Surjection
<1> QED BY <1>7

\* A finite set of numbers has a least and a greatest element.
LEMMA LeastAndGreatest ==
    ASSUME NEW S \in SUBSET Int, IsFiniteSet(S), S # {}
    PROVE  /\ \E v \in S : \A u \in S : v <= u
           /\ \E v \in S : \A u \in S : u <= v
<1>1. Cardinality(S) \in Nat /\ Cardinality(S) # 0
  BY FS_CardinalityType, FS_EmptySet
<1>2. \E v \in S : \A u \in S : v <= u
  <2>1. PICK v \in S : Cardinality({u \in S : u < v}) = 0
    BY <1>1, EveryRankIsTaken
  <2>2. IsFiniteSet({u \in S : u < v})
    BY FS_Subset
  <2>3. {u \in S : u < v} = {}
    BY <2>1, <2>2, FS_EmptySet
  <2> QED BY <2>3
<1>3. \E v \in S : \A u \in S : u <= v
  <2>1. PICK v \in S : Cardinality({u \in S : u < v}) = Cardinality(S) - 1
    BY <1>1, EveryRankIsTaken
  <2>2. {u \in S : u < v} \subseteq S \ {v}
    OBVIOUS
  <2>3. IsFiniteSet(S \ {v}) /\ Cardinality(S \ {v}) = Cardinality(S) - 1
    BY FS_RemoveElement
  <2>4. {u \in S : u < v} = S \ {v}
    BY <2>1, <2>2, <2>3, FS_Subset
  <2> QED BY <2>4
<1> QED BY <1>2, <1>3

\* Induction, for the set of the numbers that have a property.
LEMMA InductionOnNat ==
    ASSUME NEW X \in SUBSET Nat, 0 \in X, \A n \in X : n + 1 \in X
    PROVE  X = Nat
<1> SUFFICES ASSUME NEW n \in Nat, n \notin X PROVE FALSE
  OBVIOUS
<1> DEFINE Q == {m \in 0 .. n : m \notin X}
<1>1. IsFiniteSet(Q)
  <2>1. IsFiniteSet(0 .. n)
    BY FS_Interval
  <2> QED BY <2>1, FS_Subset
<1>2. Q \in SUBSET Int /\ n \in Q
  OBVIOUS
<1>3. PICK m \in Q : \A u \in Q : m <= u
  <2> HIDE DEF Q
  <2> QED BY <1>1, <1>2, LeastAndGreatest
<1>4. m # 0 /\ m \in 1 .. n
  OBVIOUS
<1>5. m - 1 \in X
  BY <1>3, <1>4
<1> QED BY <1>3, <1>4, <1>5


-----------------------------------------------------------------------------
(* The walk of the candidates *)

\* The weights a pick is made by, and what has been passed at c and before it.
WeightsOf(C, st)   == [d \in C |-> st[d]]
Upto(C, st, c)     == P!WeightOf(WeightsOf(C, st), {d \in C : d <= c})
Before(C, st, c)   == P!WeightOf(WeightsOf(C, st), {d \in C : d < c})
TotalOf(C, st)     == P!TotalWeight(WeightsOf(C, st))

\* Stakes as the contract publishes them, for candidates that have addresses.
Staked(C, st) == C \subseteq Int /\ IsFiniteSet(C) /\ \A c \in C : st[c] \in Nat

\* The modules count alike.
LEMMA CardinalityIsCardinality == ASSUME NEW S PROVE P!Cardinality(S) = Cardinality(S)
  BY DEF P!Cardinality, Cardinality

LEMMA WeightCounts == ASSUME NEW w, NEW S PROVE P!WeightOf(w, S) = Cardinality(P!VoteUnits(w, S))
  BY CardinalityIsCardinality DEF P!WeightOf

LEMMA UnitsAreFinite ==
    ASSUME NEW C, NEW st, Staked(C, st), NEW S
    PROVE  IsFiniteSet(P!VoteUnits(WeightsOf(C, st), S))
<1> DEFINE D == S \cap C
           f == [v \in D |-> {v} \X (1 .. st[v])]
           T == {{v} \X (1 .. st[v]) : v \in D}
<1>1. IsFiniteSet(T)
  <2>1. IsFiniteSet(D)
    BY FS_Intersection DEF Staked
  <2>2. f \in Surjection(D, T)
    BY DEF Surjection
  <2> HIDE DEF D, f, T
  <2> QED BY <2>1, <2>2, FS_Surjection
<1>2. ASSUME NEW v \in D PROVE IsFiniteSet({v} \X (1 .. st[v]))
  <2>1. v \in C
    OBVIOUS
  <2>2. st[v] \in Nat
    BY <2>1 DEF Staked
  <2>3. 1 \in Int /\ st[v] \in Int
    BY <2>2
  <2>4. IsFiniteSet(1 .. st[v])
    BY <2>3, FS_Interval
  <2>5. IsFiniteSet({v})
    BY FS_Singleton
  <2> QED BY <2>4, <2>5, FS_Product
<1>3. IsFiniteSet(UNION T)
  BY <1>1, <1>2, FS_UNION
<1>4. P!VoteUnits(WeightsOf(C, st), S) = UNION T
  BY DEF P!VoteUnits, WeightsOf
<1> QED BY <1>3, <1>4

LEMMA WeightsAreNumbers ==
    ASSUME NEW C, NEW st, Staked(C, st), NEW S, NEW R
    PROVE  /\ P!WeightOf(WeightsOf(C, st), S) \in Nat
           /\ S \subseteq R => P!WeightOf(WeightsOf(C, st), S) <= P!WeightOf(WeightsOf(C, st), R)
<1> DEFINE U(X) == P!VoteUnits(WeightsOf(C, st), X)
<1>1. IsFiniteSet(U(S)) /\ IsFiniteSet(U(R))
  BY UnitsAreFinite
<1>2. S \subseteq R => U(S) \subseteq U(R)
  BY DEF P!VoteUnits
<1> HIDE DEF U
<1>3. /\ Cardinality(U(S)) \in Nat
      /\ S \subseteq R => Cardinality(U(S)) <= Cardinality(U(R))
  BY <1>1, <1>2, FS_CardinalityType, FS_Subset
<1> QED BY <1>3, WeightCounts DEF U

\* One more voter adds its stake.
LEMMA WeightAdds ==
    ASSUME NEW C, NEW st, Staked(C, st), NEW S \in SUBSET C, NEW c \in C, c \notin S
    PROVE  P!WeightOf(WeightsOf(C, st), S \cup {c}) = P!WeightOf(WeightsOf(C, st), S) + st[c]
<1> DEFINE A == P!VoteUnits(WeightsOf(C, st), S)
           B == {c} \X (1 .. st[c])
           AB == P!VoteUnits(WeightsOf(C, st), S \cup {c})
<1>1. AB = A \cup B /\ A \cap B = {}
  BY DEF P!VoteUnits, WeightsOf
<1>2. IsFiniteSet(A)
  BY UnitsAreFinite
<1>3. st[c] \in Nat
  BY DEF Staked
<1>4. /\ IsFiniteSet({c}) /\ Cardinality({c}) = 1
      /\ IsFiniteSet(1 .. st[c]) /\ Cardinality(1 .. st[c]) = st[c]
  <2>1. 1 \in Int /\ st[c] \in Int
    BY <1>3
  <2>2. /\ IsFiniteSet(1 .. st[c])
        /\ Cardinality(1 .. st[c]) = IF 1 > st[c] THEN 0 ELSE st[c] - 1 + 1
    BY <2>1, FS_Interval
  <2>3. Cardinality(1 .. st[c]) = st[c]
    BY <1>3, <2>2
  <2>4. IsFiniteSet({c}) /\ Cardinality({c}) = 1
    BY FS_Singleton
  <2> QED BY <2>2, <2>3, <2>4
<1>5. IsFiniteSet(B) /\ Cardinality(B) = st[c]
  <2>1. IsFiniteSet(B) /\ Cardinality(B) = Cardinality({c}) * Cardinality(1 .. st[c])
    BY <1>4, FS_Product
  <2> QED BY <1>3, <1>4, <2>1
<1> HIDE DEF A, B, AB
<1>6. Cardinality(AB) = Cardinality(A) + Cardinality(B)
  <2>1. Cardinality(A \cup B) = Cardinality(A) + Cardinality(B) - Cardinality(A \cap B)
    BY <1>2, <1>5, FS_Union
  <2>2. Cardinality(A \cap B) = 0 /\ Cardinality(A) \in Nat /\ Cardinality(B) \in Nat
    BY <1>1, <1>2, <1>5, FS_EmptySet, FS_CardinalityType
  <2> QED BY <1>1, <2>1, <2>2
<1> QED BY <1>5, <1>6, WeightCounts DEF A, AB

\* How the running weight grows along the list.
LEMMA TheWalk ==
    ASSUME NEW C, NEW st, Staked(C, st), NEW c \in C
    PROVE  /\ Upto(C, st, c) \in Nat /\ Before(C, st, c) \in Nat /\ TotalOf(C, st) \in Nat
           /\ Upto(C, st, c) = Before(C, st, c) + st[c]
           /\ Upto(C, st, c) <= TotalOf(C, st)
           /\ \A d \in C : d < c => Upto(C, st, d) <= Before(C, st, c)
           /\ (\A d \in C : d <= c) => Upto(C, st, c) = TotalOf(C, st)
           /\ \/ Before(C, st, c) = 0
              \/ \E d \in C : d < c /\ Before(C, st, c) = Upto(C, st, d)
<1> DEFINE w == WeightsOf(C, st)
           low == {d \in C : d < c}
           top == {d \in C : d <= c}
<1>0. C \subseteq Int /\ c \in Int /\ DOMAIN w = C /\ \A d \in C : d \in Int
  BY DEF Staked, WeightsOf
<1>1. Upto(C, st, c) \in Nat /\ Before(C, st, c) \in Nat /\ TotalOf(C, st) \in Nat
  BY <1>0, WeightsAreNumbers DEF Upto, Before, TotalOf, P!TotalWeight
<1>2. Upto(C, st, c) = Before(C, st, c) + st[c]
  <2>1. top = low \cup {c} /\ c \notin low /\ low \in SUBSET C
    <3>1. \A d \in C : d <= c <=> d < c \/ d = c
      BY <1>0
    <3>2. ~ (c < c) /\ c <= c
      BY <1>0
    <3>3. top = {d \in C : d < c \/ d = c}
      BY <3>1
    <3> QED BY <3>2, <3>3
  <2> HIDE DEF low, top
  <2>2. P!WeightOf(w, top) = P!WeightOf(w, low) + st[c]
    BY <2>1, WeightAdds
  <2> QED BY <2>2 DEF Upto, Before, low, top
<1>3. Upto(C, st, c) <= TotalOf(C, st)
  <2>1. top \subseteq C
    OBVIOUS
  <2>2. P!WeightOf(w, top) <= P!WeightOf(w, C)
    <3> HIDE DEF top, w
    <3> QED BY <2>1, WeightsAreNumbers DEF w
  <2> QED BY <1>0, <2>2 DEF Upto, TotalOf, P!TotalWeight
<1>4. ASSUME NEW d \in C, d < c PROVE Upto(C, st, d) <= Before(C, st, c)
  <2>1. \A e \in C : e <= d => e < c
    BY <1>0, <1>4
  <2>2. P!WeightOf(w, {e \in C : e <= d}) <= P!WeightOf(w, low)
    <3> DEFINE toD == {e \in C : e <= d}
    <3>1. toD \subseteq low
      BY <2>1
    <3> HIDE DEF low, toD
    <3> QED BY <3>1, WeightsAreNumbers DEF toD
  <2> QED BY <2>2 DEF Upto, Before
<1>5. ASSUME \A d \in C : d <= c PROVE Upto(C, st, c) = TotalOf(C, st)
  <2>1. top = C
    BY <1>5
  <2> QED BY <1>0, <2>1 DEF Upto, TotalOf, P!TotalWeight
<1>6. CASE low = {}
  <2>1. P!VoteUnits(w, {}) = {}
    BY DEF P!VoteUnits
  <2>2. Before(C, st, c) = 0
    BY <1>6, <2>1, FS_EmptySet, WeightCounts DEF Before
  <2> QED BY <1>1, <1>2, <1>3, <1>4, <1>5, <2>2
<1>7. CASE low # {}
  <2>1. low \in SUBSET Int /\ IsFiniteSet(low)
    BY <1>0, FS_Subset DEF Staked
  <2>2. PICK d \in low : \A e \in low : e <= d
    <3> HIDE DEF low
    <3> QED BY <1>7, <2>1, LeastAndGreatest
  <2>3. {e \in C : e <= d} = low
    <3>1. \A e \in C : e <= d <=> e < c
      <4> SUFFICES ASSUME NEW e \in C PROVE e <= d <=> e < c
        OBVIOUS
      <4>1. e \in Int /\ d \in Int /\ c \in Int /\ d < c
        BY <1>0
      <4>2. e < c => e <= d
        BY <2>2
      <4> QED BY <4>1, <4>2
    <3> QED BY <3>1
  <2>4. d \in C /\ d < c /\ Before(C, st, c) = Upto(C, st, d)
    BY <2>2, <2>3 DEF Before, Upto
  <2> QED BY <1>1, <1>2, <1>3, <1>4, <1>5, <2>4
<1> QED BY <1>6, <1>7


-----------------------------------------------------------------------------
(* Picks *)

\* c is where the walk stops: the running weight passes x at c and not before.
StopsAt(C, st, x, c) ==
    /\ x < Upto(C, st, c)
    /\ \A d \in C : d < c => x >= Upto(C, st, d)

\* The walk stops somewhere, and at one candidate only.
LEMMA TheWalkStops ==
    ASSUME NEW C, NEW st, Staked(C, st), NEW x \in 0 .. TotalOf(C, st) - 1
    PROVE  /\ \E c \in C : StopsAt(C, st, x, c)
           /\ \A c, d \in C : StopsAt(C, st, x, c) /\ StopsAt(C, st, x, d) => c = d
<1>0. C \in SUBSET Int /\ IsFiniteSet(C) /\ \A c \in C : c \in Int /\ Upto(C, st, c) \in Nat
  BY TheWalk DEF Staked
<1>1. \A c, d \in C : StopsAt(C, st, x, c) /\ StopsAt(C, st, x, d) => c = d
  <2> SUFFICES ASSUME NEW c \in C, NEW d \in C, StopsAt(C, st, x, c), StopsAt(C, st, x, d), c # d
               PROVE  FALSE
    OBVIOUS
  <2>1. c < d \/ d < c
    BY <1>0
  <2>2. x \in Int /\ Upto(C, st, c) \in Nat /\ Upto(C, st, d) \in Nat
    BY <1>0
  <2> QED BY <2>1, <2>2 DEF StopsAt
<1> DEFINE passed == {c \in C : x < Upto(C, st, c)}
<1>2. C # {}
  <2> SUFFICES ASSUME C = {} PROVE FALSE
    OBVIOUS
  <2>1. P!VoteUnits(WeightsOf(C, st), C) = {}
    BY DEF P!VoteUnits
  <2>2. TotalOf(C, st) = 0
    BY <2>1, FS_EmptySet, WeightCounts DEF TotalOf, P!TotalWeight, WeightsOf
  <2> QED BY <2>2
<1>3. passed # {}
  <2>1. PICK g \in C : \A d \in C : d <= g
    BY <1>0, <1>2, LeastAndGreatest
  <2>2. Upto(C, st, g) = TotalOf(C, st) /\ TotalOf(C, st) \in Nat
    BY <2>1, TheWalk
  <2> QED BY <2>2
<1>4. passed \in SUBSET Int /\ IsFiniteSet(passed)
  BY <1>0, FS_Subset
<1>5. PICK c \in passed : \A d \in passed : c <= d
  <2> HIDE DEF passed
  <2> QED BY <1>3, <1>4, LeastAndGreatest
<1>6. ASSUME NEW d \in C, d < c PROVE x >= Upto(C, st, d)
  <2>1. d \in Int /\ c \in Int /\ x \in Int /\ Upto(C, st, d) \in Nat
    BY <1>0
  <2>2. d \notin passed
    BY <1>5, <1>6, <2>1
  <2> QED BY <2>1, <2>2
<1>7. StopsAt(C, st, x, c)
  BY <1>6 DEF StopsAt
<1> QED BY <1>1, <1>7

\* The walk stops at c for as many numbers as c has stake.
LEMMA StopsBetween ==
    ASSUME NEW C, NEW st, Staked(C, st), NEW c \in C, NEW x \in Nat
    PROVE  StopsAt(C, st, x, c) <=> x \in Before(C, st, c) .. Upto(C, st, c) - 1
<1>0. /\ Upto(C, st, c) \in Nat /\ Before(C, st, c) \in Nat
      /\ \A d \in C : Upto(C, st, d) \in Nat
      /\ \A d \in C : d < c => Upto(C, st, d) <= Before(C, st, c)
      /\ \/ Before(C, st, c) = 0
         \/ \E d \in C : d < c /\ Before(C, st, c) = Upto(C, st, d)
  BY TheWalk
<1>1. ASSUME StopsAt(C, st, x, c) PROVE Before(C, st, c) <= x /\ x < Upto(C, st, c)
  BY <1>0, <1>1 DEF StopsAt
<1>2. ASSUME Before(C, st, c) <= x, x < Upto(C, st, c) PROVE StopsAt(C, st, x, c)
  <2>1. ASSUME NEW d \in C, d < c PROVE x >= Upto(C, st, d)
    BY <1>0, <1>2, <2>1
  <2> QED BY <1>2, <2>1 DEF StopsAt
<1> QED BY <1>0, <1>1, <1>2

\* A pick is one of the candidates: where the walk stops, if anybody has stake.
LEMMA PickIsACandidate ==
    ASSUME NEW C, NEW st, Staked(C, st), C # {}, NEW seed \in Nat
    PROVE  /\ P!PickWeighted(seed, C, st) \in C
           /\ TotalOf(C, st) > 0 =>
                 /\ seed % TotalOf(C, st) \in 0 .. TotalOf(C, st) - 1
                 /\ StopsAt(C, st, seed % TotalOf(C, st), P!PickWeighted(seed, C, st))
<1>1. TotalOf(C, st) \in Nat
  BY TheWalk
<1>2. CASE TotalOf(C, st) = 0
  <2> DEFINE k == seed % Cardinality(C)
  <2>1. Cardinality(C) \in Nat \ {0}
    BY FS_CardinalityType, FS_EmptySet DEF Staked
  <2>2. k \in 0 .. Cardinality(C) - 1
    BY <2>1
  <2>3. \E v \in C : Cardinality({u \in C : u < v}) = k
    <3> HIDE DEF k
    <3> QED BY <2>2, EveryRankIsTaken DEF Staked
  <2>4. P!ElemAt(k, C) \in C
    BY <2>3, CardinalityIsCardinality DEF P!ElemAt
  <2>5. P!PickWeighted(seed, C, st) = P!ElemAt(k, C)
    BY <1>2, CardinalityIsCardinality DEF P!PickWeighted, TotalOf, WeightsOf
  <2> QED BY <1>2, <2>4, <2>5
<1>3. CASE TotalOf(C, st) # 0
  <2> DEFINE x == seed % TotalOf(C, st)
  <2>1. x \in 0 .. TotalOf(C, st) - 1
    BY <1>1, <1>3
  <2>2. P!PickWeighted(seed, C, st) = CHOOSE c \in C : StopsAt(C, st, x, c)
    BY <1>3 DEF P!PickWeighted, TotalOf, WeightsOf, StopsAt, Upto
  <2>3. \E c \in C : StopsAt(C, st, x, c)
    <3> HIDE DEF x
    <3> QED BY <2>1, TheWalkStops
  <2> QED BY <2>1, <2>2, <2>3
<1> QED BY <1>2, <1>3


\* Of the numbers below the total, as many pick c as c has stake.
LEMMA PicksAreProportional ==
    ASSUME NEW C, NEW st, Staked(C, st), TotalOf(C, st) > 0, NEW c \in C
    PROVE  Cardinality({s \in 0 .. TotalOf(C, st) - 1 : P!PickWeighted(s, C, st) = c}) = st[c]
<1> DEFINE total  == TotalOf(C, st)
           low    == Before(C, st, c)
           high   == Upto(C, st, c)
           picked == {s \in 0 .. total - 1 : P!PickWeighted(s, C, st) = c}
<1>1. /\ high \in Nat /\ low \in Nat /\ total \in Nat /\ st[c] \in Nat
      /\ high = low + st[c] /\ high <= total
  BY TheWalk DEF Staked
<1>2. C # {}
  OBVIOUS
<1>3. ASSUME NEW s \in 0 .. total - 1
      PROVE  P!PickWeighted(s, C, st) = c <=> s \in low .. high - 1
  <2>1. s \in Nat /\ s % total = s
    <3> HIDE DEF total
    <3> QED BY <1>1
  <2>2. P!PickWeighted(s, C, st) \in C /\ StopsAt(C, st, s, P!PickWeighted(s, C, st))
    BY <1>2, <2>1, PickIsACandidate
  <2>3. P!PickWeighted(s, C, st) = c <=> StopsAt(C, st, s, c)
    BY <2>2, TheWalkStops
  <2> QED BY <2>1, <2>3, StopsBetween
<1> HIDE DEF total, low, high
<1>4. low .. high - 1 \subseteq 0 .. total - 1
  BY <1>1
<1>5. picked = low .. high - 1
  BY <1>3, <1>4
<1>6. Cardinality(low .. high - 1) = IF low > high - 1 THEN 0 ELSE high - 1 - low + 1
  <2>1. low \in Int /\ high - 1 \in Int
    BY <1>1
  <2> QED BY <2>1, FS_Interval
<1>7. Cardinality(low .. high - 1) = st[c]
  BY <1>1, <1>6
<1> QED BY <1>5, <1>7 DEF total

-----------------------------------------------------------------------------
(* Rounds *)

RoundsTypeOK ==
    /\ seeds  \in [0 .. MaxRound -> 0 .. MaxSeed]
    /\ stakes \in [Validator -> 0 .. MaxStake]
    /\ start \in Nat /\ round \in Nat
    /\ start <= round /\ (round = start \/ round <= MaxRound)

\* Candidates of round r, and the pick among them.
Left(r)   == P!Candidates(1, Validator, stakes, start, r)
Picked(r) == P!PickWeighted(seeds[r], Left(r), stakes)

\* f lists the candidates of the rounds up to b.
Lists(f, b) ==
    f = [r \in start .. b |->
            IF r = start THEN Validator
            ELSE f[r - 1] \ {P!PickWeighted(seeds[r - 1], f[r - 1], stakes)}]

LEMMA ListsBegin ==
    ASSUME RoundsTypeOK, NEW b \in Nat, start < b, NEW f, Lists(f, b)
    PROVE  Lists([r \in start .. b - 1 |-> f[r]], b - 1)
<1> DEFINE g == [r \in start .. b - 1 |-> f[r]]
<1>1. ASSUME NEW r \in start .. b - 1
      PROVE  f[r] = IF r = start THEN Validator
                    ELSE g[r - 1] \ {P!PickWeighted(seeds[r - 1], g[r - 1], stakes)}
  <2>1. r \in start .. b /\ (r # start => r - 1 \in start .. b - 1)
    BY DEF RoundsTypeOK
  <2>2. f[r] = IF r = start THEN Validator
               ELSE f[r - 1] \ {P!PickWeighted(seeds[r - 1], f[r - 1], stakes)}
    BY <2>1 DEF Lists
  <2> QED BY <2>1, <2>2
<1> QED BY <1>1 DEF Lists

\* There is one such list for every round.
LEMMA OneList ==
    ASSUME RoundsTypeOK, NEW k \in Nat
    PROVE  \E f : Lists(f, start + k) /\ \A g : Lists(g, start + k) => g = f
<1> DEFINE listed == {n \in Nat : \E f : Lists(f, start + n) /\ \A g : Lists(g, start + n) => g = f}
<1>0. start \in Nat
  BY DEF RoundsTypeOK
<1>1. 0 \in listed
  <2>1. start .. start + 0 = {start}
    BY <1>0
  <2>2. Lists([r \in {start} |-> Validator], start + 0)
    BY <2>1 DEF Lists
  <2>3. ASSUME NEW g, Lists(g, start + 0) PROVE g = [r \in {start} |-> Validator]
    BY <2>1, <2>3 DEF Lists
  <2> QED BY <2>2, <2>3
<1>2. ASSUME NEW n \in listed PROVE n + 1 \in listed
  <2> DEFINE a == start + n
             b == start + (n + 1)
  <2>1. n \in Nat /\ a \in Nat /\ b \in Nat /\ b = a + 1 /\ start < b /\ b - 1 = a
    BY <1>0
  <2>2. PICK f : Lists(f, a) /\ \A g : Lists(g, a) => g = f
    OBVIOUS
  <2> HIDE DEF a, b
  <2> DEFINE last == f[a] \ {P!PickWeighted(seeds[a], f[a], stakes)}
             h    == [r \in start .. b |-> IF r = b THEN last ELSE f[r]]
  <2>3. ASSUME NEW r \in start .. b
        PROVE  h[r] = IF r = start THEN Validator
                      ELSE h[r - 1] \ {P!PickWeighted(seeds[r - 1], h[r - 1], stakes)}
    <3>1. CASE r = b
      <4>1. r - 1 = a /\ a \in start .. b /\ a # b /\ r # start
        BY <1>0, <2>1, <3>1
      <4> QED BY <3>1, <4>1
    <3>2. CASE r # b
      <4>1. /\ r \in start .. a
            /\ r # start => r - 1 \in start .. b /\ r - 1 # b
        BY <1>0, <2>1, <3>2
      <4>2. f[r] = IF r = start THEN Validator
                   ELSE f[r - 1] \ {P!PickWeighted(seeds[r - 1], f[r - 1], stakes)}
        BY <2>2, <4>1 DEF Lists
      <4> QED BY <3>2, <4>1, <4>2
    <3> QED BY <3>1, <3>2
  <2>4. Lists(h, b)
    BY <2>3 DEF Lists
  <2>5. ASSUME NEW g, Lists(g, b) PROVE g = h
    <3>1. [r \in start .. b - 1 |-> g[r]] = f
      BY <2>1, <2>2, <2>5, ListsBegin
    <3>2. \A r \in start .. a : g[r] = f[r]
      BY <2>1, <3>1
    <3>3. g[b] = g[a] \ {P!PickWeighted(seeds[a], g[a], stakes)}
      <4>1. b \in start .. b /\ b # start
        BY <1>0, <2>1
      <4> QED BY <2>1, <2>5, <4>1 DEF Lists
    <3>4. a \in start .. a
      BY <1>0, <2>1 DEF a
    <3>5. \A r \in start .. b : g[r] = h[r]
      <4>1. \A r \in start .. b : r = b \/ r \in start .. a
        BY <1>0, <2>1
      <4>2. g[b] = last
        BY <3>2, <3>3, <3>4
      <4> QED BY <3>2, <4>1, <4>2
    <3>6. g = [r \in start .. b |-> g[r]]
      BY <2>5 DEF Lists
    <3> HIDE DEF last
    <3>7. g = [r \in start .. b |-> h[r]]
      BY <3>5, <3>6
    <3> QED BY <3>7
  <2>6. Lists(h, start + (n + 1)) /\ \A g : Lists(g, start + (n + 1)) => g = h
    BY <2>4, <2>5 DEF b
  <2> HIDE DEF h
  <2> QED BY <2>1, <2>6
<1>3. listed = Nat
  <2> HIDE DEF listed
  <2>1. listed \in SUBSET Nat
    BY DEF listed
  <2> QED BY <1>1, <1>2, <2>1, InductionOnNat
<1> QED BY <1>3


\* The candidates of the next round are those of this one without its pick.
LEMMA LeftStep ==
    ASSUME RoundsTypeOK, NEW r \in Nat, start <= r
    PROVE  /\ Left(start) = Validator
           /\ Left(r + 1) = Left(r) \ {Picked(r)}
<1>0. start \in Nat /\ r + 1 \in Nat /\ start < r + 1 /\ (r + 1) - 1 = r
  BY DEF RoundsTypeOK
<1>1. ASSUME NEW b \in Nat, start <= b, NEW f, Lists(f, b) PROVE Left(b) = f[b]
  <2>1. PICK k \in Nat : b = start + k
    BY <1>0, <1>1
  <2>2. \A g : Lists(g, b) => g = f
    BY <1>1, <2>1, OneList
  <2>3. Left(b) = (CHOOSE g : Lists(g, b))[b]
    BY DEF Left, Lists, P!Candidates, SeedOf
  <2>4. Lists(CHOOSE g : Lists(g, b), b)
    BY <1>1
  <2> QED BY <2>2, <2>3, <2>4
<1>2. PICK f : Lists(f, r + 1)
  <2>1. PICK k \in Nat : r + 1 = start + k
    BY <1>0
  <2> QED BY <2>1, OneList
<1>3. Lists([q \in start .. r |-> f[q]], r)
  BY <1>0, <1>2, ListsBegin
<1>4. Left(r) = f[r] /\ Left(r + 1) = f[r + 1]
  <2>1. r \in start .. r
    BY <1>0
  <2> QED BY <1>0, <1>1, <1>2, <1>3, <2>1
<1>5. f[r + 1] = f[r] \ {P!PickWeighted(seeds[r], f[r], stakes)}
  <2>1. r + 1 \in start .. r + 1 /\ r + 1 # start
    BY <1>0
  <2> QED BY <1>0, <1>2, <2>1 DEF Lists
<1>6. Left(start) = Validator
  <2>1. PICK g : Lists(g, start)
    <3>1. start + 0 = start
      BY <1>0
    <3> QED BY <3>1, OneList
  <2>2. start \in start .. start
    BY <1>0
  <2>3. g[start] = Validator
    BY <2>1, <2>2 DEF Lists
  <2> QED BY <1>0, <1>1, <2>1, <2>3
<1> QED BY <1>4, <1>5, <1>6 DEF Picked


\* After k rounds at most k candidates are gone, all that were picked among them.
LEMMA WhoIsLeft ==
    ASSUME RoundsTypeOK, NEW k \in Nat
    PROVE  /\ Left(start + k) \subseteq Validator
           /\ Cardinality(Left(start + k)) >= Cardinality(Validator) - k
           /\ \A j \in 0 .. k - 1 : Picked(start + j) \notin Left(start + k)
<1> DEFINE holds(m) == /\ Left(start + m) \subseteq Validator
                       /\ Cardinality(Left(start + m)) >= Cardinality(Validator) - m
                       /\ \A j \in 0 .. m - 1 : Picked(start + j) \notin Left(start + m)
           good == {m \in Nat : holds(m)}
<1>0. start \in Nat /\ IsFiniteSet(Validator) /\ Cardinality(Validator) \in Nat
  BY RoundsAssumption, FS_CardinalityType DEF RoundsTypeOK
<1>1. 0 \in good
  <2>1. start + 0 = start
    BY <1>0
  <2>2. Left(start + 0) = Validator
    BY <1>0, <2>1, LeftStep
  <2> QED BY <1>0, <2>2
<1>2. ASSUME NEW m \in good PROVE m + 1 \in good
  <2>1. m \in Nat /\ holds(m)
    OBVIOUS
  <2>2. start + m \in Nat /\ start <= start + m /\ start + (m + 1) = (start + m) + 1
    BY <1>0, <2>1
  <2>3. Left(start + (m + 1)) = Left(start + m) \ {Picked(start + m)}
    BY <2>2, LeftStep
  <2>4. Left(start + (m + 1)) \subseteq Validator
    BY <2>1, <2>3
  <2>5. Cardinality(Left(start + (m + 1))) >= Cardinality(Validator) - (m + 1)
    <3>1. IsFiniteSet(Left(start + m))
      BY <1>0, <2>1, FS_Subset
    <3>2. Cardinality(Left(start + m)) \in Nat
      BY <3>1, FS_CardinalityType
    <3>3. Cardinality(Left(start + (m + 1))) \in {Cardinality(Left(start + m)), Cardinality(Left(start + m)) - 1}
      BY <2>3, <3>1, FS_RemoveElement
    <3> QED BY <1>0, <2>1, <3>2, <3>3
  <2>6. ASSUME NEW j \in 0 .. (m + 1) - 1 PROVE Picked(start + j) \notin Left(start + (m + 1))
    <3>1. j = m \/ j \in 0 .. m - 1
      BY <2>1
    <3> QED BY <2>1, <2>3, <3>1
  <2>7. m + 1 \in Nat
    BY <2>1
  <2> QED BY <2>4, <2>5, <2>6, <2>7
<1>3. good = Nat
  <2> HIDE DEF good
  <2>1. good \in SUBSET Nat
    BY DEF good
  <2> QED BY <1>1, <1>2, <2>1, InductionOnNat
<1> QED BY <1>3

\* In its first n rounds a height picks among those it has not picked yet.
LEMMA ProposersArePicked ==
    ASSUME RoundsTypeOK, NEW r \in Nat, start <= r, r < start + Cardinality(Validator)
    PROVE  ProposerAt(r) = Picked(r)
<1>1. start \in Nat /\ Cardinality(Validator) \in Nat
  BY RoundsAssumption, FS_CardinalityType DEF RoundsTypeOK
<1>2. P!FirstRound(Validator, start, r) = start
  BY <1>1, CardinalityIsCardinality DEF P!FirstRound, P!Maximum2
<1>3. P!Maximum2(start, r) = r
  BY <1>1 DEF P!Maximum2
<1> QED BY <1>2, <1>3 DEF ProposerAt, P!SelectProposer, Picked, Left, SeedOf

LEMMA StakesAreStaked ==
    ASSUME RoundsTypeOK, NEW C \in SUBSET Validator PROVE Staked(C, stakes)
<1>1. C \subseteq Int /\ IsFiniteSet(C)
  <2>1. Validator \subseteq Int /\ IsFiniteSet(Validator)
    BY RoundsAssumption
  <2> QED BY <2>1, FS_Subset
<1>2. \A c \in C : stakes[c] \in Nat
  BY RoundsAssumption DEF RoundsTypeOK
<1> QED BY <1>1, <1>2 DEF Staked

LEMMA TurnsAreTaken == RoundsTypeOK => EveryoneHasATurn
<1> SUFFICES ASSUME RoundsTypeOK, round < start + Cardinality(Validator), NEW r \in start .. round - 1
             PROVE  ProposerAt(r) # ProposerAt(round)
  BY DEF EveryoneHasATurn
<1>1. /\ start \in Nat /\ round \in Nat /\ r \in Nat /\ start <= r /\ r < round
      /\ round <= MaxRound /\ Cardinality(Validator) \in Nat
  BY RoundsAssumption, FS_CardinalityType DEF RoundsTypeOK
<1>2. ProposerAt(r) = Picked(r) /\ ProposerAt(round) = Picked(round)
  BY <1>1, ProposersArePicked
<1>3. PICK k \in Nat : round = start + k
  BY <1>1
<1>4. Picked(r) \notin Left(round)
  <2>1. PICK j \in 0 .. k - 1 : r = start + j
    <3>1. r - start \in 0 .. k - 1 /\ r = start + (r - start)
      BY <1>1, <1>3
    <3> QED BY <3>1
  <2> QED BY <1>3, <2>1, WhoIsLeft
<1>5. Left(round) \subseteq Validator /\ Left(round) # {}
  <2>1. Left(round) \subseteq Validator /\ Cardinality(Left(round)) >= Cardinality(Validator) - k
    BY <1>3, WhoIsLeft
  <2>2. Cardinality(Left(round)) # 0
    <3>1. IsFiniteSet(Left(round))
      BY <2>1, RoundsAssumption, FS_Subset
    <3>2. Cardinality(Left(round)) \in Nat
      BY <3>1, FS_CardinalityType
    <3> QED BY <1>1, <1>3, <2>1, <3>2
  <2> QED BY <2>1, <2>2, FS_EmptySet
<1>6. seeds[round] \in Nat
  BY <1>1, RoundsAssumption DEF RoundsTypeOK
<1>7. Picked(round) \in Left(round)
  BY <1>5, <1>6, StakesAreStaked, PickIsACandidate DEF Picked
<1> QED BY <1>2, <1>4, <1>7

LEMMA StakesAreHeeded == RoundsTypeOK => PickIsProportional
<1> SUFFICES ASSUME RoundsTypeOK, NEW C \in SUBSET Validator, TotalOf(C, stakes) > 0, NEW c \in C
             PROVE  Cardinality({s \in 0 .. TotalOf(C, stakes) - 1 : P!PickWeighted(s, C, stakes) = c})
                        = stakes[c]
  BY DEF PickIsProportional, TotalOf, WeightsOf
<1> QED BY StakesAreStaked, PicksAreProportional

LEMMA RoundsTypes == Spec => []RoundsTypeOK
<1>1. Init => RoundsTypeOK
  BY DEF Init, RoundsTypeOK
<1>2. RoundsTypeOK /\ [Next]_vars => RoundsTypeOK'
  BY RoundsAssumption DEF RoundsTypeOK, Next, ChangeRound, vars
<1> QED BY <1>1, <1>2, PTL DEF Spec

\* As many silent proposers as there may be cannot hold up a height: for any
\* validators, stakes and seeds, its first n rounds have n proposers.
THEOREM TurnsHold == Spec => []EveryoneHasATurn
  BY RoundsTypes, TurnsAreTaken, PTL

\* pickWeighted is fair to stake, whatever the candidates and the stakes.
THEOREM ProportionHolds == Spec => []PickIsProportional
  BY RoundsTypes, StakesAreHeeded, PTL
=============================================================================
