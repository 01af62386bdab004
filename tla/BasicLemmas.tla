---------------------------- MODULE BasicLemmas ----------------------------
(***************************************************************************)
(* Facts about numbers, finite sets and sequences that the proofs of       *)
(* several components use.                                                 *)
(***************************************************************************)
EXTENDS Integers, Sequences, FiniteSets, SequencesExt, FiniteSetsExt, FiniteSetTheorems,
        WellFoundedInduction, TLAPS

\* The least-number principle, on which every induction here rests, and with
\* it the value of Max().
LEMMA LeastNatural ==
    ASSUME NEW T \in SUBSET Nat, T # {}
    PROVE  \E x \in T : \A y \in T : x <= y
<1> DEFINE R == {ss \in Nat \X Nat : ss[1] < ss[2]}
<1>1. IsWellFoundedOn(R, Nat)
    BY NatLessThanWellFounded DEF OpToRel
<1> HIDE DEF R
<1>2. PICK x \in T : \A y \in T : <<y, x>> \notin R
    BY <1>1, WFMin
<1>3. ASSUME NEW y \in T PROVE x <= y
    <2>1. x \in Nat /\ y \in Nat
        OBVIOUS
    <2>2. <<y, x>> \notin R
        BY <1>2
    <2>3. ~(y < x)
        BY <2>1, <2>2 DEF R
    <2> QED BY <2>1, <2>3
<1> QED BY <1>3

LEMMA MaxOfInterval ==
    ASSUME NEW a \in Int, NEW b \in Int, NEW S \in SUBSET (a..b), S # {}
    PROVE  Max(S) \in S
<1> DEFINE T == {b - k : k \in S}
<1>1. T \in SUBSET Nat
    OBVIOUS
<1>2. T # {}
    <2>1. PICK k \in S : TRUE
        OBVIOUS
    <2>2. b - k \in T
        OBVIOUS
    <2> QED BY <2>2
<1>3. PICK x \in T : \A y \in T : x <= y
    BY <1>1, <1>2, LeastNatural
<1>4. PICK k \in S : x = b - k
    BY <1>3
<1>5. ASSUME NEW j \in S PROVE k >= j
    <2>1. x <= b - j
        BY <1>3
    <2>2. j \in Int /\ k \in Int
        OBVIOUS
    <2> QED BY <1>4, <2>1, <2>2
<1>6. \E m \in S : \A y \in S : m >= y
    BY <1>5
<1> QED BY <1>6 DEF Max

\* RemoveAt() at a place of a sequence, or at 0, which removes nothing.
LEMMA RemoveAtType ==
    ASSUME NEW S, NEW q \in Seq(S), NEW k \in 0..Len(q)
    PROVE  RemoveAt(q, k) \in Seq(S)
<1>1. Len(q) \in Nat /\ k \in Nat
    OBVIOUS
<1>2. SubSeq(q, 1, k - 1) \in Seq(S)
    BY <1>1
<1>3. SubSeq(q, k + 1, Len(q)) \in Seq(S)
    BY <1>1
<1> QED BY <1>2, <1>3 DEF RemoveAt

\* SetToSeq() of a finite set lists its members.
LEMMA SetToSeqType ==
    ASSUME NEW S, IsFiniteSet(S)
    PROVE  SetToSeq(S) \in Seq(S)
<1>1. Cardinality(S) \in Nat /\ ExistsBijection(1..Cardinality(S), S)
    BY FS_CardinalityType
<1>2. \E f \in [1..Cardinality(S) -> S] : IsInjective(f)
    BY <1>1 DEF ExistsBijection, Bijection, Injection
<1>3. SetToSeq(S) \in [1..Cardinality(S) -> S]
    BY <1>2 DEF SetToSeq
<1> QED BY <1>1, <1>3

-----------------------------------------------------------------------------
(***************************************************************************)
(* Folds over lists and recursive functions. The induction principles of   *)
(* the library take an operator, which no prover here can instantiate; so  *)
(* what a turn does is a function G, and each induction is the choice of a *)
(* least number of turns after which the claim fails.                      *)
(***************************************************************************)

\* The last place of a list's beginning.
LEMMA PrefixMax ==
    ASSUME NEW n \in Nat, NEW k \in 1..n
    PROVE  /\ Max(1..k) = k /\ (1..k) \ {k} = 1..(k - 1)
           /\ 1..k # {} /\ 1..k \in SUBSET (1..n)
<1>1. k \in 1..k /\ \A y \in 1..k : k >= y
    OBVIOUS
<1>2. Max(1..k) \in 1..k /\ \A y \in 1..k : Max(1..k) >= y
    BY <1>1 DEF Max
<1>3. Max(1..k) = k
    BY <1>2
<1>4. (1..k) \ {k} = 1..(k - 1) /\ 1..k # {} /\ 1..k \in SUBSET (1..n)
    OBVIOUS
<1> QED BY <1>3, <1>4

\* What a fold over a list of n builds: a function over the sets of places, from the
\* empty set on, where G(<<k, v>>) is the turn of place k.
IsFold(h, n, base, G) ==
    \A T \in SUBSET (1..n) :
        /\ T = {} => h[T] = base
        /\ T # {} => h[T] = G[<<Max(T), h[T \ {Max(T)}]>>]

\* A function over the sets of places of a list, as a fold builds it, exists: on the
\* sets of at most m places for every m, since the least m without one would have one.
LEMMA FoldExists ==
    ASSUME NEW n \in Nat, NEW V, NEW base \in V, NEW G \in [(1..n) \X V -> V]
    PROVE  \E h \in [SUBSET (1..n) -> V] : IsFold(h, n, base, G)
<1> DEFINE S       == SUBSET (1..n)
           Round(h) == [T \in S |-> IF T = {} THEN base ELSE G[<<Max(T), h[T \ {Max(T)}]>>]]
           N       == {m \in Nat : ~ \E h \in [S -> V] :
                                      \A T \in S : Cardinality(T) <= m => h[T] = Round(h)[T]}
<1>1. ASSUME NEW T \in S
      PROVE  /\ Cardinality(T) \in Nat /\ Cardinality(T) <= n
             /\ Cardinality(T) = 0 => T = {}
             /\ T # {} => /\ Max(T) \in 1..n /\ T \ {Max(T)} \in S
                          /\ Cardinality(T \ {Max(T)}) = Cardinality(T) - 1
    <2>1. IsFiniteSet(1..n) /\ Cardinality(1..n) = n
        BY FS_Interval
    <2>2. IsFiniteSet(T) /\ Cardinality(T) <= n
        <3>1. IsFiniteSet(T) /\ Cardinality(T) <= Cardinality(1..n)
            BY <2>1, FS_Subset
        <3> QED BY <2>1, <3>1
    <2>3. Cardinality(T) \in Nat /\ (Cardinality(T) = 0 => T = {})
        BY <2>2, FS_CardinalityType, FS_EmptySet
    <2>4. T # {} => Max(T) \in T
        BY MaxOfInterval
    <2>5. T # {} => Cardinality(T \ {Max(T)}) = Cardinality(T) - 1
        BY <2>2, <2>4, FS_RemoveElement
    <2> QED BY <2>2, <2>3, <2>4, <2>5
<1>2. ASSUME NEW h \in [S -> V] PROVE Round(h) \in [S -> V]
    <2>1. ASSUME NEW T \in S, T # {} PROVE G[<<Max(T), h[T \ {Max(T)}]>>] \in V
        BY <1>1, <2>1
    <2> QED BY <2>1
<1>3. N = {}
    <2> SUFFICES ASSUME N # {} PROVE FALSE
        OBVIOUS
    <2>1. PICK m \in N : \A y \in N : m <= y
        <3> HIDE DEF N
        <3>1. N \in SUBSET Nat
            BY DEF N
        <3> QED BY <3>1, LeastNatural
    <2>2. m \in Nat
        OBVIOUS
    <2>3. m # 0
        <3> SUFFICES ASSUME m = 0 PROVE FALSE
            OBVIOUS
        <3> DEFINE h == [T \in S |-> base]
        <3>1. ASSUME NEW T \in S, Cardinality(T) <= m PROVE h[T] = Round(h)[T]
            <4>1. Cardinality(T) = 0
                <5>1. Cardinality(T) \in Nat /\ Cardinality(T) <= 0
                    BY <1>1, <3>1
                <5> QED BY <5>1
            <4>2. T = {}
                BY <1>1, <4>1
            <4> QED BY <4>2
        <3>2. h \in [S -> V]
            OBVIOUS
        <3> HIDE DEF h, Round
        <3> QED BY <3>1, <3>2
    <2>4. m - 1 \in Nat /\ m - 1 \notin N
        <3> HIDE DEF N
        <3>1. m - 1 \in Nat /\ ~(m <= m - 1)
            BY <2>2, <2>3
        <3> QED BY <2>1, <3>1
    <2>5. PICK h \in [S -> V] : \A T \in S : Cardinality(T) <= m - 1 => h[T] = Round(h)[T]
        BY <2>4
    <2> DEFINE g == Round(h)
    <2>6. ASSUME NEW T \in S, Cardinality(T) <= m PROVE g[T] = Round(g)[T]
        <3>1. CASE T = {}
            BY <3>1
        <3>2. CASE T # {}
            <4> DEFINE U == T \ {Max(T)}
            <4>1. U \in S /\ Cardinality(U) <= m - 1
                BY <1>1, <2>2, <2>6, <3>2
            <4>2. h[U] = g[U]
                BY <2>5, <4>1
            <4>3. g[T] = G[<<Max(T), h[U]>>]
                BY <3>2
            <4> HIDE DEF g
            <4>4. Round(g)[T] = G[<<Max(T), g[U]>>]
                BY <3>2
            <4> QED BY <4>2, <4>3, <4>4
        <3> QED BY <3>1, <3>2
    <2>7. g \in [S -> V]
        BY <1>2
    <2> HIDE DEF g, Round
    <2> QED BY <2>2, <2>6, <2>7
<1>4. PICK h \in [S -> V] : \A T \in S : Cardinality(T) <= n => h[T] = Round(h)[T]
    BY <1>3
<1>5. \A T \in S : h[T] = Round(h)[T]
    <2> HIDE DEF Round
    <2> QED BY <1>1, <1>4
<1> QED BY <1>5 DEF IsFold

\* The same, as far as its values are in V, on which G is defined.
IsFoldOn(V, h, n, base, G) ==
    \A T \in SUBSET (1..n) :
        /\ T = {} => h[T] = base
        /\ T # {} /\ h[T \ {Max(T)}] \in V => h[T] = G[<<Max(T), h[T \ {Max(T)}]>>]

\* What each turn of a fold over a list of n keeps holds of its result: W[k] is what
\* holds after k turns, V what the turns are defined on.
LEMMA FoldKeeps ==
    ASSUME NEW n \in Nat, NEW V, NEW W \in [0..n -> SUBSET V], NEW base \in W[0],
           NEW G \in [(1..n) \X V -> V],
           \A k \in 1..n : \A v \in W[k - 1] : G[<<k, v>>] \in W[k],
           NEW h,
           IsFoldOn(V, h, n, base, G)
    PROVE  h[1..n] \in W[n]
<1> DEFINE N == {k \in 0..n : h[1..k] \notin W[k]}
<1>1. N = {}
    <2> SUFFICES ASSUME N # {} PROVE FALSE
        OBVIOUS
    <2>1. PICK k \in N : \A y \in N : k <= y
        <3> HIDE DEF N
        <3>1. N \in SUBSET Nat
            BY DEF N
        <3> QED BY <3>1, LeastNatural
    <2>2. k \in 0..n /\ h[1..k] \notin W[k]
        OBVIOUS
    <2>3. k # 0
        <3>1. 1..0 = {}
            OBVIOUS
        <3>2. h[1..0] = base
            BY <3>1 DEF IsFoldOn
        <3> QED BY <2>2, <3>2
    <2>4. k - 1 \in 0..n /\ k - 1 \notin N /\ k \in 1..n
        BY <2>1, <2>2, <2>3
    <2>5. h[1..(k - 1)] \in W[k - 1]
        BY <2>4
    <2>6. Max(1..k) = k /\ (1..k) \ {k} = 1..(k - 1)
        BY <2>4, PrefixMax
    <2>7. 1..k # {} /\ 1..k \in SUBSET (1..n)
        BY <2>4, PrefixMax
    <2>8. W[k - 1] \subseteq V
        BY <2>4
    <2>9. h[1..k] = G[<<k, h[1..(k - 1)]>>]
        BY <2>5, <2>6, <2>7, <2>8 DEF IsFoldOn
    <2>10. h[1..k] \in W[k]
        BY <2>4, <2>5, <2>9
    <2> QED BY <2>2, <2>10
<1>2. n \in 0..n
    OBVIOUS
<1> QED BY <1>1, <1>2
\* A function defined by recursion over the places of a list.
IsRecursion(f, n, base, G) == f[0] = base /\ \A k \in 1..n : f[k] = G[<<k, f[k - 1]>>]

\* Such a function exists, and a definition by recursion is one.
LEMMA RecursionExists ==
    ASSUME NEW n \in Nat, NEW V, NEW base \in V, NEW G \in [(1..n) \X V -> V]
    PROVE  \E f \in [0..n -> V] : IsRecursion(f, n, base, G)
<1>1. PICK h \in [SUBSET (1..n) -> V] : IsFold(h, n, base, G)
    BY FoldExists
<1> DEFINE f == [k \in 0..n |-> h[1..k]]
<1>2. f \in [0..n -> V]
    OBVIOUS
<1>3. f[0] = base
    <2>1. 1..0 = {} /\ 0 \in 0..n
        OBVIOUS
    <2>2. h[{}] = base
        BY <1>1 DEF IsFold
    <2> QED BY <2>1, <2>2
<1>4. ASSUME NEW k \in 1..n PROVE f[k] = G[<<k, f[k - 1]>>]
    <2>1. k \in 0..n /\ k - 1 \in 0..n
        OBVIOUS
    <2>2. h[1..k] = G[<<k, h[1..(k - 1)]>>]
        BY <1>1, PrefixMax DEF IsFold
    <2> QED BY <2>1, <2>2
<1> QED BY <1>2, <1>3, <1>4 DEF IsRecursion
=============================================================================
