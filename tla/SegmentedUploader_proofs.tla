----------------------- MODULE SegmentedUploader_proofs -----------------------
(***************************************************************************)
(* Proofs about SegmentedUploader, for any segmenters, requests, times,    *)
(* recorders and Cloud.                                                    *)
(*                                                                         *)
(* First the algorithms: the list of segmenters, the merged periods of     *)
(* slices(), and the two folds that move a window, each by what one turn   *)
(* keeps. Then the loop: whatever its three steps do to the window, they   *)
(* leave begin, the ticket and the counters of a segmenter, take back no   *)
(* flag, and end it with an answer, a chunk to plan or an empty last       *)
(* window (LoopFacts). All that follows is about the account and uses no   *)
(* more of the loop than that.                                             *)
(*                                                                         *)
(* The inductive invariants: Types (TypeOK, the Cloud's list is finite, a  *)
(* segmenter in use was asked for), with which SilentOnlyWhenEmpty is      *)
(* inductive; BlankInv, CancelInv, CountInv and FinalInv for the statuses. *)
(*                                                                         *)
(* Last the windows, of which the account knows nothing. EndInv, CloudInv, *)
(* PastInv and BehindInv: no time is skipped. SortedInv, ChunkInv, TurnInv,*)
(* OrderInv and PairInv: no time is planned twice.                         *)
(***************************************************************************)
EXTENDS SegmentedUploader, BasicLemmas

-----------------------------------------------------------------------------
(***************************************************************************)
(* Lists.                                                                  *)
(***************************************************************************)
\* The recursion in Only().
Picked(q, S) == CHOOSE upTo : upTo = [i \in 0..Len(q) |->
      IF i = 0 THEN <<>>
      ELSE IF q[i] \in S THEN Append(upTo[i - 1], q[i]) ELSE upTo[i - 1]]

\* The recursion in Only(), place by place.
LEMMA PickedEquation ==
    ASSUME NEW A, NEW q \in Seq(A), NEW S
    PROVE  /\ Only(q, S) = Picked(q, S)[Len(q)]
           /\ Picked(q, S)[0] = <<>>
           /\ \A i \in 1..Len(q) :
                 Picked(q, S)[i] = IF q[i] \in S THEN Append(Picked(q, S)[i - 1], q[i])
                                   ELSE Picked(q, S)[i - 1]
<1> DEFINE n == Len(q)
           V == Seq(A)
           G == [p \in (1..n) \X V |-> IF q[p[1]] \in S THEN Append(p[2], q[p[1]]) ELSE p[2]]
           Round(f) == [i \in 0..n |-> IF i = 0 THEN <<>>
                                       ELSE IF q[i] \in S THEN Append(f[i - 1], q[i])
                                       ELSE f[i - 1]]
<1>1. n \in Nat /\ <<>> \in V
    OBVIOUS
<1>2. G \in [(1..n) \X V -> V]
    OBVIOUS
<1>3. \E f \in [0..n -> V] : IsRecursion(f, n, <<>>, G)
    <2> HIDE DEF n, V, G
    <2> QED BY <1>1, <1>2, RecursionExists
<1>4. PICK f \in [0..n -> V] : f[0] = <<>> /\ \A k \in 1..n : f[k] = G[<<k, f[k - 1]>>]
    BY <1>3 DEF IsRecursion
<1>5. ASSUME NEW k \in 1..n
      PROVE  f[k] = IF q[k] \in S THEN Append(f[k - 1], q[k]) ELSE f[k - 1]
    <2>1. k - 1 \in 0..n
        OBVIOUS
    <2>2. f[k - 1] \in V
        BY <2>1
    <2>3. <<k, f[k - 1]>> \in (1..n) \X V
        BY <2>2
    <2> QED BY <1>4, <2>3
<1>6. f = Round(f)
    <2>1. ASSUME NEW i \in 0..n PROVE f[i] = Round(f)[i]
        <3> HIDE DEF V, G
        <3>1. CASE i = 0
            BY <1>4, <3>1
        <3>2. CASE i # 0
            <4>1. i \in 1..n
                BY <1>1, <3>2
            <4> QED BY <1>5, <3>2, <4>1
        <3> QED BY <3>1, <3>2
    <2>2. f = [i \in 0..n |-> f[i]]
        BY <1>4
    <2> HIDE DEF V, G, n
    <2> QED BY <2>1, <2>2
<1>7. Picked(q, S) = Round(Picked(q, S))
    BY <1>6 DEF Picked
<1>8. Only(q, S) = Picked(q, S)[n]
    BY DEF Only, Picked
<1> HIDE DEF G
<1>9. Picked(q, S)[0] = <<>>
    <2>1. 0 \in 0..n
        BY <1>1
    <2> QED BY <1>7, <2>1
<1>10. ASSUME NEW i \in 1..n
       PROVE  Picked(q, S)[i] = IF q[i] \in S THEN Append(Picked(q, S)[i - 1], q[i])
                                ELSE Picked(q, S)[i - 1]
    <2>1. i \in 0..n /\ i # 0
        BY <1>1
    <2> QED BY <1>7, <2>1
<1> QED BY <1>8, <1>9, <1>10

\* Only() keeps the members of S, each once if the list has each once.
LEMMA OnlyFacts ==
    ASSUME NEW A, NEW q \in Seq(A), NEW S
    PROVE  /\ Only(q, S) \in Seq(A)
           /\ ToSet(Only(q, S)) = ToSet(q) \cap S
           /\ IsInjective(q) => IsInjective(Only(q, S))
<1> DEFINE n == Len(q)
           f == Picked(q, S)
           Good(k) == /\ f[k] \in Seq(A)
                      /\ ToSet(f[k]) = {q[j] : j \in 1..k} \cap S
                      /\ IsInjective(q) => IsInjective(f[k])
           N == {k \in 0..n : ~Good(k)}
<1>1. n \in Nat /\ q \in [1..n -> A]
    OBVIOUS
<1>2. Only(q, S) = f[n] /\ f[0] = <<>>
    BY PickedEquation
<1>3. \A i \in 1..n : f[i] = IF q[i] \in S THEN Append(f[i - 1], q[i]) ELSE f[i - 1]
    BY PickedEquation
<1> HIDE DEF f
<1>4. N = {}
    <2> SUFFICES ASSUME N # {} PROVE FALSE
        OBVIOUS
    <2>1. PICK k \in N : \A y \in N : k <= y
        <3> HIDE DEF N
        <3>1. N \in SUBSET Nat
            BY DEF N
        <3> QED BY <3>1, LeastNatural
    <2>2. k \in 0..n /\ ~Good(k)
        OBVIOUS
    <2>3. k # 0
        <3>1. Good(0)
            BY <1>2 DEF ToSet, IsInjective
        <3> QED BY <2>2, <3>1
    <2>4. k - 1 \in 0..n /\ k \in 1..n /\ ~(k <= k - 1)
        BY <1>1, <2>2, <2>3
    <2>5. Good(k - 1)
        <3> HIDE DEF Good
        <3>1. k - 1 \notin N
            <4> HIDE DEF N
            <4> QED BY <2>1, <2>4
        <3> QED BY <2>4, <3>1
    <2>6. 1..k = (1..(k - 1)) \cup {k} /\ k \notin 1..(k - 1)
        BY <2>4
    <2>7. {q[j] : j \in 1..k} = {q[j] : j \in 1..(k - 1)} \cup {q[k]}
        BY <2>6
    <2>8. CASE q[k] \notin S
        <3>1. f[k] = f[k - 1]
            BY <1>3, <2>4, <2>8
        <3> QED BY <2>2, <2>5, <2>7, <2>8, <3>1
    <2>9. CASE q[k] \in S
        <3> DEFINE r == f[k - 1]
        <3>1. f[k] = Append(r, q[k])
            BY <1>3, <2>4, <2>9
        <3>2. r \in Seq(A) /\ q[k] \in A
            BY <1>1, <2>4, <2>5
        <3>3. /\ Len(f[k]) = Len(r) + 1 /\ f[k] \in Seq(A)
              /\ f[k][Len(r) + 1] = q[k] /\ \A i \in 1..Len(r) : f[k][i] = r[i]
            BY <3>1, <3>2
        <3>4. ToSet(f[k]) = ToSet(r) \cup {q[k]}
            <4>1. /\ DOMAIN r = 1..Len(r) /\ DOMAIN f[k] = 1..(Len(r) + 1) /\ Len(r) \in Nat
                BY <3>2, <3>3
            <4>2. 1..(Len(r) + 1) = (1..Len(r)) \cup {Len(r) + 1}
                BY <4>1
            <4> HIDE DEF r
            <4> QED BY <3>3, <4>1, <4>2 DEF ToSet
        <3>5. ToSet(f[k]) = {q[j] : j \in 1..k} \cap S
            BY <2>5, <2>7, <2>9, <3>4
        <3>6. ASSUME IsInjective(q) PROVE IsInjective(f[k])
            <4>1. q[k] \notin {q[j] : j \in 1..(k - 1)}
                BY <1>1, <2>4, <2>6, <3>6 DEF IsInjective
            <4>2. q[k] \notin ToSet(r)
                BY <2>5, <4>1
            <4>3. IsInjective(r)
                BY <2>5, <3>6
            <4>4. ASSUME NEW a \in 1..(Len(r) + 1), NEW b \in 1..(Len(r) + 1), f[k][a] = f[k][b]
                  PROVE  a = b
                <5>1. \A i \in 1..Len(r) : r[i] # q[k]
                    BY <3>2, <4>2 DEF ToSet
                <5>2. \A i, j \in 1..Len(r) : r[i] = r[j] => i = j
                    BY <3>2, <4>3 DEF IsInjective
                <5>3. Len(r) \in Nat
                    BY <3>2
                <5> HIDE DEF r
                <5> QED BY <3>3, <4>4, <5>1, <5>2, <5>3
            <4>5. DOMAIN f[k] = 1..(Len(r) + 1)
                BY <3>3
            <4> QED BY <4>4, <4>5 DEF IsInjective
        <3> QED BY <2>2, <3>3, <3>5, <3>6
    <2> QED BY <2>8, <2>9
<1>5. Good(n)
    <2> HIDE DEF Good
    <2>1. n \in 0..n
        BY <1>1
    <2> QED BY <1>4, <2>1
<1>6. {q[j] : j \in 1..n} = ToSet(q)
    BY <1>1 DEF ToSet
<1> QED BY <1>2, <1>5, <1>6

-----------------------------------------------------------------------------
(***************************************************************************)
(* Merging the periods of the Cloud's list.                                *)
(***************************************************************************)
\* std::sort() of the periods: p goes before q.
Precedes(p, q) == p.b < q.b \/ (p.b = q.b /\ p.e < q.e)
Preceding(P, p) == {q \in P : Precedes(q, p)}

\* The place of a period in the sorted list is one of the list's places.
LEMMA PrecedingFacts ==
    ASSUME NEW P \in SUBSET Span, IsFiniteSet(P), NEW p \in P
    PROVE  /\ Cardinality(Preceding(P, p)) \in Nat
           /\ Cardinality(Preceding(P, p)) + 1 \in 1..Cardinality(P)
<1>1. Preceding(P, p) \subseteq P \ {p}
    BY DEF Preceding, Precedes, Span
<1>2. IsFiniteSet(P \ {p}) /\ Cardinality(P \ {p}) = Cardinality(P) - 1
    BY FS_RemoveElement
<1>3. IsFiniteSet(Preceding(P, p)) /\ Cardinality(Preceding(P, p)) <= Cardinality(P \ {p})
    BY <1>1, <1>2, FS_Subset
<1>4. Cardinality(Preceding(P, p)) \in Nat /\ Cardinality(P) \in Nat
    BY <1>3, FS_CardinalityType
<1> QED BY <1>2, <1>3, <1>4

\* A period that goes before another has the lower place.
LEMMA PrecedingGrows ==
    ASSUME NEW P \in SUBSET Span, IsFiniteSet(P), NEW p \in P, NEW q \in P, Precedes(p, q)
    PROVE  Cardinality(Preceding(P, p)) < Cardinality(Preceding(P, q))
<1>1. Preceding(P, p) \subseteq Preceding(P, q)
    BY DEF Preceding, Precedes, Span
<1>2. p \in Preceding(P, q) /\ p \notin Preceding(P, p)
    BY DEF Preceding, Precedes, Span
<1>3. IsFiniteSet(Preceding(P, q))
    <2>1. Preceding(P, q) \subseteq P
        BY DEF Preceding
    <2> QED BY <2>1, FS_Subset
<1>4. Preceding(P, p) # Preceding(P, q)
    BY <1>2
<1>5. /\ Cardinality(Preceding(P, p)) <= Cardinality(Preceding(P, q))
      /\ Cardinality(Preceding(P, p)) = Cardinality(Preceding(P, q)) =>
            Preceding(P, q) = Preceding(P, p)
    BY <1>1, <1>3, FS_Subset
<1>6. Cardinality(Preceding(P, p)) \in Nat /\ Cardinality(Preceding(P, q)) \in Nat
    BY PrecedingFacts
<1> QED BY <1>4, <1>5, <1>6

\* SortedPeriods() lists the periods, each once, in the order of their begin.
LEMMA SortedFacts ==
    ASSUME NEW P \in SUBSET Span, IsFiniteSet(P)
    PROVE  /\ SortedPeriods(P) \in Seq(P) /\ Len(SortedPeriods(P)) = Cardinality(P)
           /\ ToSet(SortedPeriods(P)) = P
           /\ \A i, j \in 1..Cardinality(P) :
                 i < j => SortedPeriods(P)[i].b <= SortedPeriods(P)[j].b
<1> DEFINE n == Cardinality(P)
           rank == [p \in P |-> Cardinality(Preceding(P, p)) + 1]
           L == SortedPeriods(P)
<1>1. n \in Nat
    BY FS_CardinalityType
<1>2. rank \in [P -> 1..n]
    BY PrecedingFacts
<1>3. ASSUME NEW p \in P, NEW q \in P, Precedes(p, q)
      PROVE  rank[p] < rank[q]
    <2>1. /\ Cardinality(Preceding(P, p)) < Cardinality(Preceding(P, q))
          /\ Cardinality(Preceding(P, p)) \in Nat /\ Cardinality(Preceding(P, q)) \in Nat
        BY <1>3, PrecedingGrows, PrecedingFacts
    <2> QED BY <2>1
<1>4. ASSUME NEW p \in P, NEW q \in P, rank[p] = rank[q]
      PROVE  p = q
    <2>1. rank[p] \in Nat /\ rank[q] \in Nat
        BY <1>2
    <2>2. ~Precedes(p, q) /\ ~Precedes(q, p)
        <3> HIDE DEF rank
        <3> QED BY <1>3, <1>4, <2>1
    <2> QED BY <2>2 DEF Precedes, Span
<1>5. rank \in Injection(P, 1..n)
    <2> HIDE DEF rank
    <2>1. IsInjective(rank)
        BY <1>2, <1>4 DEF IsInjective
    <2> QED BY <1>2, <2>1 DEF Injection
<1>6. rank \in Surjection(P, 1..n)
    <2>1. IsFiniteSet(1..n) /\ Cardinality(1..n) = n
        BY <1>1, FS_Interval
    <2> HIDE DEF rank
    <2> QED BY <1>5, <2>1, FS_Injection
<1>7. ASSUME NEW i \in 1..n
      PROVE  L[i] \in P /\ rank[L[i]] = i
    <2>1. PICK p \in P : rank[p] = i
        <3> HIDE DEF rank
        <3> QED BY <1>6 DEF Surjection
    <2>2. Cardinality(Preceding(P, p)) = i - 1
        BY <2>1, PrecedingFacts
    <2>3. L[i] = CHOOSE r \in P : Cardinality(Preceding(P, r)) = i - 1
        BY DEF SortedPeriods, Preceding, Precedes
    <2>4. L[i] \in P /\ Cardinality(Preceding(P, L[i])) = i - 1
        <3> HIDE DEF L
        <3> QED BY <2>2, <2>3
    <2> QED BY <2>4
<1>8. L = [i \in 1..n |-> L[i]]
    <2> DEFINE E(i) == CHOOSE r \in P : Cardinality({q \in P :
                          q.b < r.b \/ (q.b = r.b /\ q.e < r.e)}) = i - 1
    <2>1. L = [i \in 1..n |-> E(i)]
        BY DEF SortedPeriods
    <2> HIDE DEF L, E
    <2> QED BY <2>1
<1> HIDE DEF L, rank
<1>9. L \in Seq(P) /\ Len(L) = n
    <2>1. L \in [1..n -> P]
        BY <1>7, <1>8
    <2> QED BY <1>1, <2>1
<1>10. ToSet(L) = P
    <2>1. DOMAIN L = 1..n
        BY <1>8
    <2>2. ASSUME NEW p \in P PROVE \E i \in 1..n : p = L[i]
        <3>1. rank[p] \in 1..n
            BY <1>2
        <3>2. rank[L[rank[p]]] = rank[p] /\ L[rank[p]] \in P
            BY <1>7, <3>1
        <3> QED BY <1>4, <3>1, <3>2
    <2> QED BY <1>7, <2>1, <2>2 DEF ToSet
<1>11. ASSUME NEW i \in 1..n, NEW j \in 1..n, i < j
       PROVE  L[i].b <= L[j].b
    <2>1. /\ L[i] \in P /\ L[j] \in P
          /\ rank[L[i]] = i /\ rank[L[j]] = j
        BY <1>7
    <2>2. ~Precedes(L[j], L[i])
        BY <1>3, <1>11, <2>1
    <2>3. L[i] \in Span /\ L[j] \in Span
        BY <2>1
    <2> QED BY <2>2, <2>3 DEF Precedes, Span
<1> QED BY <1>9, <1>10, <1>11 DEF L

\* One turn of the loop of _squash_periods(), and the function its fold builds.
Squash(acc, p) ==
    IF acc # <<>> /\ Last(acc).e >= p.b
    THEN Front(acc) \o <<[Last(acc) EXCEPT !.e = IF @ < p.e THEN p.e ELSE @]>>
    ELSE Append(acc, p)

SquashFold(L) == CHOOSE f : f = [T \in SUBSET DOMAIN L |->
      IF T = {} THEN <<>> ELSE Squash(f[T \ {Max(T)}], L[Max(T)])]

\* _squash_periods() is the fold of its turns over the sorted periods.
LEMMA SquashIsFold ==
    ASSUME NEW P
    PROVE  _squash_periods(P) = SquashFold(SortedPeriods(P))[DOMAIN SortedPeriods(P)]
BY DEF _squash_periods, FoldLeft, MapThenFoldSet, SquashFold, Squash

\* A merged period ends with the later of the two, and nothing else changes.
LEMMA SquashFacts ==
    ASSUME NEW acc \in Seq(Span), NEW p \in Span
    PROVE  /\ Squash(acc, p) \in Seq(Span) \ {<<>>}
           /\ acc # <<>> /\ acc[Len(acc)].e >= p.b =>
                /\ Len(Squash(acc, p)) = Len(acc)
                /\ \A i \in 1..(Len(acc) - 1) : Squash(acc, p)[i] = acc[i]
                /\ Squash(acc, p)[Len(acc)].b = acc[Len(acc)].b
                /\ Squash(acc, p)[Len(acc)].e =
                      IF acc[Len(acc)].e < p.e THEN p.e ELSE acc[Len(acc)].e
           /\ ~(acc # <<>> /\ acc[Len(acc)].e >= p.b) =>
                /\ Len(Squash(acc, p)) = Len(acc) + 1
                /\ \A i \in 1..Len(acc) : Squash(acc, p)[i] = acc[i]
                /\ Squash(acc, p)[Len(acc) + 1] = p
<1>1. CASE acc # <<>> /\ acc[Len(acc)].e >= p.b
    <2> DEFINE n == Len(acc)
               l == acc[n]
               m == [l EXCEPT !.e = IF @ < p.e THEN p.e ELSE @]
    <2>1. n \in Nat /\ n > 0 /\ l \in Span
        BY <1>1
    <2>2. m \in Span /\ m.b = l.b /\ m.e = IF l.e < p.e THEN p.e ELSE l.e
        BY <2>1 DEF Span
    <2>3. Front(acc) = SubSeq(acc, 1, n - 1) /\ Last(acc) = l
        BY DEF Front, Last
    <2>4. Squash(acc, p) = SubSeq(acc, 1, n - 1) \o <<m>>
        BY <1>1, <2>3 DEF Squash
    <2> HIDE DEF m, l
    <2>5. /\ SubSeq(acc, 1, n - 1) \in Seq(Span)
          /\ Len(SubSeq(acc, 1, n - 1)) = n - 1
          /\ \A i \in 1..(n - 1) : SubSeq(acc, 1, n - 1)[i] = acc[i]
        <3>1. acc \in [1..n -> Span]
            OBVIOUS
        <3> HIDE DEF n
        <3>2. SubSeq(acc, 1, n - 1) = [i \in 1..(n - 1) |-> acc[i]]
            BY <2>1
        <3>3. \A i \in 1..(n - 1) : acc[i] \in Span
            BY <2>1, <3>1
        <3>4. n - 1 \in Nat
            BY <2>1
        <3>5. [i \in 1..(n - 1) |-> acc[i]] \in Seq(Span)
            BY <3>3, <3>4
        <3> QED BY <3>2, <3>4, <3>5
    <2> DEFINE r == SubSeq(acc, 1, n - 1)
    <2>6. /\ r \o <<m>> \in Seq(Span) /\ Len(r \o <<m>>) = n
          /\ (r \o <<m>>)[n] = m
          /\ \A i \in 1..(n - 1) : (r \o <<m>>)[i] = r[i]
        <3> HIDE DEF r, n
        <3> QED BY <2>1, <2>2, <2>5 DEF r
    <2>7. r \o <<m>> # <<>>
        BY <2>1, <2>6
    <2> HIDE DEF r, n
    <2> QED BY <1>1, <2>1, <2>2, <2>4, <2>5, <2>6, <2>7 DEF r, n, l
<1>2. CASE ~(acc # <<>> /\ acc[Len(acc)].e >= p.b)
    <2>1. Squash(acc, p) = Append(acc, p)
        BY <1>2 DEF Squash, Last
    <2>2. /\ Append(acc, p) \in Seq(Span) /\ Len(Append(acc, p)) = Len(acc) + 1
          /\ Append(acc, p)[Len(acc) + 1] = p
          /\ \A i \in 1..Len(acc) : Append(acc, p)[i] = acc[i]
          /\ Append(acc, p) # <<>>
        OBVIOUS
    <2> QED BY <1>2, <2>1, <2>2
<1> QED BY <1>1, <1>2

\* The fold, turn by turn: after k turns the first k periods are merged.
LEMMA SquashEquation ==
    ASSUME NEW L \in Seq(Span)
    PROVE  \A T \in SUBSET (1..Len(L)) :
              /\ T = {} => SquashFold(L)[T] = <<>>
              /\ T # {} => SquashFold(L)[T] = Squash(SquashFold(L)[T \ {Max(T)}], L[Max(T)])
<1> DEFINE n == Len(L)
           V == Seq(Span)
           G == [k \in (1..n) \X V |-> Squash(k[2], L[k[1]])]
           Round(f) == [T \in SUBSET (1..n) |->
                          IF T = {} THEN <<>> ELSE Squash(f[T \ {Max(T)}], L[Max(T)])]
<1>1. n \in Nat /\ <<>> \in V /\ DOMAIN L = 1..n
    OBVIOUS
<1>2. G \in [(1..n) \X V -> V]
    <2>1. ASSUME NEW k \in (1..n) \X V PROVE Squash(k[2], L[k[1]]) \in V
        <3>1. k[2] \in Seq(Span) /\ k[1] \in 1..n
            OBVIOUS
        <3>2. L[k[1]] \in Span
            BY <3>1
        <3> QED BY <3>1, <3>2, SquashFacts
    <2> HIDE DEF n, V
    <2> QED BY <2>1
<1>3. \E h \in [SUBSET (1..n) -> V] : IsFold(h, n, <<>>, G)
    <2> HIDE DEF n, V, G
    <2> QED BY <1>1, <1>2, FoldExists
<1>4. PICK h \in [SUBSET (1..n) -> V] : IsFold(h, n, <<>>, G)
    BY <1>3
<1>5. h = Round(h)
    <2>1. ASSUME NEW T \in SUBSET (1..n), T # {}
          PROVE  h[T] = Squash(h[T \ {Max(T)}], L[Max(T)])
        <3>1. Max(T) \in 1..n
            <4>1. Max(T) \in T
                <5> HIDE DEF n
                <5>1. 1 \in Int /\ n \in Int
                    BY <1>1
                <5> QED BY <2>1, <5>1, MaxOfInterval
            <4> QED BY <4>1
        <3>2. h[T \ {Max(T)}] \in V
            OBVIOUS
        <3>3. h[T] = G[<<Max(T), h[T \ {Max(T)}]>>]
            BY <1>4, <2>1 DEF IsFold
        <3> HIDE DEF V, n
        <3> QED BY <3>1, <3>2, <3>3
    <2>2. h[{}] = <<>>
        BY <1>4 DEF IsFold
    <2>3. h = [T \in SUBSET (1..n) |-> h[T]]
        BY <1>4
    <2>4. ASSUME NEW T \in SUBSET (1..n) PROVE h[T] = Round(h)[T]
        BY <2>1, <2>2
    <2> HIDE DEF V, n, G
    <2> QED BY <2>3, <2>4
<1>6. SquashFold(L) = Round(SquashFold(L))
    BY <1>1, <1>5 DEF SquashFold
<1> HIDE DEF V, G
<1> QED BY <1>6

\* The times of a list of periods, and the gaps between them.
InList(t, acc) == \E i \in 1..Len(acc) : t \in Times(acc[i])
Gapped(acc) == \A i \in 1..(Len(acc) - 1) : acc[i].e < acc[i + 1].b

\* One turn adds the times of its period and nothing else, and keeps the gaps.
LEMMA SquashTurn ==
    ASSUME NEW acc \in Seq(Span), NEW p \in Span, Gapped(acc),
           acc # <<>> => acc[Len(acc)].b <= p.b
    PROVE  LET r == Squash(acc, p)
           IN  /\ Gapped(r) /\ r[Len(r)].b <= p.b
               /\ \A t \in Int : InList(t, r) <=> InList(t, acc) \/ t \in Times(p)
<1> DEFINE n == Len(acc)
           r == Squash(acc, p)
<1>1. n \in Nat /\ acc \in [1..n -> Span]
    OBVIOUS
<1>2. CASE acc # <<>> /\ acc[n].e >= p.b
    <2>1. n > 0 /\ n \in 1..n
        BY <1>2
    <2>2. acc[n] \in Span /\ acc[n].b <= p.b
        BY <1>1, <1>2, <2>1
    <2>3. /\ r \in Seq(Span) /\ Len(r) = n
          /\ \A i \in 1..(n - 1) : r[i] = acc[i]
          /\ r[n].b = acc[n].b
          /\ r[n].e = IF acc[n].e < p.e THEN p.e ELSE acc[n].e
        BY <1>2, SquashFacts
    <2> HIDE DEF r, n
    <2>4. r[n] \in Span
        BY <2>1, <2>3
    <2>5. ASSUME NEW t \in Int PROVE t \in Times(r[n]) <=> t \in Times(acc[n]) \/ t \in Times(p)
        <3>1. /\ acc[n].b \in Nat /\ acc[n].e \in Nat /\ p.b \in Nat /\ p.e \in Nat
              /\ r[n].b \in Nat /\ r[n].e \in Nat
            BY <2>2, <2>4 DEF Span
        <3> QED BY <1>2, <2>2, <2>3, <3>1 DEF Times
    <2>6. ASSUME NEW t \in Int PROVE InList(t, r) <=> InList(t, acc) \/ t \in Times(p)
        <3>1. 1..n = (1..(n - 1)) \cup {n}
            BY <1>1, <2>1
        <3>2. \A i \in 1..(n - 1) : Times(r[i]) = Times(acc[i])
            BY <2>3
        <3> QED BY <2>3, <2>5, <3>1, <3>2 DEF InList, n
    <2>7. ASSUME NEW i \in 1..(n - 1) PROVE r[i].e < r[i + 1].b
        <3>1. acc[i].e < acc[i + 1].b
            BY DEF Gapped, n
        <3>2. r[i] = acc[i]
            BY <2>3
        <3>3. i + 1 = n \/ i + 1 \in 1..(n - 1)
            BY <1>1
        <3>4. r[i + 1].b = acc[i + 1].b
            BY <2>3, <3>3
        <3> QED BY <3>1, <3>2, <3>4
    <2>8. r[Len(r)].b <= p.b
        BY <2>2, <2>3
    <2> QED BY <2>3, <2>6, <2>7, <2>8 DEF Gapped, r
<1>3. CASE ~(acc # <<>> /\ acc[n].e >= p.b)
    <2>1. /\ r \in Seq(Span) /\ Len(r) = n + 1 /\ r[n + 1] = p
          /\ \A i \in 1..n : r[i] = acc[i]
        BY <1>3, SquashFacts
    <2> HIDE DEF r
    <2>2. ASSUME NEW t \in Int PROVE InList(t, r) <=> InList(t, acc) \/ t \in Times(p)
        <3>1. 1..(n + 1) = (1..n) \cup {n + 1}
            BY <1>1
        <3> HIDE DEF n
        <3>2. \A i \in 1..n : Times(r[i]) = Times(acc[i])
            BY <2>1
        <3> QED BY <2>1, <3>1, <3>2 DEF InList, n
    <2>3. ASSUME NEW i \in 1..n PROVE r[i].e < r[i + 1].b
        <3>1. CASE i = n
            <4>1. acc # <<>> /\ acc[n] \in Span
                BY <1>1, <3>1
            <4>2. acc[n].e < p.b
                <5>1. acc[n].e \in Nat /\ p.b \in Nat
                    BY <4>1 DEF Span
                <5>2. ~(acc[n].e >= p.b)
                    BY <1>3, <4>1
                <5> HIDE DEF n
                <5> QED BY <5>1, <5>2
            <4>3. r[i] = acc[n] /\ r[i + 1] = p
                BY <2>1, <3>1
            <4> QED BY <4>2, <4>3
        <3>2. CASE i # n
            <4>1. i \in 1..(n - 1) /\ i + 1 \in 1..n
                <5> HIDE DEF n
                <5> QED BY <1>1, <3>2
            <4>2. acc[i].e < acc[i + 1].b
                BY <4>1 DEF Gapped
            <4>3. r[i] = acc[i] /\ r[i + 1] = acc[i + 1]
                BY <2>1, <4>1
            <4> QED BY <4>2, <4>3
        <3> QED BY <3>1, <3>2
    <2>4. r[Len(r)].b <= p.b
        BY <2>1 DEF Span
    <2>5. \A i \in 1..(Len(r) - 1) : r[i].e < r[i + 1].b
        BY <1>1, <2>1, <2>3
    <2> QED BY <2>2, <2>4, <2>5 DEF Gapped, r
<1> QED BY <1>2, <1>3

\* _squash_periods() of any finite set of periods is exact.
LEMMA SquashIs ==
    ASSUME NEW P \in SUBSET Span, IsFiniteSet(P)
    PROVE  /\ _squash_periods(P) \in Seq(Span) /\ Gapped(_squash_periods(P))
           /\ \A t \in Int : InList(t, _squash_periods(P)) <=> \E p \in P : t \in Times(p)
<1> DEFINE L == SortedPeriods(P)
           n == Cardinality(P)
           f == SquashFold(L)
           Done(k) == {acc \in Seq(Span) :
                         /\ Gapped(acc)
                         /\ acc # <<>> => \A j \in (k + 1)..n : acc[Len(acc)].b <= L[j].b
                         /\ \A t \in Int : InList(t, acc) <=> \E j \in 1..k : t \in Times(L[j])}
           V == Seq(Span)
           W == [k \in 0..n |-> Done(k)]
           G == [a \in (1..n) \X V |-> Squash(a[2], L[a[1]])]
<1>1. n \in Nat
    BY FS_CardinalityType
<1>2. /\ L \in Seq(P) /\ Len(L) = n /\ ToSet(L) = P
      /\ \A i, j \in 1..n : i < j => L[i].b <= L[j].b
    BY SortedFacts
<1>3. L \in Seq(Span) /\ DOMAIN L = 1..n /\ \A k \in 1..n : L[k] \in Span
    BY <1>2
<1> HIDE DEF L, n
<1>4. W \in [0..n -> SUBSET V]
    OBVIOUS
<1>5. <<>> \in W[0]
    <2>1. <<>> \in Done(0)
        <3>1. Gapped(<<>>)
            BY DEF Gapped
        <3>2. \A t \in Int : InList(t, <<>>) <=> \E j \in 1..0 : t \in Times(L[j])
            BY DEF InList
        <3> QED BY <3>1, <3>2
    <2>2. 0 \in 0..n
        BY <1>1
    <2> HIDE DEF Done
    <2> QED BY <2>1, <2>2
<1>6. ASSUME NEW a \in (1..n) \X V PROVE Squash(a[2], L[a[1]]) \in V
    <2>1. a[2] \in Seq(Span) /\ L[a[1]] \in Span
        BY <1>3
    <2> QED BY <2>1, SquashFacts
<1>7. G \in [(1..n) \X V -> V]
    <2> HIDE DEF V
    <2> QED BY <1>6
<1>8. ASSUME NEW k \in 1..n, NEW v \in W[k - 1] PROVE G[<<k, v>>] \in W[k]
    <2>1. k \in 0..n /\ k - 1 \in 0..n /\ k \in (k - 1 + 1)..n
        BY <1>1
    <2>2. v \in Done(k - 1)
        <3> HIDE DEF Done
        <3> QED BY <2>1
    <2>3. v \in Seq(Span) /\ Gapped(v) /\ (v # <<>> => v[Len(v)].b <= L[k].b)
        BY <2>1, <2>2
    <2>4. L[k] \in Span
        BY <1>3
    <2> DEFINE r == Squash(v, L[k])
    <2>5. /\ Gapped(r) /\ r[Len(r)].b <= L[k].b
          /\ \A t \in Int : InList(t, r) <=> InList(t, v) \/ t \in Times(L[k])
        BY <2>3, <2>4, SquashTurn
    <2>6. r \in Seq(Span) /\ r # <<>>
        BY <2>3, <2>4, SquashFacts
    <2> HIDE DEF r
    <2>7. ASSUME NEW j \in (k + 1)..n PROVE r[Len(r)].b <= L[j].b
        <3>1. L[k].b <= L[j].b
            <4>1. j \in 1..n /\ k < j
                BY <1>1
            <4> QED BY <1>2, <4>1
        <3>2. Len(r) \in 1..Len(r)
            BY <2>6
        <3>3. r[Len(r)] \in Span /\ L[j] \in Span
            BY <1>1, <1>3, <2>6, <3>2
        <3> QED BY <2>4, <2>5, <3>1, <3>3 DEF Span
    <2>8. ASSUME NEW t \in Int PROVE InList(t, r) <=> \E j \in 1..k : t \in Times(L[j])
        <3>1. 1..k = (1..(k - 1)) \cup {k}
            BY <1>1
        <3>2. InList(t, v) <=> \E j \in 1..(k - 1) : t \in Times(L[j])
            BY <2>2
        <3> QED BY <2>5, <3>1, <3>2
    <2>9. r \in Done(k)
        BY <2>5, <2>6, <2>7, <2>8
    <2>10. <<k, v>> \in (1..n) \X V
        BY <2>3
    <2>11. G[<<k, v>>] = r
        BY <2>10 DEF r
    <2> HIDE DEF Done, G
    <2> QED BY <2>1, <2>9, <2>11
<1>9. ASSUME NEW T \in SUBSET (1..n)
      PROVE  /\ T = {} => f[T] = <<>>
             /\ T # {} /\ f[T \ {Max(T)}] \in V => f[T] = G[<<Max(T), f[T \ {Max(T)}]>>]
    <2>1. /\ T = {} => f[T] = <<>>
          /\ T # {} => f[T] = Squash(f[T \ {Max(T)}], L[Max(T)])
        BY <1>2, <1>3, SquashEquation
    <2>2. ASSUME T # {}, f[T \ {Max(T)}] \in V
          PROVE  f[T] = G[<<Max(T), f[T \ {Max(T)}]>>]
        <3>1. Max(T) \in T
            <4>1. 1 \in Int /\ n \in Int
                BY <1>1
            <4> QED BY <2>2, <4>1, MaxOfInterval
        <3>2. <<Max(T), f[T \ {Max(T)}]>> \in (1..n) \X V
            <4> HIDE DEF f, V
            <4> QED BY <2>2, <3>1
        <3> HIDE DEF f, V
        <3> QED BY <2>1, <2>2, <3>2
    <2> HIDE DEF f, G
    <2> QED BY <2>1, <2>2
<1>13. IsFoldOn(V, f, n, <<>>, G)
    <2> HIDE DEF f, V, G
    <2> QED BY <1>9 DEF IsFoldOn
<1>10. f[1..n] \in W[n]
    <2> HIDE DEF f, V, W, G
    <2> QED BY <1>1, <1>4, <1>5, <1>7, <1>8, <1>13, FoldKeeps
<1>11. _squash_periods(P) \in Done(n)
    <2>1. n \in 0..n
        BY <1>1
    <2>2. _squash_periods(P) = f[1..n]
        BY <1>3, SquashIsFold DEF L
    <2> HIDE DEF Done, f
    <2> QED BY <1>10, <2>1, <2>2
<1>12. ASSUME NEW t \in Int
       PROVE  (\E j \in 1..n : t \in Times(L[j])) <=> \E p \in P : t \in Times(p)
    BY <1>2, <1>3 DEF ToSet
<1> QED BY <1>11, <1>12

-----------------------------------------------------------------------------
(***************************************************************************)
(* The two folds over a list that move a window: Shifted() over the        *)
(* segmenters, Trimmed() over the slices.                                  *)
(***************************************************************************)
Shift(acc, c, s) ==
    IF acc.over \/ s = c \/ ~seg[s].processed
         \/ ~intersects(seg[c], seg[s]) \/ acc.start >= seg[s].start
    THEN acc
    ELSE [start |-> seg[s].start, stop |-> seg[s].start + Step,
          over |-> ~is_open(seg[c]) /\ seg[s].start >= Border(seg[c])]

Unmoved(x) == [start |-> x.start, stop |-> x.stop, over |-> FALSE]

ShiftFold(c, q) == CHOOSE f : f = [T \in SUBSET DOMAIN q |->
      IF T = {} THEN Unmoved(seg[c]) ELSE Shift(f[T \ {Max(T)}], c, q[Max(T)])]

Trim(acc, x, p) ==
    IF acc.over \/ ~Meets(p, acc.start, acc.stop) THEN acc
    ELSE LET start == IF acc.start >= p.b THEN p.e ELSE acc.start
             stop  == IF acc.start >= p.b THEN acc.stop ELSE p.b
         IN  [start |-> start,
              stop |-> IF stop <= start THEN start + Step ELSE stop,
              upload |-> acc.upload /\ start < stop /\ start <= Border(x),
              over |-> start > Border(x)]

Untrimmed(x) == [start |-> x.start, stop |-> x.stop, upload |-> TRUE, over |-> FALSE]

TrimFold(x, q) == CHOOSE f : f = [T \in SUBSET DOMAIN q |->
      IF T = {} THEN Untrimmed(x) ELSE Trim(f[T \ {Max(T)}], x, q[Max(T)])]

\* Both are folds of their turns.
LEMMA WindowsAreFolds ==
    /\ \A c, q : Shifted(c, q) = ShiftFold(c, q)[DOMAIN q]
    /\ \A x, q : Trimmed(x, q) = TrimFold(x, q)[DOMAIN q]
<1>1. ASSUME NEW c, NEW q PROVE Shifted(c, q) = ShiftFold(c, q)[DOMAIN q]
    BY DEF Shifted, FoldLeft, MapThenFoldSet, ShiftFold, Shift, Unmoved
<1>2. ASSUME NEW x, NEW q PROVE Trimmed(x, q) = TrimFold(x, q)[DOMAIN q]
    BY DEF Trimmed, FoldLeft, MapThenFoldSet, TrimFold, Trim, Untrimmed
<1> QED BY <1>1, <1>2

\* The step of the window is a positive length.
LEMMA StepNat == Step \in Nat /\ Step > 0
BY SegmentAssumption

WindowType == [start : Nat, stop : Nat, over : BOOLEAN]
TrimType == [start : Nat, stop : Nat, upload : BOOLEAN, over : BOOLEAN]

\* One turn of the window past a segmenter leaves a window.
LEMMA ShiftTyped ==
    ASSUME seg \in [Seg -> SegType], NEW c \in Seg, NEW s \in Seg, NEW acc \in WindowType
    PROVE  Shift(acc, c, s) \in WindowType
<1>1. seg[s].start \in Nat /\ seg[s].start + Step \in Nat
    <2>1. seg[s] \in SegType
        OBVIOUS
    <2>2. seg[s].start \in Nat
        BY <2>1 DEF SegType
    <2> QED BY <2>2, StepNat
<1> DEFINE moved == [start |-> seg[s].start, stop |-> seg[s].start + Step,
                     over |-> ~is_open(seg[c]) /\ seg[s].start >= Border(seg[c])]
<1>2. moved \in WindowType
    <2>1. (~is_open(seg[c]) /\ seg[s].start >= Border(seg[c])) \in BOOLEAN
        OBVIOUS
    <2> QED BY <1>1, <2>1 DEF WindowType
<1>3. Shift(acc, c, s) = acc \/ Shift(acc, c, s) = moved
    BY DEF Shift
<1> HIDE DEF moved
<1> QED BY <1>2, <1>3

\* One turn of the window past a period leaves a window.
LEMMA TrimTyped ==
    ASSUME NEW x \in SegType, NEW p \in Span, NEW acc \in TrimType
    PROVE  Trim(acc, x, p) \in TrimType
<1>1. /\ acc.start \in Nat /\ acc.stop \in Nat /\ acc.upload \in BOOLEAN
      /\ p.b \in Nat /\ p.e \in Nat
    BY DEF TrimType, Span
<1> DEFINE start == IF acc.start >= p.b THEN p.e ELSE acc.start
           stop  == IF acc.start >= p.b THEN acc.stop ELSE p.b
           next  == IF stop <= start THEN start + Step ELSE stop
           moved == [start |-> start, stop |-> next,
                     upload |-> acc.upload /\ start < stop /\ start <= Border(x),
                     over |-> start > Border(x)]
<1>2. start \in Nat /\ stop \in Nat
    BY <1>1
<1>3. Trim(acc, x, p) = acc \/ Trim(acc, x, p) = moved
    BY DEF Trim
<1> HIDE DEF start, stop
<1>4. next \in Nat
    BY <1>2, StepNat
<1> HIDE DEF next
<1>5. moved \in TrimType
    <2>1. /\ (acc.upload /\ start < stop /\ start <= Border(x)) \in BOOLEAN
          /\ (start > Border(x)) \in BOOLEAN
        OBVIOUS
    <2> QED BY <1>2, <1>4, <2>1 DEF TrimType
<1> HIDE DEF moved
<1> QED BY <1>3, <1>5

\* What every turn of Shifted() keeps, W[k] after k segmenters, its result has.
LEMMA ShiftedKeeps ==
    ASSUME seg \in [Seg -> SegType], NEW c \in Seg, NEW q \in Seq(Seg),
           NEW W \in [0..Len(q) -> SUBSET WindowType], Unmoved(seg[c]) \in W[0],
           \A k \in 1..Len(q) : \A acc \in W[k - 1] : Shift(acc, c, q[k]) \in W[k]
    PROVE  Shifted(c, q) \in W[Len(q)]
<1> DEFINE n == Len(q)
           V == WindowType
           base == Unmoved(seg[c])
           f == ShiftFold(c, q)
           G == [a \in (1..n) \X V |-> Shift(a[2], c, q[a[1]])]
           Round(h) == [T \in SUBSET (1..n) |->
                          IF T = {} THEN base ELSE Shift(h[T \ {Max(T)}], c, q[Max(T)])]
<1>1. n \in Nat /\ DOMAIN q = 1..n /\ \A k \in 1..n : q[k] \in Seg
    OBVIOUS
<1>2. base \in V
    BY DEF Unmoved, SegType, WindowType
<1>3. \A acc \in V, s \in Seg : Shift(acc, c, s) \in V
    BY ShiftTyped
<1> HIDE DEF n, V, base
<1>4. G \in [(1..n) \X V -> V]
    BY <1>1, <1>3
<1>5. PICK h \in [SUBSET (1..n) -> V] : IsFold(h, n, base, G)
    <2> HIDE DEF G
    <2> QED BY <1>1, <1>2, <1>4, FoldExists
<1>6. ASSUME NEW T \in SUBSET (1..n), T # {} PROVE Max(T) \in 1..n
    <2>1. 1 \in Int /\ n \in Int
        BY <1>1
    <2> QED BY <1>6, <2>1, MaxOfInterval
<1>7. h = Round(h)
    <2>1. h = [T \in SUBSET (1..n) |-> h[T]]
        BY <1>5
    <2>2. ASSUME NEW T \in SUBSET (1..n), T # {}
          PROVE  h[T] = Shift(h[T \ {Max(T)}], c, q[Max(T)])
        <3>1. h[T] = G[<<Max(T), h[T \ {Max(T)}]>>]
            BY <1>5, <2>2 DEF IsFold
        <3>2. <<Max(T), h[T \ {Max(T)}]>> \in (1..n) \X V
            BY <1>6, <2>2
        <3> QED BY <3>1, <3>2
    <2>3. h[{}] = base
        BY <1>5 DEF IsFold
    <2> HIDE DEF G
    <2> QED BY <2>1, <2>2, <2>3
<1>8. f = Round(f)
    BY <1>1, <1>7 DEF ShiftFold, base
<1> HIDE DEF f
<1>9. IsFoldOn(V, f, n, base, G)
    <2> SUFFICES ASSUME NEW T \in SUBSET (1..n)
                 PROVE  /\ T = {} => f[T] = base
                        /\ T # {} /\ f[T \ {Max(T)}] \in V =>
                              f[T] = G[<<Max(T), f[T \ {Max(T)}]>>]
        BY DEF IsFoldOn
    <2>1. T = {} => f[T] = base
        BY <1>8
    <2>2. ASSUME T # {}, f[T \ {Max(T)}] \in V
          PROVE  f[T] = G[<<Max(T), f[T \ {Max(T)}]>>]
        <3>1. f[T] = Shift(f[T \ {Max(T)}], c, q[Max(T)])
            BY <1>8, <2>2
        <3>2. <<Max(T), f[T \ {Max(T)}]>> \in (1..n) \X V
            BY <1>6, <2>2
        <3> QED BY <3>1, <3>2
    <2> HIDE DEF G
    <2> QED BY <2>1, <2>2
<1>10. /\ W \in [0..n -> SUBSET V] /\ base \in W[0]
       /\ \A k \in 1..n : \A v \in W[k - 1] : G[<<k, v>>] \in W[k]
    <2>1. ASSUME NEW k \in 1..n, NEW v \in W[k - 1] PROVE G[<<k, v>>] \in W[k]
        <3>1. k - 1 \in 0..n
            BY <1>1
        <3>2. W[k - 1] \subseteq V
            BY <3>1 DEF n, V
        <3>3. <<k, v>> \in (1..n) \X V
            BY <3>2
        <3>4. G[<<k, v>>] = Shift(v, c, q[k])
            BY <3>3
        <3> HIDE DEF G
        <3> QED BY <3>4 DEF n
    <2> HIDE DEF G
    <2> QED BY <2>1 DEF n, V, base
<1>11. f[1..n] \in W[n]
    <2> HIDE DEF G
    <2> QED BY <1>1, <1>2, <1>4, <1>9, <1>10, FoldKeeps
<1> QED BY <1>1, <1>11, WindowsAreFolds DEF f, V, n

\* The same for Trimmed() and its periods.
LEMMA TrimmedKeeps ==
    ASSUME NEW x \in SegType, NEW q \in Seq(Span),
           NEW W \in [0..Len(q) -> SUBSET TrimType], Untrimmed(x) \in W[0],
           \A k \in 1..Len(q) : \A acc \in W[k - 1] : Trim(acc, x, q[k]) \in W[k]
    PROVE  Trimmed(x, q) \in W[Len(q)]
<1> DEFINE n == Len(q)
           V == TrimType
           base == Untrimmed(x)
           f == TrimFold(x, q)
           G == [a \in (1..n) \X V |-> Trim(a[2], x, q[a[1]])]
           Round(h) == [T \in SUBSET (1..n) |->
                          IF T = {} THEN base ELSE Trim(h[T \ {Max(T)}], x, q[Max(T)])]
<1>1. n \in Nat /\ DOMAIN q = 1..n /\ \A k \in 1..n : q[k] \in Span
    OBVIOUS
<1>2. base \in V
    BY DEF Untrimmed, SegType, TrimType
<1>3. \A acc \in V, p \in Span : Trim(acc, x, p) \in V
    BY TrimTyped
<1> HIDE DEF n, V, base
<1>4. G \in [(1..n) \X V -> V]
    BY <1>1, <1>3
<1>5. PICK h \in [SUBSET (1..n) -> V] : IsFold(h, n, base, G)
    <2> HIDE DEF G
    <2> QED BY <1>1, <1>2, <1>4, FoldExists
<1>6. ASSUME NEW T \in SUBSET (1..n), T # {} PROVE Max(T) \in 1..n
    <2>1. 1 \in Int /\ n \in Int
        BY <1>1
    <2> QED BY <1>6, <2>1, MaxOfInterval
<1>7. h = Round(h)
    <2>1. h = [T \in SUBSET (1..n) |-> h[T]]
        BY <1>5
    <2>2. ASSUME NEW T \in SUBSET (1..n), T # {}
          PROVE  h[T] = Trim(h[T \ {Max(T)}], x, q[Max(T)])
        <3>1. h[T] = G[<<Max(T), h[T \ {Max(T)}]>>]
            BY <1>5, <2>2 DEF IsFold
        <3>2. <<Max(T), h[T \ {Max(T)}]>> \in (1..n) \X V
            BY <1>6, <2>2
        <3> QED BY <3>1, <3>2
    <2>3. h[{}] = base
        BY <1>5 DEF IsFold
    <2> HIDE DEF G
    <2> QED BY <2>1, <2>2, <2>3
<1>8. f = Round(f)
    BY <1>1, <1>7 DEF TrimFold, base
<1> HIDE DEF f
<1>9. IsFoldOn(V, f, n, base, G)
    <2> SUFFICES ASSUME NEW T \in SUBSET (1..n)
                 PROVE  /\ T = {} => f[T] = base
                        /\ T # {} /\ f[T \ {Max(T)}] \in V =>
                              f[T] = G[<<Max(T), f[T \ {Max(T)}]>>]
        BY DEF IsFoldOn
    <2>1. T = {} => f[T] = base
        BY <1>8
    <2>2. ASSUME T # {}, f[T \ {Max(T)}] \in V
          PROVE  f[T] = G[<<Max(T), f[T \ {Max(T)}]>>]
        <3>1. f[T] = Trim(f[T \ {Max(T)}], x, q[Max(T)])
            BY <1>8, <2>2
        <3>2. <<Max(T), f[T \ {Max(T)}]>> \in (1..n) \X V
            BY <1>6, <2>2
        <3> QED BY <3>1, <3>2
    <2> HIDE DEF G
    <2> QED BY <2>1, <2>2
<1>10. /\ W \in [0..n -> SUBSET V] /\ base \in W[0]
       /\ \A k \in 1..n : \A v \in W[k - 1] : G[<<k, v>>] \in W[k]
    <2>1. ASSUME NEW k \in 1..n, NEW v \in W[k - 1] PROVE G[<<k, v>>] \in W[k]
        <3>1. k - 1 \in 0..n
            BY <1>1
        <3>2. W[k - 1] \subseteq V
            BY <3>1 DEF n, V
        <3>3. <<k, v>> \in (1..n) \X V
            BY <3>2
        <3>4. G[<<k, v>>] = Trim(v, x, q[k])
            BY <3>3
        <3> HIDE DEF G
        <3> QED BY <3>4 DEF n
    <2> HIDE DEF G
    <2> QED BY <2>1 DEF n, V, base
<1>11. f[1..n] \in W[n]
    <2> HIDE DEF G
    <2> QED BY <1>1, <1>2, <1>4, <1>9, <1>10, FoldKeeps
<1> QED BY <1>1, <1>11, WindowsAreFolds DEF f, V, n

\* The window stays a window whatever segmenters it is moved past.
LEMMA ShiftedType ==
    ASSUME seg \in [Seg -> SegType], NEW c \in Seg, NEW q \in Seq(Seg)
    PROVE  Shifted(c, q) \in WindowType
<1> DEFINE W == [k \in 0..Len(q) |-> WindowType]
<1>1. W \in [0..Len(q) -> SUBSET WindowType] /\ Unmoved(seg[c]) \in W[0]
    <2>1. Unmoved(seg[c]) \in WindowType
        BY DEF Unmoved, SegType, WindowType
    <2>2. Len(q) \in Nat
        OBVIOUS
    <2> QED BY <2>1, <2>2
<1>2. \A k \in 1..Len(q) : \A acc \in W[k - 1] : Shift(acc, c, q[k]) \in W[k]
    BY ShiftTyped
<1>3. Shifted(c, q) \in W[Len(q)]
    <2> HIDE DEF W
    <2> QED BY <1>1, <1>2, ShiftedKeeps
<1> QED BY <1>3

\* The window stays a window whatever slices it is moved past.
LEMMA TrimmedType ==
    ASSUME NEW x \in SegType, NEW q \in Seq(Span)
    PROVE  Trimmed(x, q) \in TrimType
<1> DEFINE W == [k \in 0..Len(q) |-> TrimType]
<1>1. W \in [0..Len(q) -> SUBSET TrimType] /\ Untrimmed(x) \in W[0]
    <2>1. Untrimmed(x) \in TrimType
        BY DEF Untrimmed, SegType, TrimType
    <2>2. Len(q) \in Nat
        OBVIOUS
    <2> QED BY <2>1, <2>2
<1>2. \A k \in 1..Len(q) : \A acc \in W[k - 1] : Trim(acc, x, q[k]) \in W[k]
    BY TrimTyped
<1>3. Trimmed(x, q) \in W[Len(q)]
    <2> HIDE DEF W
    <2> QED BY <1>1, <1>2, TrimmedKeeps
<1> QED BY <1>3

-----------------------------------------------------------------------------
(***************************************************************************)
(* What a turn of the loop does to the current segmenter.                  *)
(***************************************************************************)

\* Becomes(c, x, tell) with and without an answer
Said(c, x) ==
    /\ x.ticket
    /\ seg' = [seg EXCEPT ![c] = Answered(c, x)]
    /\ status' = [status EXCEPT ![c] = Status(c, x)]
    /\ canceled_tickets' = canceled_tickets \ {c}
Unsaid(c, x) ==
    /\ seg' = [seg EXCEPT ![c] = x]
    /\ status' = status /\ canceled_tickets' = canceled_tickets

\* The segmenter keeps its begin, its ticket and its counters; it is processed at most
\* with an answer, a chunk to plan, or an empty last window.
Keeps(c, x) ==
    /\ x \in SegType
    /\ x.begin = seg[c].begin /\ x.ticket = seg[c].ticket /\ x.canceled = seg[c].canceled
    /\ x.planned = seg[c].planned /\ x.done = seg[c].done /\ x.failed = seg[c].failed
    /\ seg[c].processed => x.processed
NotSilent(c, x) ==
    \/ Said(c, x) \/ x.processed = seg[c].processed \/ ~x.ticket
    \/ c \in endedEmpty'
    \/ loop'.at = "plan" /\ loop'.s = c
Turned(c, x) == Keeps(c, x) /\ (Said(c, x) \/ Unsaid(c, x)) /\ NotSilent(c, x)

\* A segmenter that waits, is listed or is being worked on was scheduled.
UsedInv ==
    /\ \A s \in Seg : s \in delayed \/ s \in ToSet(segmenters_) => Used(s)
    /\ loop.at \in {"check", "step", "plan"} => Used(loop.s)
FiniteInv == IsFiniteSet(chunks) /\ IsFiniteSet(reporting) /\ IsFiniteSet(cloud)
Types == TypeOK /\ UsedInv /\ FiniteInv

\* The fields of a segmenter, one by one.
LEMMA SegFields ==
    ASSUME NEW x \in SegType
    PROVE  /\ x.begin \in Nat /\ x.end \in Nat /\ x.start \in Nat /\ x.stop \in Nat
           /\ x.pre \in Nat /\ x.post \in Nat
           /\ x.ticket \in BOOLEAN /\ x.processed \in BOOLEAN /\ x.canceled \in BOOLEAN
           /\ x.finished \in BOOLEAN
           /\ x.planned \in Nat /\ x.done \in Nat /\ x.failed \in Nat
BY DEF SegType

\* The current segmenter is one of the list that is neither cancelled nor processed.
LEMMA CurrentFacts ==
    ASSUME segmenters_ \in Seq(Seg)
    PROVE  \/ Current = NoSeg
           \/ /\ Current \in Seg /\ Current \in ToSet(segmenters_)
              /\ ~seg[Current].canceled /\ ~seg[Current].processed
<1> DEFINE rest == {i \in Kept : ~seg[segmenters_[i]].processed}
<1>1. rest \in SUBSET Nat /\ rest \subseteq DOMAIN segmenters_
    BY DEF Kept
<1>2. CASE rest = {}
    BY <1>2 DEF Current
<1>3. CASE rest # {}
    <2>1. PICK i \in rest : \A j \in rest : i <= j
        <3> HIDE DEF rest
        <3> QED BY <1>1, <1>3, LeastNatural
    <2>2. Min(rest) \in rest
        <3> HIDE DEF rest
        <3> QED BY <2>1 DEF Min
    <2>3. Current = segmenters_[Min(rest)]
        BY <1>3 DEF Current
    <2>4. ~seg[segmenters_[Min(rest)]].processed /\ ~seg[segmenters_[Min(rest)]].canceled
        BY <2>2 DEF Kept
    <2> HIDE DEF rest
    <2>5. Current \in ToSet(segmenters_) /\ Current \in Seg
        <3>1. Min(rest) \in DOMAIN segmenters_
            BY <1>1, <2>2
        <3>2. \A k \in DOMAIN segmenters_ : segmenters_[k] \in Seg
            OBVIOUS
        <3> QED BY <2>3, <3>1, <3>2 DEF ToSet
    <2> QED BY <2>3, <2>4, <2>5
<1> QED BY <1>2, <1>3

\* __purge_segmenters() takes segmenters from the list and adds none.
LEMMA PurgedFacts ==
    ASSUME segmenters_ \in Seq(Seg)
    PROVE  /\ Purged \in Seq(Seg) /\ ToSet(Purged) \subseteq ToSet(segmenters_)
           /\ IsInjective(segmenters_) => IsInjective(Purged)
<1>1. \A S : /\ Only(segmenters_, S) \in Seq(Seg)
             /\ ToSet(Only(segmenters_, S)) \subseteq ToSet(segmenters_)
             /\ IsInjective(segmenters_) => IsInjective(Only(segmenters_, S))
    BY OnlyFacts
<1>2. \E S : Purged = Only(segmenters_, S)
    BY DEF Purged
<1> QED BY <1>1, <1>2

\* __adjust_segmenters_current_to_finished(): what it does to the account.
LEMMA AdjustTurn ==
    ASSUME Types, __adjust_segmenters_current_to_finished
    PROVE  /\ loop'.at \in {"idle", "adjust", "check"} /\ loop'.s \in Seg \cup {NoSeg}
           /\ loop'.at = "check" => loop'.s \in Seg /\ Used(loop'.s)
           /\ UNCHANGED account \/ \E c \in Seg : \E x : Turned(c, x)
<1> USE DEF Types, TypeOK
<1>1. CASE Current = NoSeg
    BY <1>1 DEF __adjust_segmenters_current_to_finished, LoopIdle
<1>2. CASE Current # NoSeg
    <2> DEFINE c == Current
               w == Shifted(c, Purged)
               x == [seg[c] EXCEPT !.start = w.start, !.stop = w.stop,
                                   !.processed = @ \/ w.over, !.finished = @ \/ w.over]
    <2>1. c \in Seg /\ ~seg[c].processed /\ c \in ToSet(segmenters_)
        BY <1>2, CurrentFacts
    <2>2. w \in WindowType
        BY <2>1, PurgedFacts, ShiftedType
    <2>3. /\ loop' = [LoopIdle EXCEPT !.at = IF w.over THEN "adjust" ELSE "check", !.s = c]
          /\ Becomes(c, x, w.over)
        BY <1>2 DEF __adjust_segmenters_current_to_finished
    <2> HIDE DEF c, w
    <2>4. seg[c] \in SegType
        BY <2>1
    <2>5. x \in SegType
        BY <2>2, <2>4 DEF SegType, WindowType
    <2>6. Keeps(c, x) /\ (~w.over => x.processed = seg[c].processed)
        BY <2>4, <2>5 DEF Keeps, SegType
    <2> HIDE DEF x
    <2>7. Said(c, x) \/ (Unsaid(c, x) /\ ~(w.over /\ x.ticket))
        BY <2>3 DEF Becomes, Said, Unsaid
    <2>8. Turned(c, x)
        BY <2>6, <2>7 DEF Turned, NotSilent
    <2>9. loop'.at \in {"idle", "adjust", "check"} /\ loop'.s = c
        BY <2>3 DEF LoopIdle
    <2>10. Used(c)
        BY <2>1 DEF UsedInv
    <2> QED BY <2>1, <2>8, <2>9, <2>10
<1> QED BY <1>1, <1>2

\* slices() of the Cloud's list are periods.
LEMMA SlicesType ==
    ASSUME Types, NEW x, NEW ok
    PROVE  slices(x, ok) \in Seq(Span)
<1> DEFINE P == {p \in cloud : Meets(p, x.start, x.stop)}
<1>1. P \subseteq cloud /\ cloud \in SUBSET Span /\ IsFiniteSet(cloud)
    BY DEF Types, TypeOK, FiniteInv
<1> HIDE DEF P
<1>2. P \in SUBSET Span /\ IsFiniteSet(P)
    BY <1>1, FS_Subset
<1>3. _squash_periods(P) \in Seq(Span)
    BY <1>2, SquashIs
<1> QED BY <1>3 DEF slices, P

\* __check_clip_segment(): what it does to the account.
LEMMA CheckTurn ==
    ASSUME Types, NEW ok, __check_clip_segment(ok)
    PROVE  /\ loop'.at \in {"idle", "step"}
           /\ loop'.at = "step" => loop'.s \in Seg /\ Used(loop'.s)
           /\ loop'.s \in Seg \cup {NoSeg}
           /\ UNCHANGED account \/ \E c \in Seg : \E x : Turned(c, x)
           /\ endedEmpty \subseteq endedEmpty' /\ endedEmpty' \subseteq Seg
           /\ cutOpen' \subseteq Seg /\ unadjusted' \subseteq Seg
<1> USE DEF Types, TypeOK
<1>1. CASE Current = NoSeg
    BY <1>1 DEF __check_clip_segment, LoopIdle
<1>2. CASE Current # NoSeg
    <2> DEFINE c == Current
               w == Trimmed(seg[c], slices(seg[c], ok))
               x == [seg[c] EXCEPT !.start = w.start, !.stop = w.stop,
                                   !.processed = @ \/ w.over, !.finished = @ \/ w.over]
    <2>1. c \in Seg /\ ~seg[c].processed /\ c \in ToSet(segmenters_)
        BY <1>2, CurrentFacts
    <2>2. w \in TrimType
        BY <2>1, SlicesType, TrimmedType
    <2>3. /\ loop' = IF w.upload THEN [LoopIdle EXCEPT !.at = "step", !.s = c] ELSE LoopIdle
          /\ Becomes(c, x, w.over /\ seg[c].planned = 0)
          /\ cutOpen' = cutOpen \cup {s \in {c} : w.over /\ is_open(seg[c])}
          /\ endedEmpty' = endedEmpty \cup {s \in {c} : w.over}
          /\ unadjusted' = unadjusted \cup {s \in {c} : c # loop.s}
        BY <1>2 DEF __check_clip_segment
    <2> HIDE DEF c, w
    <2>4. seg[c] \in SegType
        BY <2>1
    <2>5. x \in SegType
        BY <2>2, <2>4 DEF SegType, TrimType
    <2>6. Keeps(c, x) /\ (~w.over => x.processed = seg[c].processed)
        BY <2>4, <2>5 DEF Keeps, SegType
    <2> HIDE DEF x
    <2>7. Said(c, x) \/ Unsaid(c, x)
        BY <2>3 DEF Becomes, Said, Unsaid
    <2>8. w.over => c \in endedEmpty'
        BY <2>3
    <2>9. Turned(c, x)
        BY <2>6, <2>7, <2>8 DEF Turned, NotSilent
    <2>10. Used(c)
        BY <2>1 DEF UsedInv
    <2>11. /\ loop'.at \in {"idle", "step"}
           /\ loop'.at = "step" => loop'.s = c
           /\ loop'.s = c \/ loop'.s = NoSeg
        BY <2>3 DEF LoopIdle
    <2>12. /\ endedEmpty \subseteq endedEmpty' /\ endedEmpty' \subseteq Seg
           /\ cutOpen' \subseteq Seg /\ unadjusted' \subseteq Seg
        BY <2>1, <2>3
    <2> QED BY <2>1, <2>9, <2>10, <2>11, <2>12
<1> QED BY <1>1, <1>2

\* What the recorder returns for a window.
LEMMA ClipType ==
    ASSUME world \in Worlds, NEW b \in Nat, NEW e \in Nat
    PROVE  record_get_list(b, e) = <<>> \/ record_get_list(b, e) \in Span
<1>1. world.recorder \in RecorderKind
    BY SegmentAssumption
<1>2. CASE b >= e
    BY <1>2 DEF record_get_list
<1>3. CASE b < e
    <2>1. [b |-> b, e |-> e] \in Span /\ [b |-> b + 1, e |-> e] \in Span
          /\ [b |-> b, e |-> e + 1] \in Span
        BY DEF Span
    <2>2. CASE world.recorder = "whole"
        BY <1>3, <2>1, <2>2 DEF record_get_list
    <2>3. CASE world.recorder = "gap"
        BY <1>3, <2>1, <2>3 DEF record_get_list
    <2>4. CASE world.recorder = "part"
        BY <1>3, <2>1, <2>4 DEF record_get_list
    <2>5. CASE world.recorder = "long"
        BY <1>3, <2>1, <2>5 DEF record_get_list
    <2> QED BY <1>1, <2>2, <2>3, <2>4, <2>5 DEF RecorderKind
<1> QED BY <1>2, <1>3

\* __segment_step(): what it does to the account.
LEMMA StepTurn ==
    ASSUME Types, __segment_step
    PROVE  /\ loop.at = "step" /\ loop.s \in Seg
           /\ loop'.at \in {"idle", "plan"}
           /\ loop'.at = "plan" => /\ loop'.s = loop.s /\ loop'.clip \in Span
                                   /\ ~seg[loop.s].processed
           /\ loop'.s \in Seg \cup {NoSeg}
           /\ UNCHANGED account \/ \E x : Turned(loop.s, x)
           /\ endedEmpty \subseteq endedEmpty' /\ endedEmpty' \subseteq Seg
           /\ missing' \subseteq Nat
<1> DEFINE s == loop.s
           x == seg[s]
           stop == IF ~is_open(x) /\ x.stop > Border(x) THEN Border(x) ELSE x.stop
<1>1. loop.at = "step" /\ s \in Seg /\ x \in SegType /\ world \in Worlds
    BY DEF __segment_step, Types, TypeOK
<1>2. endedEmpty \subseteq Seg /\ missing \subseteq Nat
    BY DEF Types, TypeOK
<1>3. stop \in Nat /\ x.start \in Nat
    <2>1. x.stop \in Nat /\ x.start \in Nat /\ x.end \in Nat /\ x.post \in Nat
        BY <1>1, SegFields
    <2> HIDE DEF x
    <2> QED BY <2>1 DEF Border
<1> DEFINE
      OverStep == [x EXCEPT !.stop = stop, !.processed = TRUE,
                            !.finished = @ \/ x.planned = 0]
      NextStep == [x EXCEPT !.stop = x.start + Step]
      clip == record_get_list(x.start, stop)
      start == IF clip = <<>> \/ clip.e - clip.b > MaxClip THEN stop ELSE clip.e
      last == ~is_open(x) /\ Border(x) <= start
      none == clip = <<>> /\ last
      ClipStep == [x EXCEPT !.start = start, !.stop = start + Step, !.processed = last,
                            !.finished = @ \/ (none /\ x.planned = 0)]
<1>9. \/ /\ x.processed \/ x.canceled
         /\ loop' = LoopIdle /\ UNCHANGED <<account, missing, endedEmpty>>
      \/ /\ ~x.processed /\ ~x.canceled /\ ~is_open(x) /\ x.start >= Border(x)
         /\ loop' = LoopIdle /\ Becomes(s, OverStep, x.planned = 0)
         /\ endedEmpty' = endedEmpty \cup {s} /\ missing' = missing
      \/ /\ ~x.processed /\ ~x.canceled /\ (is_open(x) \/ x.start < Border(x))
         /\ x.start = stop
         /\ loop' = LoopIdle /\ Becomes(s, NextStep, FALSE)
         /\ missing' = missing /\ endedEmpty' = endedEmpty
      \/ /\ ~x.processed /\ ~x.canceled /\ (is_open(x) \/ x.start < Border(x))
         /\ x.start # stop
         /\ loop' = IF clip = <<>> THEN LoopIdle ELSE [at |-> "plan", s |-> s, clip |-> clip]
         /\ Becomes(s, ClipStep, none /\ x.planned = 0)
         /\ missing' = missing \cup {t \in x.start..(start - 1) : clip = <<>> \/ t < clip.b}
         /\ endedEmpty' = IF none THEN endedEmpty \cup {s} ELSE endedEmpty
    BY Zenon DEF __segment_step
<1> HIDE DEF s, x, stop, clip, start, last, none, OverStep, NextStep, ClipStep
<1>4. CASE /\ x.processed \/ x.canceled
           /\ loop' = LoopIdle /\ UNCHANGED <<account, missing, endedEmpty>>
    <2> QED BY <1>1, <1>2, <1>4 DEF LoopIdle, s
<1>5. CASE /\ ~x.processed /\ ~x.canceled
           /\ loop' = LoopIdle /\ Becomes(s, OverStep, x.planned = 0)
           /\ endedEmpty' = endedEmpty \cup {s} /\ missing' = missing
    <2>2. OverStep \in SegType
        BY <1>1, <1>3 DEF SegType, OverStep
    <2>3. Keeps(s, OverStep)
        BY <1>1, <2>2 DEF Keeps, SegType, x, OverStep
    <2>4. Said(s, OverStep) \/ Unsaid(s, OverStep)
        BY <1>5 DEF Becomes, Said, Unsaid
    <2>5. Turned(s, OverStep)
        BY <1>5, <2>3, <2>4 DEF Turned, NotSilent
    <2> QED BY <1>1, <1>2, <1>5, <2>5 DEF LoopIdle, s
<1>6. CASE /\ ~x.processed /\ ~x.canceled /\ x.start = stop
           /\ loop' = LoopIdle /\ Becomes(s, NextStep, FALSE)
           /\ missing' = missing /\ endedEmpty' = endedEmpty
    <2>2. NextStep \in SegType
        <3>1. x.start + Step \in Nat
            BY <1>3, StepNat
        <3> QED BY <1>1, <3>1 DEF SegType, NextStep
    <2>3. Keeps(s, NextStep) /\ NextStep.processed = x.processed
        BY <1>1, <2>2 DEF Keeps, SegType, x, NextStep
    <2>4. Said(s, NextStep) \/ Unsaid(s, NextStep)
        BY <1>6 DEF Becomes, Said, Unsaid
    <2>5. Turned(s, NextStep)
        BY <1>6, <2>3, <2>4 DEF Turned, NotSilent, x
    <2> QED BY <1>1, <1>2, <1>6, <2>5 DEF LoopIdle, s
<1>7. CASE /\ ~x.processed /\ ~x.canceled
           /\ loop' = IF clip = <<>> THEN LoopIdle ELSE [at |-> "plan", s |-> s, clip |-> clip]
           /\ Becomes(s, ClipStep, none /\ x.planned = 0)
           /\ missing' = missing \cup {t \in x.start..(start - 1) : clip = <<>> \/ t < clip.b}
           /\ endedEmpty' = IF none THEN endedEmpty \cup {s} ELSE endedEmpty
    <2>2. clip = <<>> \/ clip \in Span
        BY <1>1, <1>3, ClipType DEF clip
    <2>3. start \in Nat
        BY <1>3, <2>2 DEF Span, start
    <2>4. last \in BOOLEAN /\ none = (clip = <<>> /\ last)
        BY DEF last, none
    <2>5. ClipStep \in SegType
        <3>1. start + Step \in Nat
            BY <2>3, StepNat
        <3> QED BY <1>1, <2>3, <2>4, <3>1 DEF SegType, ClipStep
    <2>6. Keeps(s, ClipStep) /\ ClipStep.processed = last
        BY <1>1, <1>7, <2>5 DEF Keeps, SegType, x, ClipStep
    <2>7. Said(s, ClipStep) \/ Unsaid(s, ClipStep)
        BY <1>7 DEF Becomes, Said, Unsaid
    <2>8. last = FALSE \/ s \in endedEmpty' \/ (loop'.at = "plan" /\ loop'.s = s)
        BY <1>7, <2>4
    <2>9. Turned(s, ClipStep)
        <3>1. x.processed = FALSE
            BY <1>1, <1>7, SegFields
        <3> QED BY <2>6, <2>7, <2>8, <3>1 DEF Turned, NotSilent, x
    <2>10. missing' \subseteq Nat
        <3>1. x.start..(start - 1) \subseteq Nat
            BY <1>3, <2>3
        <3> QED BY <1>2, <1>7, <3>1
    <2>11. /\ loop'.at \in {"idle", "plan"}
           /\ loop'.at = "plan" => loop'.s = s /\ loop'.clip \in Span
           /\ loop'.s = s \/ loop'.s = NoSeg
        BY <1>7, <2>2 DEF LoopIdle
    <2>12. endedEmpty \subseteq endedEmpty' /\ endedEmpty' \subseteq Seg
        BY <1>1, <1>2, <1>7
    <2> QED BY <1>1, <1>7, <2>9, <2>10, <2>11, <2>12 DEF s, x
<1> QED BY <1>4, <1>5, <1>6, <1>7, <1>9

\* An answer changes the flags of the ticket and nothing else of the segmenter; DONE and
\* ERROR are said when every chunk is counted, CANCELED of a cancelled one.
LEMMA SaidFacts ==
    ASSUME TypeOK, NEW c \in Seg, NEW x \in SegType, Said(c, x)
    PROVE  /\ seg' \in [Seg -> SegType] /\ status' \in [Seg -> StatusKind]
           /\ canceled_tickets' \subseteq Seg
           /\ \A o \in Seg : o # c => seg'[o] = seg[o] /\ status'[o] = status[o]
           /\ x.ticket
           /\ seg'[c].begin = x.begin /\ seg'[c].processed = x.processed
           /\ seg'[c].planned = x.planned /\ seg'[c].done = x.done /\ seg'[c].failed = x.failed
           /\ x.canceled => seg'[c].canceled
           /\ status'[c] = "CANCELED" => seg'[c].canceled
           /\ status'[c] \in {"DONE", "ERROR"} => AllCounted(seg'[c])
           /\ ~(AllCounted(seg'[c]) /\ seg'[c].ticket /\ ~seg'[c].canceled)
<1> DEFINE off == x.canceled \/ c \in canceled_tickets
           y == [x EXCEPT !.canceled = off, !.ticket = off \/ ~AllCounted(x)]
<1>1. /\ seg \in [Seg -> SegType] /\ status \in [Seg -> StatusKind]
      /\ canceled_tickets \subseteq Seg
    BY DEF TypeOK
<1>2. Answered(c, x) = [x EXCEPT !.canceled = @ \/ c \in canceled_tickets,
                        !.ticket = x.canceled \/ c \in canceled_tickets \/ ~AllCounted(x)]
    BY DEF Answered
<1>3. /\ x.canceled \in BOOLEAN /\ x.ticket \in BOOLEAN
    BY SegFields
<1>4. Answered(c, x) = y
    BY <1>2
<1>5. off \in BOOLEAN /\ (off \/ ~AllCounted(x)) \in BOOLEAN
    OBVIOUS
<1> HIDE DEF off
<1>6. /\ y \in SegType
      /\ y.begin = x.begin /\ y.processed = x.processed
      /\ y.planned = x.planned /\ y.done = x.done /\ y.failed = x.failed
      /\ y.canceled = off /\ y.ticket = (off \/ ~AllCounted(x))
    BY <1>5 DEF SegType
<1>7. AllCounted(y) = AllCounted(x)
    BY <1>6 DEF AllCounted
<1> HIDE DEF y
<1>8. seg' = [seg EXCEPT ![c] = y] /\ status' = [status EXCEPT ![c] = Status(c, x)]
      /\ canceled_tickets' = canceled_tickets \ {c} /\ x.ticket
    BY <1>4 DEF Said
<1>9. /\ Status(c, x) \in StatusKind
      /\ Status(c, x) = "CANCELED" => off
      /\ Status(c, x) \in {"DONE", "ERROR"} => AllCounted(x)
    BY DEF Status, StatusKind, off
<1>10. seg'[c] = y /\ status'[c] = Status(c, x)
    BY <1>1, <1>8
<1>11. /\ seg' \in [Seg -> SegType] /\ status' \in [Seg -> StatusKind]
       /\ canceled_tickets' \subseteq Seg
       /\ \A o \in Seg : o # c => seg'[o] = seg[o] /\ status'[o] = status[o]
    BY <1>1, <1>6, <1>8, <1>9
<1>12. x.canceled => seg'[c].canceled
    BY <1>6, <1>10 DEF off
<1>13. ~(AllCounted(seg'[c]) /\ seg'[c].ticket /\ ~seg'[c].canceled)
    BY <1>6, <1>7, <1>10
<1>14. /\ status'[c] = "CANCELED" => seg'[c].canceled
       /\ status'[c] \in {"DONE", "ERROR"} => AllCounted(seg'[c])
    BY <1>6, <1>7, <1>9, <1>10
<1> QED BY <1>6, <1>8, <1>10, <1>11, <1>12, <1>13, <1>14

\* Without an answer the segmenter is what the step made of it.
LEMMA UnsaidFacts ==
    ASSUME TypeOK, NEW c \in Seg, NEW x \in SegType, Unsaid(c, x)
    PROVE  /\ seg' \in [Seg -> SegType] /\ status' \in [Seg -> StatusKind]
           /\ canceled_tickets' \subseteq Seg
           /\ \A o \in Seg : status'[o] = status[o]
           /\ \A o \in Seg : o # c => seg'[o] = seg[o]
           /\ seg'[c] = x
BY DEF TypeOK, Unsaid

\* What every step but a new request leaves of a segmenter: no flag is taken back, and a
\* final status is said when every chunk is counted.
Answers(o) ==
    /\ seg'[o].begin = seg[o].begin
    /\ seg[o].processed => seg'[o].processed
    /\ seg[o].canceled => seg'[o].canceled
    /\ seg'[o].ticket => seg[o].ticket
    /\ \/ status'[o] = status[o]
       \/ /\ seg[o].ticket
          /\ status'[o] = "CANCELED" => seg'[o].canceled
          /\ status'[o] \in {"DONE", "ERROR"} => AllCounted(seg'[o])

\* Most steps leave its counters alone, too.
Carried(o) ==
    /\ Answers(o)
    /\ seg'[o].planned = seg[o].planned
    /\ seg'[o].done = seg[o].done /\ seg'[o].failed = seg[o].failed

\* What the loop leaves besides: a segmenter whose chunks are all counted has been
\* answered, has an empty last window or gets another chunk.
Kept1(o) ==
    /\ Carried(o)
    /\ AllCounted(seg'[o]) /\ seg'[o].ticket /\ ~seg'[o].canceled =>
          \/ AllCounted(seg[o]) /\ seg[o].ticket /\ ~seg[o].canceled
          \/ o \in endedEmpty'
          \/ loop'.at = "plan" /\ loop'.s = o
AccountKept ==
    /\ seg' \in [Seg -> SegType] /\ status' \in [Seg -> StatusKind]
    /\ canceled_tickets' \subseteq Seg
    /\ \A o \in Seg : Kept1(o)

\* A step that leaves the account alone keeps it.
LEMMA UnchangedKept == ASSUME TypeOK, UNCHANGED account PROVE AccountKept
<1>1. seg' = seg /\ status' = status /\ canceled_tickets' = canceled_tickets
    BY DEF account
<1>2. \A o \in Seg : Kept1(o)
    BY <1>1 DEF Kept1, Carried, Answers
<1> QED BY <1>1, <1>2 DEF AccountKept, TypeOK

\* A turn of the loop keeps the account.
LEMMA TurnedKept ==
    ASSUME TypeOK, NEW c \in Seg, NEW x, Turned(c, x)
    PROVE  AccountKept
<1>1. x \in SegType /\ seg[c] \in SegType
    BY DEF TypeOK, Turned, Keeps
<1>2. /\ x.begin = seg[c].begin /\ x.ticket = seg[c].ticket /\ x.canceled = seg[c].canceled
      /\ x.planned = seg[c].planned /\ x.done = seg[c].done /\ x.failed = seg[c].failed
      /\ seg[c].processed => x.processed
    BY DEF Turned, Keeps
<1>3. \A o \in Seg : seg'[o] = seg[o] /\ status'[o] = status[o] => Kept1(o)
    BY DEF Kept1, Carried, Answers
<1>4. CASE Said(c, x)
    <2>1. Kept1(c)
        BY <1>1, <1>2, <1>4, SaidFacts DEF Kept1, Carried, Answers
    <2> QED BY <1>1, <1>3, <1>4, <2>1, SaidFacts DEF AccountKept
<1>5. CASE ~Said(c, x) /\ Unsaid(c, x)
    <2>1. seg'[c] = x /\ status'[c] = status[c]
        BY <1>1, <1>5, UnsaidFacts
    <2>2. \/ x.processed = seg[c].processed \/ ~x.ticket \/ c \in endedEmpty'
          \/ loop'.at = "plan" /\ loop'.s = c
        BY <1>5 DEF Turned, NotSilent
    <2>3. Kept1(c)
        BY <1>1, <1>2, <2>1, <2>2 DEF Kept1, Carried, Answers, AllCounted
    <2> QED BY <1>1, <1>3, <1>5, <2>3, UnsaidFacts DEF AccountKept
<1> QED BY <1>4, <1>5 DEF Turned

\* The steps of the loop but for plan_chunk.
LoopStep ==
    \/ __adjust_segmenters_current_to_finished
    \/ \E ok \in BOOLEAN : __check_clip_segment(ok)
    \/ __segment_step

\* The three steps of the loop, and all that is used of them below.
LEMMA LoopFacts ==
    ASSUME Types, LoopStep
    PROVE  /\ AccountKept
           /\ UNCHANGED <<world, posted, traffic, from, planned, overtook>>
           /\ endedEmpty \subseteq endedEmpty' /\ endedEmpty' \subseteq Seg
           /\ missing' \subseteq Nat /\ cutOpen' \subseteq Seg /\ unadjusted' \subseteq Seg
           /\ segmenters_' \in Seq(Seg) /\ IsInjective(segmenters_')
           /\ ToSet(segmenters_') \subseteq ToSet(segmenters_)
           /\ loop.at # "plan" /\ loop'.at \in LoopAt /\ loop'.s \in Seg \cup {NoSeg}
           /\ loop'.at \in {"check", "step"} => loop'.s \in Seg /\ Used(loop'.s)
           /\ loop'.at = "plan" => /\ loop.at = "step" /\ loop'.s = loop.s /\ loop.s \in Seg
                                   /\ loop'.clip \in Span /\ ~seg[loop.s].processed
<1>1. /\ endedEmpty \subseteq Seg /\ missing \subseteq Nat
      /\ cutOpen \subseteq Seg /\ unadjusted \subseteq Seg
      /\ segmenters_ \in Seq(Seg) /\ IsInjective(segmenters_) /\ TypeOK
    BY DEF Types, TypeOK
<1>2. CASE __adjust_segmenters_current_to_finished
    <2>1. AccountKept
        BY <1>1, <1>2, AdjustTurn, UnchangedKept, TurnedKept
    <2>2. /\ segmenters_' = Purged /\ loop.at # "plan"
          /\ UNCHANGED <<world, posted, traffic, observed>>
        BY <1>2 DEF __adjust_segmenters_current_to_finished
    <2>3. /\ loop'.at \in {"idle", "adjust", "check"} /\ loop'.s \in Seg \cup {NoSeg}
          /\ loop'.at = "check" => loop'.s \in Seg /\ Used(loop'.s)
        BY <1>2, AdjustTurn
    <2> QED BY <1>1, <2>1, <2>2, <2>3, PurgedFacts DEF observed, LoopAt
<1>3. ASSUME NEW ok \in BOOLEAN, __check_clip_segment(ok)
      PROVE  /\ AccountKept
             /\ UNCHANGED <<world, posted, traffic, from, planned, missing, overtook>>
             /\ segmenters_' = Purged /\ loop.at # "plan"
             /\ loop'.at \in {"idle", "step"}
             /\ loop'.at = "step" => loop'.s \in Seg /\ Used(loop'.s)
             /\ loop'.s \in Seg \cup {NoSeg}
             /\ endedEmpty \subseteq endedEmpty' /\ endedEmpty' \subseteq Seg
             /\ cutOpen' \subseteq Seg /\ unadjusted' \subseteq Seg
    <2>1. AccountKept
        BY <1>1, <1>3, CheckTurn, UnchangedKept, TurnedKept
    <2>2. /\ segmenters_' = Purged /\ loop.at # "plan"
          /\ UNCHANGED <<world, posted, traffic, from, planned, missing, overtook>>
        BY <1>3 DEF __check_clip_segment
    <2> QED BY <1>3, <2>1, <2>2, CheckTurn
<1>4. CASE \E ok \in BOOLEAN : __check_clip_segment(ok)
    BY <1>1, <1>3, <1>4, PurgedFacts DEF LoopAt
<1>5. CASE __segment_step
    <2>1. AccountKept
        BY <1>1, <1>5, StepTurn, UnchangedKept, TurnedKept
    <2>2. UNCHANGED <<world, posted, segmenters_, traffic, from, planned, overtook, unadjusted,
                      cutOpen>>
        BY <1>5 DEF __segment_step
    <2>3. /\ loop.at = "step" /\ loop.s \in Seg
          /\ loop'.at \in {"idle", "plan"}
          /\ loop'.at = "plan" => /\ loop'.s = loop.s /\ loop'.clip \in Span
                                  /\ ~seg[loop.s].processed
          /\ loop'.s \in Seg \cup {NoSeg}
          /\ endedEmpty \subseteq endedEmpty' /\ endedEmpty' \subseteq Seg
          /\ missing' \subseteq Nat
        BY <1>5, StepTurn
    <2> QED BY <1>1, <2>1, <2>2, <2>3 DEF LoopAt
<1> QED BY <1>2, <1>4, <1>5 DEF LoopStep

-----------------------------------------------------------------------------
(***************************************************************************)
(* Types.                                                                  *)
(***************************************************************************)

\* A new segmenter has begun nothing.
LEMMA SegmenterType ==
    ASSUME NEW s \in Seg, NEW r \in Request[s]
    PROVE  /\ Segmenter(r) \in SegType /\ Segmenter(r).begin # Null
           /\ Segmenter(r).ticket \in BOOLEAN
           /\ ~Segmenter(r).processed /\ Segmenter(r).planned = 0
           /\ Segmenter(r).done = 0 /\ Segmenter(r).failed = 0
<1>1. /\ r \in [at : 1..Far, begin : 1..Far, end : 0..Far, pre : 0..Far, post : 0..Far,
                ticket : BOOLEAN]
      /\ r.pre < r.at /\ r.at <= r.begin /\ Far \in Nat
    BY SegmentAssumption
<1>2. /\ r.at \in Nat /\ r.begin \in Nat /\ r.begin # 0 /\ r.end \in Nat /\ r.pre \in Nat
      /\ r.post \in Nat /\ r.ticket \in BOOLEAN /\ r.at - r.pre \in Nat
    BY <1>1
<1> DEFINE start == IF r.begin = r.at THEN r.at - r.pre ELSE r.begin
           stop  == IF r.end = Null \/ r.at + Step <= r.end + r.post
                    THEN r.at + Step ELSE r.end + r.post
<1>3. start \in Nat /\ stop \in Nat
    BY <1>2, StepNat
<1>4. Segmenter(r) =
        [Blank EXCEPT !.begin = r.begin, !.end = r.end, !.pre = r.pre, !.post = r.post,
                      !.ticket = r.ticket, !.start = start, !.stop = stop]
    BY DEF Segmenter
<1> HIDE DEF start, stop
<1>5. Segmenter(r) =
        [begin |-> r.begin, end |-> r.end, start |-> start, stop |-> stop, pre |-> r.pre,
         post |-> r.post, ticket |-> r.ticket, processed |-> FALSE, canceled |-> FALSE,
         finished |-> FALSE, planned |-> 0, done |-> 0, failed |-> 0]
    BY <1>4 DEF Blank
<1> QED BY <1>2, <1>3, <1>5 DEF SegType, Null

\* The list stays one of distinct segmenters when one is put in its place.
LEMMA EnqueuedFacts ==
    ASSUME seg \in [Seg -> SegType],
           segmenters_ \in Seq(Seg), IsInjective(segmenters_), NEW s \in Seg,
           s \notin ToSet(segmenters_), __segmenter_enqueue(s)
    PROVE  /\ segmenters_' \in Seq(Seg) /\ IsInjective(segmenters_')
           /\ ToSet(segmenters_') \subseteq ToSet(segmenters_) \cup {s}
<1> DEFINE upTo == {o \in Seg : seg[o].begin <= seg[s].begin}
           behind == {o \in Seg : seg[o].begin > seg[s].begin}
           p == Only(segmenters_, upTo)
           q == Only(segmenters_, behind)
<1>16. segmenters_' = p \o <<s>> \o q
    BY DEF __segmenter_enqueue
<1>0. \A S : /\ Only(segmenters_, S) \in Seq(Seg) /\ IsInjective(Only(segmenters_, S))
             /\ ToSet(Only(segmenters_, S)) = ToSet(segmenters_) \cap S
    BY OnlyFacts
<1> HIDE DEF upTo, behind
<1>1. /\ p \in Seq(Seg) /\ IsInjective(p)
      /\ ToSet(p) = ToSet(segmenters_) \cap upTo
    BY <1>0
<1>2. /\ q \in Seq(Seg) /\ IsInjective(q)
      /\ ToSet(q) = ToSet(segmenters_) \cap behind
    BY <1>0
<1>17. upTo \cap behind = {}
    <2>1. \A o \in Seg : seg[o].begin \in Nat
        BY SegFields
    <2> QED BY <2>1 DEF upTo, behind
<1>4. ASSUME NEW o \in ToSet(p) PROVE o # s /\ o \notin ToSet(q)
    BY <1>1, <1>2, <1>17
<1>5. ASSUME NEW o \in ToSet(q) PROVE o # s
    BY <1>2
<1> HIDE DEF p, q
<1> DEFINE n == Len(p)
           k == Len(q)
           L == p \o <<s>> \o q
<1>6. n \in Nat /\ k \in Nat /\ DOMAIN p = 1..n /\ DOMAIN q = 1..k
    BY <1>1, <1>2
<1>7. /\ L \in Seq(Seg) /\ Len(L) = n + 1 + k
      /\ \A i \in 1..n : L[i] = p[i]
      /\ L[n + 1] = s
      /\ \A i \in 1..k : L[n + 1 + i] = q[i]
    BY <1>1, <1>2
<1> HIDE DEF n, k, L
<1>8. ASSUME NEW i \in 1..(n + 1 + k)
      PROVE  i \in 1..n \/ i = n + 1 \/ (i - n - 1 \in 1..k /\ i = n + 1 + (i - n - 1))
    BY <1>6
<1>9. ASSUME NEW i \in 1..(n + 1 + k)
      PROVE  \/ i \in 1..n /\ L[i] = p[i] /\ L[i] \in ToSet(p)
             \/ i = n + 1 /\ L[i] = s
             \/ i - n - 1 \in 1..k /\ L[i] = q[i - n - 1] /\ L[i] \in ToSet(q)
    <2>1. \A j \in 1..n : p[j] \in ToSet(p)
        BY <1>6 DEF ToSet
    <2>2. \A j \in 1..k : q[j] \in ToSet(q)
        BY <1>6 DEF ToSet
    <2> QED BY <1>7, <1>8, <2>1, <2>2
<1>10. \A i, j \in 1..n : p[i] = p[j] => i = j
    BY <1>1, <1>6 DEF IsInjective
<1>11. \A i, j \in 1..k : q[i] = q[j] => i = j
    BY <1>2, <1>6 DEF IsInjective
<1>12. ASSUME NEW i \in 1..(n + 1 + k), NEW j \in 1..(n + 1 + k), L[i] = L[j]
       PROVE  i = j
    <2>1. CASE i \in 1..n /\ L[i] = p[i] /\ L[i] \in ToSet(p)
        BY <1>4, <1>9, <1>10, <1>12, <2>1
    <2>2. CASE i = n + 1 /\ L[i] = s
        BY <1>4, <1>5, <1>9, <1>12, <2>2
    <2>3. CASE i - n - 1 \in 1..k /\ L[i] = q[i - n - 1] /\ L[i] \in ToSet(q)
        <3>1. j - n - 1 \in 1..k /\ L[j] = q[j - n - 1]
            BY <1>4, <1>5, <1>9, <1>12, <2>3
        <3>2. i - n - 1 = j - n - 1
            BY <1>11, <1>12, <2>3, <3>1
        <3> QED BY <1>6, <3>2
    <2> QED BY <1>9, <2>1, <2>2, <2>3
<1>13. DOMAIN L = 1..(n + 1 + k)
    BY <1>7
<1>14. IsInjective(L)
    BY <1>12, <1>13 DEF IsInjective
<1>15. ToSet(L) \subseteq ToSet(segmenters_) \cup {s}
    <2>1. ToSet(p) \subseteq ToSet(segmenters_) /\ ToSet(q) \subseteq ToSet(segmenters_)
        BY <1>1, <1>2
    <2> QED BY <1>9, <1>13, <2>1 DEF ToSet
<1> QED BY <1>7, <1>14, <1>15, <1>16 DEF L

\* Types holds initially: what the Cloud has from elsewhere is finite.
LEMMA TypesInit == Init => Types
<1> SUFFICES ASSUME Init PROVE Types
    OBVIOUS
<1> USE DEF Init
<1>1. /\ seg \in [Seg -> SegType] /\ status \in [Seg -> StatusKind]
      /\ finalizing \in [Seg -> Nat] /\ world \in Worlds
    BY DEF SegType, Blank, StatusKind, Null
<1>2. segmenters_ \in Seq(Seg) /\ IsInjective(segmenters_) /\ ToSet(segmenters_) = {}
    BY DEF IsInjective, ToSet
<1>3. cloud \subseteq Span
    BY SegmentAssumption DEF Period, Span
<1>4. loop.at = "idle" /\ loop.s = NoSeg
    BY DEF LoopIdle
<1>5. TypeOK
    BY <1>1, <1>2, <1>3, <1>4 DEF TypeOK, LoopAt
<1>6. UsedInv
    BY <1>2, <1>4 DEF UsedInv
<1>7. IsFiniteSet(cloud)
    <2> DEFINE S == (0..Far) \X (0..Far)
               f == [p \in S |-> [b |-> p[1], e |-> p[2]]]
    <2>1. Far \in Nat /\ Stored \subseteq Period
        BY SegmentAssumption
    <2>2. IsFiniteSet(0..Far)
        BY <2>1, FS_Interval
    <2>3. IsFiniteSet(S)
        BY <2>2, FS_Product
    <2>4. f \in Surjection(S, Period)
        <3>1. f \in [S -> Period]
            BY DEF Period
        <3>2. ASSUME NEW p \in Period PROVE \E t \in S : f[t] = p
            <4>1. <<p.b, p.e>> \in S /\ p = [b |-> p.b, e |-> p.e]
                BY DEF Period
            <4>2. f[<<p.b, p.e>>] = p
                BY <4>1
            <4> QED BY <4>1, <4>2
        <3> HIDE DEF f, S
        <3> QED BY <3>1, <3>2 DEF Surjection
    <2> HIDE DEF f, S
    <2>5. IsFiniteSet(Period)
        BY <2>3, <2>4, FS_Surjection
    <2> QED BY <2>1, <2>5, FS_Subset
<1>8. FiniteInv
    BY <1>7, FS_EmptySet DEF FiniteInv
<1> QED BY <1>5, <1>6, <1>8 DEF Types

\* Requests, ends of events and cancellations keep the types.
LEMMA TypesEnvironment ==
    ASSUME Types, Environment
    PROVE  Types'
<1> USE DEF Types
<1>0. \A s \in Seg : seg[s] \in SegType
    BY DEF TypeOK
<1>1. ASSUME NEW s \in Seg, NEW r \in Request[s], schedule_upload(s, r)
      PROVE  Types'
    <2>1. seg' = [seg EXCEPT ![s] = Segmenter(r)] /\ delayed' = delayed \cup {s} /\ ~Used(s)
        BY <1>1 DEF schedule_upload
    <2>2. /\ UNCHANGED <<world, status, canceled_tickets, segmenters_, finalizing, canceling, loop>>
          /\ UNCHANGED <<traffic, planned, missing, endedEmpty, overtook, unadjusted, cutOpen>>
          /\ from' = [from EXCEPT ![s] = Segmenter(r).start]
        BY <1>1 DEF schedule_upload
    <2>3. s \notin ToSet(segmenters_)
        BY <2>1 DEF UsedInv
    <2>4. Segmenter(r) \in SegType /\ Segmenter(r).begin # Null
        BY SegmenterType
    <2>5. seg' \in [Seg -> SegType]
        BY <2>1, <2>4 DEF TypeOK
    <2>6. delayed' \subseteq Seg /\ delayed' \cap ToSet(segmenters_') = {}
        BY <2>1, <2>2, <2>3 DEF TypeOK
    <2>10. from' \in [Seg -> Nat]
        BY <2>2, <2>4, SegFields DEF TypeOK
    <2>7. TypeOK'
        BY <2>2, <2>5, <2>6, <2>10 DEF TypeOK, traffic
    <2>8. \A o \in Seg : o = s \/ Used(o) => seg'[o].begin # Null
        BY <2>1, <2>4 DEF TypeOK, Used
    <2>9. UsedInv'
        BY <2>1, <2>2, <2>8 DEF UsedInv, Used, TypeOK
    <2> QED BY <2>2, <2>7, <2>9 DEF FiniteInv, traffic
<1>2. ASSUME NEW s \in Seg, NEW t \in EndTime, NEW now \in BOOLEAN, finalize_upload(s, t, now)
      PROVE  Types'
    <2>1. t \in Nat
        BY SegmentAssumption
    <2>2. /\ seg' = IF now THEN [seg EXCEPT ![s].end = t] ELSE seg
          /\ finalizing' = [finalizing EXCEPT ![s] = t]
          /\ UNCHANGED <<world, status, canceled_tickets, delayed, canceling, segmenters_, loop>>
          /\ UNCHANGED <<traffic, observed>>
        BY <1>2 DEF finalize_upload
    <2> DEFINE x == [seg[s] EXCEPT !.end = t]
    <2>3. x \in SegType /\ x.begin = seg[s].begin
        BY <1>0, <2>1 DEF SegType
    <2>4. seg' = seg \/ seg' = [seg EXCEPT ![s] = x]
        BY <2>2
    <2> HIDE DEF x
    <2>5. seg' \in [Seg -> SegType] /\ \A o \in Seg : seg'[o].begin = seg[o].begin
        BY <2>3, <2>4 DEF TypeOK
    <2>6. finalizing' \in [Seg -> Nat]
        BY <2>1, <2>2 DEF TypeOK
    <2>7. TypeOK'
        BY <2>2, <2>5, <2>6 DEF TypeOK, traffic, observed
    <2>8. UsedInv'
        BY <2>2, <2>5 DEF UsedInv, Used, TypeOK
    <2> QED BY <2>2, <2>7, <2>8 DEF FiniteInv, traffic
<1>3. ASSUME NEW s \in Seg, cancel_upload(s)
      PROVE  Types'
    <2>1. /\ canceling' = canceling \cup {s}
          /\ UNCHANGED <<world, account, delayed, finalizing, segmenters_, loop, traffic, observed>>
        BY <1>3 DEF cancel_upload
    <2>2. TypeOK'
        BY <2>1 DEF TypeOK, account, traffic, observed
    <2> QED BY <2>1, <2>2 DEF UsedInv, Used, FiniteInv, account, traffic
<1> QED BY <1>1, <1>2, <1>3 DEF Environment, EventEnds

\* The callbacks posted to the uploader thread keep the types.
LEMMA TypesCallback ==
    ASSUME Types, NEW s \in Seg,
           __segmenter_enqueue(s) \/ __segmenter_finalize(s) \/ __segmenter_cancel_by_ticket(s)
    PROVE  Types'
<1> USE DEF Types
<1>0. seg[s] \in SegType /\ seg \in [Seg -> SegType] /\ status \in [Seg -> StatusKind]
    BY DEF TypeOK
<1>1. CASE __segmenter_enqueue(s)
    <2>1. s \in delayed /\ segmenters_ \in Seq(Seg) /\ IsInjective(segmenters_)
          /\ delayed \cap ToSet(segmenters_) = {}
        BY <1>1 DEF TypeOK, __segmenter_enqueue
    <2>2. /\ segmenters_' \in Seq(Seg) /\ IsInjective(segmenters_')
          /\ ToSet(segmenters_') \subseteq ToSet(segmenters_) \cup {s}
        BY <1>0, <1>1, <2>1, EnqueuedFacts
    <2>3. /\ delayed' = delayed \ {s} /\ overtook' \subseteq overtook \cup {s}
          /\ UNCHANGED <<world, account, finalizing, canceling, loop, traffic, from, planned,
                         missing, endedEmpty, unadjusted, cutOpen>>
        BY <1>1 DEF __segmenter_enqueue
    <2>4. delayed' \cap ToSet(segmenters_') = {}
        BY <2>1, <2>2, <2>3
    <2>5. delayed' \subseteq Seg /\ overtook' \subseteq Seg
        BY <2>3 DEF TypeOK
    <2>6. TypeOK'
        BY <2>2, <2>3, <2>4, <2>5 DEF TypeOK, account, traffic
    <2>7. UsedInv'
        BY <2>1, <2>2, <2>3 DEF UsedInv, Used, account
    <2> QED BY <2>3, <2>6, <2>7 DEF FiniteInv, traffic
<1>2. CASE __segmenter_finalize(s)
    <2>1. /\ seg' = [seg EXCEPT ![s].end = finalizing[s]]
          /\ finalizing' = [finalizing EXCEPT ![s] = Null]
          /\ UNCHANGED <<world, status, canceled_tickets, delayed, canceling, segmenters_, loop>>
          /\ UNCHANGED <<traffic, observed>>
        BY <1>2 DEF __segmenter_finalize
    <2>2. finalizing[s] \in Nat
        BY DEF TypeOK
    <2> DEFINE x == [seg[s] EXCEPT !.end = finalizing[s]]
    <2>3. x \in SegType /\ x.begin = seg[s].begin
        BY <1>0, <2>2 DEF SegType
    <2>4. seg' = [seg EXCEPT ![s] = x]
        BY <2>1
    <2> HIDE DEF x
    <2>5. seg' \in [Seg -> SegType] /\ \A o \in Seg : seg'[o].begin = seg[o].begin
        BY <1>0, <2>3, <2>4
    <2>6. finalizing' \in [Seg -> Nat]
        BY <2>1 DEF TypeOK, Null
    <2>7. TypeOK'
        BY <2>1, <2>5, <2>6 DEF TypeOK, traffic, observed
    <2>8. UsedInv'
        BY <2>1, <2>5 DEF UsedInv, Used, TypeOK
    <2> QED BY <2>1, <2>7, <2>8 DEF FiniteInv, traffic
<1>3. CASE __segmenter_cancel_by_ticket(s)
    <2> DEFINE x == [seg[s] EXCEPT !.canceled = TRUE, !.processed = TRUE, !.finished = TRUE]
    <2>1. /\ \/ seg' = [seg EXCEPT ![s] = x] /\ status' = [status EXCEPT ![s] = "CANCELED"]
             \/ seg' = seg /\ status' = status
          /\ canceling' = canceling \ {s} /\ canceled_tickets' = canceled_tickets \cup {s}
          /\ UNCHANGED <<world, delayed, finalizing, segmenters_, loop, traffic, observed>>
        BY <1>3 DEF __segmenter_cancel_by_ticket
    <2>2. x \in SegType /\ x.begin = seg[s].begin
        BY <1>0 DEF SegType
    <2> HIDE DEF x
    <2>3. seg' \in [Seg -> SegType] /\ \A o \in Seg : seg'[o].begin = seg[o].begin
        BY <1>0, <2>1, <2>2
    <2>4. status' \in [Seg -> StatusKind]
        BY <1>0, <2>1 DEF StatusKind
    <2>5. TypeOK'
        BY <2>1, <2>3, <2>4 DEF TypeOK, traffic, observed
    <2>6. UsedInv'
        BY <2>1, <2>3 DEF UsedInv, Used, TypeOK
    <2> QED BY <2>1, <2>5, <2>6 DEF FiniteInv, traffic
<1> QED BY <1>1, <1>2, <1>3

\* The loop keeps the types.
LEMMA TypesLoop ==
    ASSUME Types, LoopStep
    PROVE  Types'
<1>1. /\ AccountKept
      /\ UNCHANGED <<world, posted, traffic, from, planned, overtook>>
      /\ endedEmpty' \subseteq Seg /\ missing' \subseteq Nat
      /\ cutOpen' \subseteq Seg /\ unadjusted' \subseteq Seg
    BY LoopFacts
<1>2. /\ segmenters_' \in Seq(Seg) /\ IsInjective(segmenters_')
      /\ ToSet(segmenters_') \subseteq ToSet(segmenters_)
      /\ loop'.at \in LoopAt /\ loop'.s \in Seg \cup {NoSeg}
      /\ loop'.at \in {"check", "step"} => loop'.s \in Seg /\ Used(loop'.s)
      /\ loop'.at = "plan" => /\ loop.at = "step" /\ loop'.s = loop.s /\ loop.s \in Seg
                              /\ loop'.clip \in Span
    BY LoopFacts
<1>3. /\ seg' \in [Seg -> SegType] /\ status' \in [Seg -> StatusKind]
      /\ canceled_tickets' \subseteq Seg
      /\ \A o \in Seg : seg'[o].begin = seg[o].begin
    BY <1>1 DEF AccountKept, Kept1, Carried, Answers
<1>4. delayed' = delayed /\ delayed' \cap ToSet(segmenters_') = {}
    BY <1>1, <1>2 DEF Types, TypeOK, posted
<1>5. loop'.at \in {"check", "step", "plan"} => loop'.s \in Seg
    BY <1>2
<1>6. TypeOK'
    BY <1>1, <1>2, <1>3, <1>4, <1>5 DEF Types, TypeOK, posted, traffic
<1>7. UsedInv'
    <2>1. \A s \in Seg : s \in delayed' \/ s \in ToSet(segmenters_') => Used(s)
        BY <1>2, <1>4 DEF Types, UsedInv
    <2>2. loop'.at \in {"check", "step", "plan"} => loop'.s \in Seg /\ Used(loop'.s)
        BY <1>2 DEF Types, UsedInv
    <2> QED BY <1>3, <2>1, <2>2 DEF UsedInv, Used
<1>8. FiniteInv'
    BY <1>1 DEF Types, FiniteInv, traffic
<1> QED BY <1>6, <1>7, <1>8 DEF Types

\* Planning a chunk keeps the types.
LEMMA TypesPlan ==
    ASSUME Types, plan_chunk
    PROVE  Types'
<1> DEFINE s == loop.s
           c == [s |-> s, b |-> loop.clip.b, e |-> loop.clip.e]
           x == [seg[s] EXCEPT !.planned = @ + 1]
<1>1. loop.at = "plan" /\ s \in Seg /\ loop.clip \in Span
    BY DEF plan_chunk, Types, TypeOK
<1>2. /\ loop' = LoopIdle /\ seg' = [seg EXCEPT ![s] = x]
      /\ chunks' = chunks \/ chunks' = chunks \cup {c}
      /\ planned' = planned \/ planned' = planned \cup {c}
    BY DEF plan_chunk
<1>3. UNCHANGED <<world, status, canceled_tickets, posted, segmenters_, reporting, cloud, from,
                  missing, endedEmpty, overtook, unadjusted, cutOpen>>
    BY DEF plan_chunk
<1>4. c \in ChunkType
    BY <1>1 DEF ChunkType, Span
<1>5. seg \in [Seg -> SegType] /\ chunks \subseteq ChunkType /\ planned \subseteq ChunkType
    BY DEF Types, TypeOK
<1>6. x \in SegType /\ x.begin = seg[s].begin
    <2>1. seg[s] \in SegType
        BY <1>1, <1>5
    <2> QED BY <2>1 DEF SegType
<1> HIDE DEF s, c, x
<1>7. seg' \in [Seg -> SegType] /\ \A o \in Seg : seg'[o].begin = seg[o].begin
    BY <1>1, <1>2, <1>5, <1>6
<1>8. chunks' \subseteq ChunkType /\ planned' \subseteq ChunkType
    BY <1>2, <1>4, <1>5
<1>9. TypeOK'
    BY <1>2, <1>3, <1>7, <1>8 DEF Types, TypeOK, posted, LoopIdle, LoopAt
<1>10. UsedInv'
    BY <1>2, <1>3, <1>7 DEF Types, UsedInv, Used, posted, LoopIdle
<1>11. FiniteInv'
    BY <1>2, <1>3, FS_AddElement DEF Types, FiniteInv
<1> QED BY <1>9, <1>10, <1>11 DEF Types

\* The end of a chunk keeps the types.
LEMMA TypesFinished ==
    ASSUME Types, NEW c \in chunks, NEW ok \in BOOLEAN, on_finished(c, ok)
    PROVE  Types'
<1> DEFINE r == [c |-> c, ok |-> ok, done |-> seg[c.s].done, failed |-> seg[c.s].failed]
           p == [b |-> c.b, e |-> c.e]
<1>1. /\ chunks' = chunks \ {c} /\ reporting' = reporting \cup {r}
      /\ cloud' = cloud \/ cloud' = cloud \cup {p}
      /\ UNCHANGED <<world, account, posted, segmenters_, loop, observed>>
    BY DEF on_finished
<1>2. c \in ChunkType /\ c.s \in Seg
    BY DEF Types, TypeOK, ChunkType
<1>3. seg[c.s].done \in Nat /\ seg[c.s].failed \in Nat
    BY <1>2 DEF Types, TypeOK, SegType
<1>4. r \in [c : ChunkType, ok : BOOLEAN, done : Nat, failed : Nat]
    BY <1>2, <1>3
<1>5. p \in Span
    BY <1>2 DEF ChunkType, Span
<1> HIDE DEF r, p
<1>6. TypeOK'
    BY <1>1, <1>4, <1>5 DEF Types, TypeOK, account, posted, observed
<1>7. UsedInv'
    BY <1>1 DEF Types, UsedInv, Used, account, posted
<1>8. FiniteInv'
    BY <1>1, FS_AddElement, FS_RemoveElement DEF Types, FiniteInv
<1> QED BY <1>6, <1>7, <1>8 DEF Types

\* Leaving out a cancelled chunk keeps the types.
LEMMA TypesDropped ==
    ASSUME Types, NEW c \in chunks, drop_canceled(c)
    PROVE  Types'
<1>1. /\ chunks' = chunks \ {c}
      /\ UNCHANGED <<world, account, posted, segmenters_, loop, reporting, cloud, observed>>
    BY DEF drop_canceled
<1>2. TypeOK'
    BY <1>1 DEF Types, TypeOK, account, posted, observed
<1>3. UsedInv'
    BY <1>1 DEF Types, UsedInv, Used, account, posted
<1>4. FiniteInv'
    BY <1>1, FS_RemoveElement DEF Types, FiniteInv
<1> QED BY <1>2, <1>3, <1>4 DEF Types

\* What a report makes of the segmenter: only its counters differ.
LEMMA ReportTurn ==
    ASSUME TypeOK, NEW r \in reporting, Reported(r)
    PROVE  \E x \in SegType :
             /\ Said(r.c.s, x) \/ (Unsaid(r.c.s, x) /\ ~x.ticket)
             /\ x.done = (IF r.ok THEN r.done + 1 ELSE r.done)
             /\ x.failed = (IF r.ok THEN r.failed ELSE r.failed + 1)
             /\ x.begin = seg[r.c.s].begin /\ x.planned = seg[r.c.s].planned
             /\ x.processed = seg[r.c.s].processed /\ x.canceled = seg[r.c.s].canceled
             /\ x.ticket = seg[r.c.s].ticket
             /\ x.end = seg[r.c.s].end /\ x.start = seg[r.c.s].start /\ x.stop = seg[r.c.s].stop
             /\ x.pre = seg[r.c.s].pre /\ x.post = seg[r.c.s].post
<1> DEFINE s == r.c.s
           y == Counted(r)
           x == [y EXCEPT !.finished = AllCounted(y)]
<1>1. s \in Seg /\ r.done \in Nat /\ r.failed \in Nat /\ seg[s] \in SegType /\ r.ok \in BOOLEAN
    <2>1. r \in [c : ChunkType, ok : BOOLEAN, done : Nat, failed : Nat]
        BY DEF TypeOK
    <2> QED BY <2>1 DEF TypeOK, ChunkType
<1>2. Becomes(s, x, TRUE)
    BY Zenon DEF Reported
<1>3. /\ y \in SegType
      /\ y.done = (IF r.ok THEN r.done + 1 ELSE r.done)
      /\ y.failed = (IF r.ok THEN r.failed ELSE r.failed + 1)
      /\ y.begin = seg[s].begin /\ y.planned = seg[s].planned
      /\ y.processed = seg[s].processed /\ y.canceled = seg[s].canceled
      /\ y.ticket = seg[s].ticket
      /\ y.end = seg[s].end /\ y.start = seg[s].start /\ y.stop = seg[s].stop
      /\ y.pre = seg[s].pre /\ y.post = seg[s].post
    <2> DEFINE d == IF r.ok THEN r.done + 1 ELSE r.done
               f == IF r.ok THEN r.failed ELSE r.failed + 1
    <2>1. d \in Nat /\ f \in Nat
        BY <1>1
    <2>2. y = [seg[s] EXCEPT !.done = d, !.failed = f]
        BY DEF Counted
    <2> HIDE DEF d, f, s, y
    <2>3. /\ y \in SegType /\ y.done = d /\ y.failed = f
          /\ y.begin = seg[s].begin /\ y.planned = seg[s].planned
          /\ y.processed = seg[s].processed /\ y.canceled = seg[s].canceled
          /\ y.ticket = seg[s].ticket
          /\ y.end = seg[s].end /\ y.start = seg[s].start /\ y.stop = seg[s].stop
          /\ y.pre = seg[s].pre /\ y.post = seg[s].post
        BY <1>1, <2>1, <2>2 DEF SegType
    <2> QED BY <2>3 DEF d, f
<1> HIDE DEF s, y
<1>4. AllCounted(y) \in BOOLEAN
    BY <1>3 DEF AllCounted, SegType
<1>5. /\ x \in SegType /\ x.done = y.done /\ x.failed = y.failed
      /\ x.begin = y.begin /\ x.planned = y.planned
      /\ x.processed = y.processed /\ x.canceled = y.canceled /\ x.ticket = y.ticket
      /\ x.end = y.end /\ x.start = y.start /\ x.stop = y.stop
      /\ x.pre = y.pre /\ x.post = y.post
    BY <1>3, <1>4 DEF SegType
<1> HIDE DEF x
<1>6. Said(s, x) \/ (Unsaid(s, x) /\ ~x.ticket)
    BY <1>2 DEF Becomes, Said, Unsaid
<1> QED BY <1>3, <1>5, <1>6 DEF s

\* A report keeps the types.
LEMMA TypesReported ==
    ASSUME Types, NEW r \in reporting, Reported(r)
    PROVE  Types'
<1>1. PICK x \in SegType :
             /\ Said(r.c.s, x) \/ Unsaid(r.c.s, x)
             /\ x.begin = seg[r.c.s].begin
    BY ReportTurn DEF Types
<1>2. r.c.s \in Seg
    BY DEF Types, TypeOK, ChunkType
<1>3. /\ seg' \in [Seg -> SegType] /\ status' \in [Seg -> StatusKind]
      /\ canceled_tickets' \subseteq Seg
      /\ \A o \in Seg : seg'[o].begin = seg[o].begin
    BY <1>1, <1>2, SaidFacts, UnsaidFacts DEF Types
<1>4. /\ reporting' = reporting \ {r}
      /\ UNCHANGED <<world, posted, segmenters_, loop, chunks, cloud, observed>>
    BY DEF Reported
<1>5. TypeOK'
    BY <1>3, <1>4 DEF Types, TypeOK, posted, observed
<1>6. UsedInv'
    BY <1>3, <1>4 DEF Types, UsedInv, Used, posted, TypeOK
<1>7. FiniteInv'
    BY <1>4, FS_RemoveElement DEF Types, FiniteInv
<1> QED BY <1>5, <1>6, <1>7 DEF Types

\* So does a step that changes nothing.
LEMMA TypesStutter == ASSUME Types, UNCHANGED vars PROVE Types'
<1>1. UNCHANGED <<world, account, posted, segmenters_, loop, traffic, observed>>
    BY DEF vars
<1>2. TypeOK'
    BY <1>1 DEF Types, TypeOK, account, posted, traffic, observed
<1>3. UsedInv'
    BY <1>1 DEF Types, UsedInv, Used, account, posted
<1>4. FiniteInv'
    BY <1>1 DEF Types, FiniteInv, traffic
<1> QED BY <1>2, <1>3, <1>4 DEF Types

\* The steps of the uploader, as the lemmas take them.
LEMMA NextSplit ==
    ASSUME Next
    PROVE  \/ Environment
           \/ \E s \in Seg : \/ __segmenter_enqueue(s) \/ __segmenter_finalize(s)
                             \/ __segmenter_cancel_by_ticket(s)
           \/ LoopStep \/ plan_chunk
           \/ \E c \in chunks, ok \in BOOLEAN : on_finished(c, ok)
           \/ \E c \in chunks : drop_canceled(c)
           \/ \E r \in reporting : Reported(r)
BY DEF Next, Callback, AsyncLoop, LoopStep, Finish

\* Every step keeps the types.
LEMMA TypesStep == Types /\ [Next]_vars => Types'
<1> SUFFICES ASSUME Types, [Next]_vars PROVE Types'
    OBVIOUS
<1>1. CASE UNCHANGED vars
    BY <1>1, TypesStutter
<1>2. CASE Next
    BY <1>2, NextSplit, TypesEnvironment, TypesCallback, TypesLoop, TypesPlan, TypesFinished,
       TypesDropped, TypesReported
<1> QED BY <1>1, <1>2

\* Types is an invariant of the uploader.
LEMMA TypesCorrect == Spec => []Types
BY TypesInit, TypesStep, PTL DEF Spec

\* __segmenter_enqueue(), __purge_segmenters() and the loop keep every field in its type:
\* a segmenter waits for its start or is in segmenters_, once, and never both, the window
\* stays a period of times and the counters stay numbers, for any requests, recorder and
\* Cloud.
THEOREM TypeCorrect == Spec => []TypeOK
<1>1. Types => TypeOK
    BY DEF Types
<1> QED BY <1>1, TypesCorrect, PTL

\* The Cloud's list is a finite set of periods, so merging it is exact.
LEMMA SquashExactHolds == Types => SquashExact
<1> SUFFICES ASSUME Types PROVE SquashExact
    OBVIOUS
<1> DEFINE q == _squash_periods(cloud)
<1>1. cloud \in SUBSET Span /\ IsFiniteSet(cloud)
    BY DEF Types, TypeOK, FiniteInv
<1>2. /\ q \in Seq(Span) /\ Gapped(q)
      /\ \A t \in Int : InList(t, q) <=> \E p \in cloud : t \in Times(p)
    BY <1>1, SquashIs
<1> HIDE DEF q
<1>3. \A p \in Span : Times(p) \subseteq Int
    BY DEF Span, Times
<1>4. ASSUME NEW t
      PROVE  t \in UNION {Times(p) : p \in ToSet(q)} <=>
             t \in UNION {Times(p) : p \in cloud}
    <2>1. ToSet(q) = {q[i] : i \in 1..Len(q)} /\ ToSet(q) \subseteq Span
        BY <1>2 DEF ToSet
    <2>2. t \in UNION {Times(p) : p \in ToSet(q)} <=> InList(t, q)
        BY <2>1 DEF InList
    <2>3. InList(t, q) => t \in Int
        BY <1>2, <1>3 DEF InList
    <2>4. t \in UNION {Times(p) : p \in cloud} => t \in Int
        BY <1>1, <1>3
    <2> QED BY <1>2, <2>2, <2>3, <2>4
<1>5. UNION {Times(p) : p \in ToSet(q)} = UNION {Times(p) : p \in cloud}
    BY <1>4
<1>6. \A i \in 1..(Len(q) - 1) : q[i].e < q[i + 1].b
    BY <1>2 DEF Gapped
<1> QED BY <1>5, <1>6 DEF SquashExact, q

\* slices() neither loses nor adds a time of the Cloud's list and leaves a gap between any
\* two periods, whatever the Cloud has: sorted by begin, a period that starts within the
\* last one is merged with it, and the later of the two ends is kept.
THEOREM SquashExactCorrect == Spec => []SquashExact
BY SquashExactHolds, TypesCorrect, PTL

-----------------------------------------------------------------------------
(***************************************************************************)
(* Chunks on their way, step by step.                                      *)
(***************************************************************************)

\* Steps that touch neither chunks, nor reports, nor the loop
LEMMA FlightSame ==
    ASSUME UNCHANGED <<chunks, reporting, loop>>, NEW o
    PROVE  InFlight(o)' = InFlight(o)
BY DEF InFlight, Planning

\* The loop adds at most the chunk it is about to plan, for a segmenter not yet processed.
LEMMA FlightLoop ==
    ASSUME Types, LoopStep, NEW o \in Seg
    PROVE  /\ InFlight(o) \subseteq InFlight(o)'
           /\ InFlight(o)' = InFlight(o) \/ ~seg[o].processed
           /\ loop'.at = "plan" /\ loop'.s = o => InFlight(o)' # {}
<1>1. /\ loop.at # "plan" /\ chunks' = chunks /\ reporting' = reporting
      /\ loop'.at = "plan" => loop'.s = loop.s /\ ~seg[loop.s].processed
    BY LoopFacts DEF traffic
<1>2. Planning = {}
    BY <1>1 DEF Planning
<1> DEFINE c == [s |-> loop'.s, b |-> loop'.clip.b, e |-> loop'.clip.e]
<1>3. Planning' = IF loop'.at = "plan" THEN {c} ELSE {}
    BY DEF Planning
<1>4. c.s = loop'.s
    OBVIOUS
<1> HIDE DEF c
<1> QED BY <1>1, <1>2, <1>3, <1>4 DEF InFlight

\* plan_chunk hands the chunk over, unless its segmenter was cancelled.
LEMMA FlightPlan ==
    ASSUME Types, plan_chunk, NEW o \in Seg
    PROVE  /\ InFlight(o)' \subseteq InFlight(o)
           /\ o # loop.s => InFlight(o)' = InFlight(o)
           /\ o = loop.s /\ ~seg[o].canceled => InFlight(o)' # {}
<1> DEFINE c == [s |-> loop.s, b |-> loop.clip.b, e |-> loop.clip.e]
<1>1. /\ Planning = {c} /\ c.s = loop.s /\ reporting' = reporting
      /\ chunks' = IF seg[loop.s].canceled THEN chunks ELSE chunks \cup {c}
    BY DEF Planning, plan_chunk
<1>2. Planning' = {}
    BY DEF Planning, plan_chunk, LoopIdle
<1> HIDE DEF c
<1> QED BY <1>1, <1>2 DEF InFlight

\* on_finished() turns a chunk into a report.
LEMMA FlightFinished ==
    ASSUME NEW c \in chunks, NEW ok, on_finished(c, ok), NEW o
    PROVE  InFlight(o)' = InFlight(o)
<1> DEFINE r == [c |-> c, ok |-> ok, done |-> seg[c.s].done, failed |-> seg[c.s].failed]
<1>1. /\ chunks' = chunks \ {c} /\ reporting' = reporting \cup {r} /\ loop' = loop /\ r.c = c
    BY DEF on_finished
<1> HIDE DEF r
<1>2. Planning' = Planning
    BY <1>1 DEF Planning
<1>3. {q.c : q \in reporting'} = {q.c : q \in reporting} \cup {c}
    BY <1>1
<1>4. chunks' \cup {q.c : q \in reporting'} = chunks \cup {q.c : q \in reporting}
    BY <1>1, <1>3
<1> QED BY <1>2, <1>4 DEF InFlight

\* A cancelled chunk is left out.
LEMMA FlightDropped ==
    ASSUME NEW c \in chunks, drop_canceled(c), NEW o
    PROVE  /\ InFlight(o)' \subseteq InFlight(o)
           /\ o # c.s => InFlight(o)' = InFlight(o)
<1>1. /\ chunks' = chunks \ {c} /\ reporting' = reporting /\ loop' = loop
    BY DEF drop_canceled
<1>2. Planning' = Planning
    BY <1>1 DEF Planning
<1> QED BY <1>1, <1>2 DEF InFlight

\* A report ends.
LEMMA FlightReported ==
    ASSUME NEW r \in reporting, Reported(r), NEW o
    PROVE  /\ InFlight(o)' \subseteq InFlight(o)
           /\ o # r.c.s => InFlight(o)' = InFlight(o)
<1>1. /\ chunks' = chunks /\ reporting' = reporting \ {r} /\ loop' = loop
    BY DEF Reported
<1>2. Planning' = Planning
    BY <1>1 DEF Planning
<1> QED BY <1>1, <1>2 DEF InFlight

-----------------------------------------------------------------------------
(***************************************************************************)
(* The missing final status.                                               *)
(***************************************************************************)

\* A segmenter whose account is as it was and that has lost no chunk is silent only if
\* it was.
LEMMA SilentBefore ==
    ASSUME NEW o \in Seg, seg'[o].begin = seg[o].begin,
           seg'[o].processed = seg[o].processed, seg'[o].canceled = seg[o].canceled,
           seg'[o].ticket = seg[o].ticket, seg'[o].planned = seg[o].planned,
           seg'[o].done = seg[o].done, seg'[o].failed = seg[o].failed,
           InFlight(o) \subseteq InFlight(o)', Silent(o)'
    PROVE  Silent(o)
BY DEF Silent, Used, AllCounted

\* No request, end or cancellation makes a segmenter silent.
LEMMA SilentEnvironment ==
    ASSUME Types, Environment, NEW o \in Seg, Silent(o)'
    PROVE  Silent(o) /\ endedEmpty' = endedEmpty
<1>0. seg \in [Seg -> SegType]
    BY DEF Types, TypeOK
<1>1. ASSUME NEW s \in Seg, NEW r \in Request[s], schedule_upload(s, r)
      PROVE  Silent(o) /\ endedEmpty' = endedEmpty
    <2>1. /\ seg' = [seg EXCEPT ![s] = Segmenter(r)]
          /\ UNCHANGED <<loop, chunks, reporting, endedEmpty>>
        BY <1>1 DEF schedule_upload, traffic, observed
    <2>2. ~Segmenter(r).processed
        BY SegmenterType
    <2>3. o # s
        BY <1>0, <2>1, <2>2 DEF Silent, AllCounted
    <2> QED BY <1>0, <2>1, <2>3, FlightSame, SilentBefore
<1>2. ASSUME NEW s \in Seg, NEW t \in EndTime, NEW now \in BOOLEAN, finalize_upload(s, t, now)
      PROVE  Silent(o) /\ endedEmpty' = endedEmpty
    <2>1. /\ seg' = IF now THEN [seg EXCEPT ![s].end = t] ELSE seg
          /\ UNCHANGED <<loop, chunks, reporting, endedEmpty>>
        BY <1>2 DEF finalize_upload, traffic, observed
    <2> DEFINE x == [seg[s] EXCEPT !.end = t]
    <2>2. /\ x.begin = seg[s].begin /\ x.processed = seg[s].processed
          /\ x.canceled = seg[s].canceled /\ x.ticket = seg[s].ticket
          /\ x.planned = seg[s].planned /\ x.done = seg[s].done /\ x.failed = seg[s].failed
        BY <1>0 DEF SegType
    <2>3. seg' = seg \/ seg' = [seg EXCEPT ![s] = x]
        BY <2>1
    <2> HIDE DEF x
    <2>4. seg'[o] = seg[o] \/ (o = s /\ seg'[o] = x)
        BY <1>0, <2>3
    <2> QED BY <2>1, <2>2, <2>4, FlightSame, SilentBefore
<1>3. ASSUME NEW s \in Seg, cancel_upload(s)
      PROVE  Silent(o) /\ endedEmpty' = endedEmpty
    <2>1. UNCHANGED <<seg, loop, chunks, reporting, endedEmpty>>
        BY <1>3 DEF cancel_upload, account, traffic, observed
    <2> QED BY <2>1, FlightSame, SilentBefore
<1> QED BY <1>1, <1>2, <1>3 DEF Environment, EventEnds

\* Nor does a posted callback.
LEMMA SilentCallback ==
    ASSUME Types, NEW o \in Seg, Silent(o)', NEW s \in Seg,
           __segmenter_enqueue(s) \/ __segmenter_finalize(s) \/ __segmenter_cancel_by_ticket(s)
    PROVE  Silent(o) /\ endedEmpty' = endedEmpty
<1>0. seg \in [Seg -> SegType]
    BY DEF Types, TypeOK
<1>1. CASE __segmenter_enqueue(s)
    <2>1. UNCHANGED <<seg, loop, chunks, reporting, endedEmpty>>
        BY <1>1 DEF __segmenter_enqueue, account, traffic
    <2> QED BY <2>1, FlightSame, SilentBefore
<1>2. CASE __segmenter_finalize(s)
    <2> DEFINE x == [seg[s] EXCEPT !.end = finalizing[s]]
    <2>1. /\ seg' = [seg EXCEPT ![s] = x]
          /\ UNCHANGED <<loop, chunks, reporting, endedEmpty>>
        BY <1>2 DEF __segmenter_finalize, traffic, observed
    <2>2. /\ x.begin = seg[s].begin /\ x.processed = seg[s].processed
          /\ x.canceled = seg[s].canceled /\ x.ticket = seg[s].ticket
          /\ x.planned = seg[s].planned /\ x.done = seg[s].done /\ x.failed = seg[s].failed
        BY <1>0 DEF SegType
    <2> HIDE DEF x
    <2>4. seg'[o] = seg[o] \/ (o = s /\ seg'[o] = x)
        BY <1>0, <2>1
    <2> QED BY <2>1, <2>2, <2>4, FlightSame, SilentBefore
<1>3. CASE __segmenter_cancel_by_ticket(s)
    <2> DEFINE x == [seg[s] EXCEPT !.canceled = TRUE, !.processed = TRUE, !.finished = TRUE]
    <2>1. /\ seg' = seg \/ seg' = [seg EXCEPT ![s] = x]
          /\ UNCHANGED <<loop, chunks, reporting, endedEmpty>>
        BY <1>3 DEF __segmenter_cancel_by_ticket, traffic, observed
    <2>2. x.canceled
        BY <1>0 DEF SegType
    <2> HIDE DEF x
    <2>3. seg'[o] = seg[o]
        BY <1>0, <2>1, <2>2 DEF Silent
    <2> QED BY <2>1, <2>3, FlightSame, SilentBefore
<1> QED BY <1>1, <1>2, <1>3

\* The loop makes one silent only with an empty last window.
LEMMA SilentLoop ==
    ASSUME Types, LoopStep, NEW o \in Seg, Silent(o)'
    PROVE  (Silent(o) \/ o \in endedEmpty') /\ endedEmpty \subseteq endedEmpty'
<1>1. Kept1(o) /\ endedEmpty \subseteq endedEmpty'
    BY LoopFacts DEF AccountKept
<1>2. /\ AllCounted(seg'[o]) /\ seg'[o].ticket /\ ~seg'[o].canceled
      /\ seg'[o].begin # Null /\ InFlight(o)' = {}
    BY DEF Silent, Used, AllCounted
<1>3. \/ AllCounted(seg[o]) /\ seg[o].ticket /\ ~seg[o].canceled
      \/ o \in endedEmpty'
    BY <1>1, <1>2, FlightLoop DEF Kept1
<1>4. InFlight(o) = {} /\ Used(o)
    BY <1>1, <1>2, FlightLoop DEF Kept1, Carried, Answers, Used
<1> QED BY <1>1, <1>3, <1>4 DEF Silent

\* plan_chunk leaves a chunk on its way, or the segmenter is cancelled.
LEMMA SilentPlan ==
    ASSUME Types, plan_chunk, NEW o \in Seg, Silent(o)'
    PROVE  Silent(o) /\ endedEmpty' = endedEmpty
<1> DEFINE x == [seg[loop.s] EXCEPT !.planned = @ + 1]
<1>0. seg \in [Seg -> SegType] /\ loop.s \in Seg
    BY DEF Types, TypeOK, plan_chunk
<1>1. /\ seg' = [seg EXCEPT ![loop.s] = x] /\ endedEmpty' = endedEmpty
    BY DEF plan_chunk
<1>2. x.canceled = seg[loop.s].canceled
    BY <1>0 DEF SegType
<1> HIDE DEF x
<1>3. CASE o = loop.s
    <2>1. seg'[o].canceled = seg[o].canceled
        BY <1>0, <1>1, <1>2, <1>3
    <2> QED BY <1>3, <2>1, FlightPlan DEF Silent
<1>4. CASE o # loop.s
    <2>1. seg'[o] = seg[o]
        BY <1>0, <1>1, <1>4
    <2> QED BY <1>1, <1>4, <2>1, FlightPlan, SilentBefore
<1> QED BY <1>3, <1>4

\* The report of the last chunk gives the final status.
LEMMA SilentFinish ==
    ASSUME Types, NEW o \in Seg, Silent(o)',
           \/ \E c \in chunks, ok \in BOOLEAN : on_finished(c, ok)
           \/ \E c \in chunks : drop_canceled(c)
           \/ \E r \in reporting : Reported(r)
    PROVE  Silent(o) /\ endedEmpty' = endedEmpty
<1>1. ASSUME NEW c \in chunks, NEW ok \in BOOLEAN, on_finished(c, ok)
      PROVE  Silent(o) /\ endedEmpty' = endedEmpty
    <2>1. seg' = seg /\ endedEmpty' = endedEmpty
        BY <1>1 DEF on_finished, account, observed
    <2> QED BY <1>1, <2>1, FlightFinished, SilentBefore
<1>2. ASSUME NEW c \in chunks, drop_canceled(c)
      PROVE  Silent(o) /\ endedEmpty' = endedEmpty
    <2>1. seg' = seg /\ endedEmpty' = endedEmpty /\ seg[c.s].canceled
        BY <1>2 DEF drop_canceled, account, observed
    <2>2. o # c.s
        BY <2>1 DEF Silent
    <2> QED BY <1>2, <2>1, <2>2, FlightDropped, SilentBefore
<1>3. ASSUME NEW r \in reporting, Reported(r)
      PROVE  Silent(o) /\ endedEmpty' = endedEmpty
    <2>1. TypeOK /\ r.c.s \in Seg
        BY DEF Types, TypeOK, ChunkType
    <2>2. PICK x \in SegType : Said(r.c.s, x) \/ (Unsaid(r.c.s, x) /\ ~x.ticket)
        BY <1>3, <2>1, ReportTurn
    <2>3. CASE o = r.c.s
        <3>1. AllCounted(seg'[o]) /\ seg'[o].ticket /\ ~seg'[o].canceled
            BY DEF Silent, AllCounted
        <3> QED BY <2>1, <2>2, <2>3, <3>1, SaidFacts, UnsaidFacts
    <2>4. CASE o # r.c.s
        <3>1. seg'[o] = seg[o]
            BY <2>1, <2>2, <2>4, SaidFacts, UnsaidFacts
        <3>2. endedEmpty' = endedEmpty
            BY <1>3 DEF Reported, observed
        <3> QED BY <1>3, <2>4, <3>1, <3>2, FlightReported, SilentBefore
    <2> QED BY <2>3, <2>4
<1> QED BY <1>1, <1>2, <1>3

\* The property is kept by every step.
LEMMA SilentStep == Types /\ SilentOnlyWhenEmpty /\ [Next]_vars => SilentOnlyWhenEmpty'
<1> SUFFICES ASSUME Types, SilentOnlyWhenEmpty, [Next]_vars, NEW o \in Seg, Silent(o)'
             PROVE  o \in endedEmpty'
    BY DEF SilentOnlyWhenEmpty
<1>1. CASE UNCHANGED vars
    <2>1. UNCHANGED <<seg, chunks, reporting, loop, endedEmpty>>
        BY <1>1 DEF vars, account, traffic, observed
    <2>2. Silent(o)
        BY <2>1, FlightSame, SilentBefore
    <2> QED BY <2>1, <2>2 DEF SilentOnlyWhenEmpty
<1>2. CASE Next
    <2>1. (Silent(o) \/ o \in endedEmpty') /\ endedEmpty \subseteq endedEmpty'
        BY <1>2, NextSplit, SilentEnvironment, SilentCallback, SilentLoop, SilentPlan,
            SilentFinish
    <2> QED BY <2>1 DEF SilentOnlyWhenEmpty
<1> QED BY <1>1, <1>2

\* The final status of a synchronisation request whose chunks are all counted is missed
\* only when its last window gave no chunk: otherwise on_finished(), __segment_step() or
\* __check_clip_segment() has sent it, in every order of the threads, for any requests.
THEOREM SilentOnlyWhenEmptyCorrect == Spec => []SilentOnlyWhenEmpty
<1>1. Init => SilentOnlyWhenEmpty
    BY DEF Init, SilentOnlyWhenEmpty, Silent, Used, Blank
<1> QED BY <1>1, SilentStep, TypesCorrect, PTL DEF Spec

-----------------------------------------------------------------------------
(***************************************************************************)
(* The account of a request.                                               *)
(***************************************************************************)

Schedules == \E s \in Seg : \E r \in Request[s] : schedule_upload(s, r)

\* A segmenter that was not asked for has no ticket, no chunk and no status.
BlankInv ==
    \A s \in Seg : ~Used(s) => seg[s].planned = 0 /\ ~seg[s].ticket /\ status[s] = "none"

\* A cancelled request stays cancelled.
CancelInv == \A s \in Seg : status[s] = "CANCELED" => seg[s].canceled

\* A segmenter that is left alone
LEMMA AnswersSame ==
    ASSUME NEW o, seg'[o] = seg[o], status'[o] = status[o] PROVE Carried(o)
BY DEF Carried, Answers

\* The end of an event changes the end of the segmenter only.
LEMMA AnswersLater ==
    ASSUME TypeOK, NEW s \in Seg, NEW t, NEW o \in Seg, status' = status,
           seg' = [seg EXCEPT ![s].end = t]
    PROVE  Carried(o)
<1> DEFINE x == [seg[s] EXCEPT !.end = t]
<1>1. seg \in [Seg -> SegType] /\ seg' = [seg EXCEPT ![s] = x]
    BY DEF TypeOK
<1>2. /\ x.begin = seg[s].begin /\ x.processed = seg[s].processed
      /\ x.canceled = seg[s].canceled /\ x.ticket = seg[s].ticket
      /\ x.planned = seg[s].planned /\ x.done = seg[s].done /\ x.failed = seg[s].failed
    BY <1>1 DEF SegType
<1> HIDE DEF x
<1>3. seg'[o] = seg[o] \/ (o = s /\ seg'[o] = x)
    BY <1>1
<1> QED BY <1>2, <1>3 DEF Carried, Answers

\* The steps of other threads and the callbacks
LEMMA CarriedPosted ==
    ASSUME Types, NEW o \in Seg, NEW s \in Seg,
           \/ EventEnds \/ cancel_upload(s)
           \/ __segmenter_enqueue(s) \/ __segmenter_finalize(s) \/ __segmenter_cancel_by_ticket(s)
    PROVE  Carried(o) /\ UNCHANGED <<chunks, reporting, loop>>
<1>0. TypeOK /\ seg \in [Seg -> SegType] /\ status \in [Seg -> StatusKind]
    BY DEF Types, TypeOK
<1>1. CASE EventEnds
    <2>1. /\ UNCHANGED <<chunks, reporting, loop, status>>
          /\ seg' = seg \/ \E q \in Seg : \E t : seg' = [seg EXCEPT ![q].end = t]
        BY <1>1 DEF EventEnds, finalize_upload, traffic
    <2> QED BY <1>0, <2>1, AnswersSame, AnswersLater
<1>2. CASE cancel_upload(s) \/ __segmenter_enqueue(s)
    <2>1. UNCHANGED <<chunks, reporting, loop, status, seg>>
        BY <1>2 DEF cancel_upload, __segmenter_enqueue, traffic, account
    <2> QED BY <2>1, AnswersSame
<1>3. CASE __segmenter_finalize(s)
    <2>1. /\ UNCHANGED <<chunks, reporting, loop, status>>
          /\ seg' = [seg EXCEPT ![s].end = finalizing[s]]
        BY <1>3 DEF __segmenter_finalize, traffic
    <2> QED BY <1>0, <2>1, AnswersLater
<1>4. CASE __segmenter_cancel_by_ticket(s)
    <2> DEFINE x == [seg[s] EXCEPT !.canceled = TRUE, !.processed = TRUE, !.finished = TRUE]
    <2>1. /\ UNCHANGED <<chunks, reporting, loop>>
          /\ \/ /\ seg' = [seg EXCEPT ![s] = x] /\ seg[s].ticket
                /\ status' = [status EXCEPT ![s] = "CANCELED"]
             \/ seg' = seg /\ status' = status
        BY <1>4 DEF __segmenter_cancel_by_ticket, traffic
    <2>2. /\ x.begin = seg[s].begin /\ x.processed /\ x.canceled /\ x.ticket = seg[s].ticket
          /\ x.planned = seg[s].planned /\ x.done = seg[s].done /\ x.failed = seg[s].failed
        BY <1>0 DEF SegType
    <2> HIDE DEF x
    <2>3. CASE seg'[o] = seg[o] /\ status'[o] = status[o]
        BY <2>1, <2>3, AnswersSame
    <2>4. CASE o = s /\ seg'[s] = x /\ status'[s] = "CANCELED" /\ seg[s].ticket
        BY <2>1, <2>2, <2>4 DEF Carried, Answers
    <2> QED BY <1>0, <2>1, <2>3, <2>4
<1> QED BY <1>1, <1>2, <1>3, <1>4

\* The loop leaves the counters and the chunks alone.
LEMMA CarriedLoop ==
    ASSUME Types, LoopStep, NEW o \in Seg
    PROVE  Carried(o) /\ UNCHANGED <<chunks, reporting>>
BY LoopFacts DEF AccountKept, Kept1, traffic

\* plan_chunk counts one chunk of a segmenter that was asked for.
LEMMA AnswersPlan ==
    ASSUME Types, plan_chunk, NEW o \in Seg
    PROVE  /\ Answers(o) /\ (o # loop.s => Carried(o)) /\ loop.s \in Seg /\ Used(loop.s)
           /\ status' = status
           /\ o = loop.s => /\ seg'[o].planned = seg[o].planned + 1
                            /\ seg'[o].done = seg[o].done /\ seg'[o].failed = seg[o].failed
<1> DEFINE x == [seg[loop.s] EXCEPT !.planned = @ + 1]
<1>0. seg \in [Seg -> SegType] /\ loop.s \in Seg /\ Used(loop.s)
    BY DEF Types, TypeOK, UsedInv, plan_chunk
<1>1. seg' = [seg EXCEPT ![loop.s] = x] /\ status' = status
    BY DEF plan_chunk
<1>2. /\ x.begin = seg[loop.s].begin /\ x.processed = seg[loop.s].processed
      /\ x.canceled = seg[loop.s].canceled /\ x.ticket = seg[loop.s].ticket
      /\ x.planned = seg[loop.s].planned + 1
      /\ x.done = seg[loop.s].done /\ x.failed = seg[loop.s].failed
    BY <1>0 DEF SegType
<1> HIDE DEF x
<1>3. o = loop.s => seg'[o] = x
    BY <1>0, <1>1
<1>4. o # loop.s => seg'[o] = seg[o]
    BY <1>0, <1>1
<1>5. o # loop.s => Carried(o)
    BY <1>1, <1>4, AnswersSame
<1>6. o = loop.s => Answers(o)
    BY <1>1, <1>2, <1>3 DEF Answers
<1> QED BY <1>0, <1>1, <1>2, <1>3, <1>5, <1>6 DEF Carried

\* A report writes the counters of its segmenter.
LEMMA AnswersReported ==
    ASSUME Types, NEW r \in reporting, Reported(r), NEW o \in Seg
    PROVE  /\ Answers(o) /\ (o # r.c.s => Carried(o)) /\ r.c.s \in Seg
           /\ o = r.c.s => /\ seg'[o].planned = seg[o].planned
                           /\ seg'[o].done = (IF r.ok THEN r.done + 1 ELSE r.done)
                           /\ seg'[o].failed = (IF r.ok THEN r.failed ELSE r.failed + 1)
<1>1. TypeOK /\ r.c.s \in Seg
    BY DEF Types, TypeOK, ChunkType
<1>2. PICK x \in SegType :
             /\ Said(r.c.s, x) \/ (Unsaid(r.c.s, x) /\ ~x.ticket)
             /\ x.done = (IF r.ok THEN r.done + 1 ELSE r.done)
             /\ x.failed = (IF r.ok THEN r.failed ELSE r.failed + 1)
             /\ x.begin = seg[r.c.s].begin /\ x.planned = seg[r.c.s].planned
             /\ x.processed = seg[r.c.s].processed /\ x.canceled = seg[r.c.s].canceled
             /\ x.ticket = seg[r.c.s].ticket
    BY <1>1, ReportTurn
<1>3. o # r.c.s => Carried(o)
    BY <1>1, <1>2, SaidFacts, UnsaidFacts, AnswersSame
<1>4. CASE o = r.c.s /\ Said(r.c.s, x)
    <2>1. Answers(o)
        BY <1>1, <1>2, <1>4, SaidFacts DEF Answers
    <2> QED BY <1>1, <1>2, <1>4, <2>1, SaidFacts
<1>5. CASE o = r.c.s /\ Unsaid(r.c.s, x)
    <2>1. seg'[o] = x /\ status'[o] = status[o]
        BY <1>1, <1>5, UnsaidFacts
    <2>2. Answers(o)
        BY <1>2, <1>5, <2>1 DEF Answers
    <2> QED BY <1>1, <1>2, <1>5, <2>1, <2>2
<1> QED BY <1>1, <1>2, <1>3, <1>4, <1>5 DEF Carried

\* Every step but a new request
LEMMA AnswersStep ==
    ASSUME Types, Next, ~Schedules, NEW o \in Seg
    PROVE  Answers(o)
<1>1. CASE \/ EventEnds
           \/ \E s \in Seg : \/ cancel_upload(s) \/ __segmenter_enqueue(s)
                             \/ __segmenter_finalize(s) \/ __segmenter_cancel_by_ticket(s)
    BY <1>1, CarriedPosted DEF Carried
<1>2. CASE LoopStep \/ plan_chunk
    BY <1>2, CarriedLoop, AnswersPlan DEF Carried
<1>3. CASE \E r \in reporting : Reported(r)
    BY <1>3, AnswersReported
<1>4. CASE \/ \E c \in chunks, ok \in BOOLEAN : on_finished(c, ok)
           \/ \E c \in chunks : drop_canceled(c)
    <2>1. seg' = seg /\ status' = status
        BY <1>4 DEF on_finished, drop_canceled, account
    <2> QED BY <2>1, AnswersSame DEF Carried
<1> QED BY <1>1, <1>2, <1>3, <1>4, NextSplit DEF Schedules, Environment

\* A new request: its segmenter is a fresh one, every other is as it was.
LEMMA ScheduledFacts ==
    ASSUME Types, Schedules, NEW o \in Seg
    PROVE  /\ status' = status /\ UNCHANGED <<chunks, reporting, loop>>
           /\ \/ Carried(o)
              \/ /\ ~Used(o) /\ seg'[o].begin # Null
                 /\ seg'[o].planned = 0 /\ seg'[o].done = 0 /\ seg'[o].failed = 0
<1>1. PICK s \in Seg : \E r \in Request[s] : schedule_upload(s, r)
    BY DEF Schedules
<1>2. PICK r \in Request[s] : schedule_upload(s, r)
    BY <1>1
<1>3. /\ seg' = [seg EXCEPT ![s] = Segmenter(r)] /\ ~Used(s) /\ status' = status
      /\ UNCHANGED <<chunks, reporting, loop>>
    BY <1>2 DEF schedule_upload, traffic
<1>4. seg \in [Seg -> SegType]
    BY DEF Types, TypeOK
<1>5. CASE o = s
    BY <1>3, <1>4, <1>5, SegmenterType
<1>6. CASE o # s
    <2>1. seg'[o] = seg[o] /\ status'[o] = status[o]
        BY <1>3, <1>4, <1>6
    <2> QED BY <1>3, <2>1, AnswersSame
<1> QED BY <1>5, <1>6

\* Only a segmenter that was asked for gets chunks.
LEMMA PlannedUsed ==
    ASSUME Types, Next, ~Schedules, NEW o \in Seg, ~Used(o)
    PROVE  seg'[o].planned = seg[o].planned
<1>1. CASE \/ EventEnds
           \/ \E s \in Seg : \/ cancel_upload(s) \/ __segmenter_enqueue(s)
                             \/ __segmenter_finalize(s) \/ __segmenter_cancel_by_ticket(s)
    BY <1>1, CarriedPosted DEF Carried
<1>2. CASE LoopStep \/ plan_chunk
    BY <1>2, CarriedLoop, AnswersPlan DEF Carried
<1>3. CASE \E r \in reporting : Reported(r)
    BY <1>3, AnswersReported DEF Carried
<1>4. CASE \/ \E c \in chunks, ok \in BOOLEAN : on_finished(c, ok)
           \/ \E c \in chunks : drop_canceled(c)
    BY <1>4 DEF on_finished, drop_canceled, account
<1> QED BY <1>1, <1>2, <1>3, <1>4, NextSplit DEF Schedules, Environment

\* BlankInv is kept by every step.
LEMMA BlankStep == Types /\ BlankInv /\ [Next]_vars => BlankInv'
<1> SUFFICES ASSUME Types, BlankInv, [Next]_vars, NEW o \in Seg, ~Used(o)'
             PROVE  seg'[o].planned = 0 /\ ~seg'[o].ticket /\ status'[o] = "none"
    BY DEF BlankInv
<1>0. ~Used(o) => seg[o].planned = 0 /\ ~seg[o].ticket /\ status[o] = "none"
    BY DEF BlankInv
<1>1. CASE UNCHANGED vars
    BY <1>0, <1>1 DEF vars, account, Used
<1>2. CASE Next /\ ~Schedules
    BY <1>0, <1>2, AnswersStep, PlannedUsed DEF Answers, Used
<1>3. CASE Schedules
    <2>1. Carried(o) /\ status' = status
        BY <1>3, ScheduledFacts DEF Used
    <2> QED BY <1>0, <2>1 DEF Carried, Answers, Used
<1> QED BY <1>1, <1>2, <1>3

\* CancelInv is kept by every step.
LEMMA CancelStep == Types /\ BlankInv /\ CancelInv /\ [Next]_vars => CancelInv'
<1> SUFFICES ASSUME Types, BlankInv, CancelInv, [Next]_vars, NEW o \in Seg,
                    status'[o] = "CANCELED"
             PROVE  seg'[o].canceled
    BY DEF CancelInv
<1>0. /\ status[o] = "CANCELED" => seg[o].canceled
      /\ ~Used(o) => status[o] = "none"
    BY DEF BlankInv, CancelInv
<1>1. CASE UNCHANGED vars
    BY <1>0, <1>1 DEF vars, account
<1>2. CASE Next /\ ~Schedules
    BY <1>0, <1>2, AnswersStep DEF Answers
<1>3. CASE Schedules
    BY <1>0, <1>3, ScheduledFacts DEF Carried, Answers
<1> QED BY <1>1, <1>2, <1>3

\* Only plan_chunk adds a chunk, and not to a cancelled segmenter.
LEMMA ChunksOf ==
    ASSUME Types, [Next]_vars, NEW o \in Seg, seg[o].canceled
    PROVE  {c \in chunks' : c.s = o} \subseteq chunks
<1>1. CASE plan_chunk
    <2> DEFINE c == [s |-> loop.s, b |-> loop.clip.b, e |-> loop.clip.e]
    <2>1. chunks' = (IF seg[loop.s].canceled THEN chunks ELSE chunks \cup {c}) /\ c.s = loop.s
        BY <1>1 DEF plan_chunk
    <2> HIDE DEF c
    <2> QED BY <2>1
<1>2. CASE UNCHANGED vars
    BY <1>2 DEF vars, traffic
<1>3. CASE Schedules
    BY <1>3, ScheduledFacts
<1>4. CASE \/ EventEnds
           \/ \E s \in Seg : \/ cancel_upload(s) \/ __segmenter_enqueue(s)
                             \/ __segmenter_finalize(s) \/ __segmenter_cancel_by_ticket(s)
    BY <1>4, CarriedPosted
<1>5. CASE LoopStep
    BY <1>5, CarriedLoop
<1>6. CASE \/ \E c \in chunks, ok \in BOOLEAN : on_finished(c, ok)
           \/ \E c \in chunks : drop_canceled(c)
           \/ \E r \in reporting : Reported(r)
    BY <1>6 DEF on_finished, drop_canceled, Reported
<1> QED BY <1>1, <1>2, <1>3, <1>4, <1>5, <1>6, NextSplit DEF Schedules, Environment

\* Once CANCELED was sent for a request, _schedule_direct_upload() gets no further chunk of
\* it, not even one that __segment_step() had cut when the request was cancelled: canceled
\* is set before the status is sent and is never taken back.
THEOREM CancelStopsCorrect == Spec => CancelStops
<1>1. Init => BlankInv /\ CancelInv
    BY DEF Init, BlankInv, CancelInv, Blank
<1>2. Types /\ CancelInv /\ [Next]_vars =>
        [\A s \in Seg : status[s] = "CANCELED" => {c \in chunks' : c.s = s} \subseteq chunks]_vars
    BY ChunksOf DEF CancelInv
<1> QED BY <1>1, <1>2, BlankStep, CancelStep, TypesCorrect, PTL DEF Spec, CancelStops

-----------------------------------------------------------------------------
(***************************************************************************)
(* The counters. D and F are the chunks of s that have really ended.       *)
(***************************************************************************)

Waiting(s) == {c \in chunks : c.s = s}
Reports(s) == {r \in reporting : r.c.s = s}

\* Every chunk handed over was counted as planned and is in one place; the counters, and
\* the values a report has read, are at most the numbers of chunks that have ended.
Counts(s, D, F) ==
    /\ D + F + Cardinality(Waiting(s)) + Cardinality(Reports(s)) <= seg[s].planned
    /\ seg[s].done <= D /\ seg[s].failed <= F
    /\ \A r \in Reports(s) : r.done <= D /\ r.failed <= F
CountInv == \A s \in Seg : \E D, F \in Nat : Counts(s, D, F)

\* The numbers in an account are numbers.
LEMMA Parts ==
    ASSUME Types, NEW s \in Seg
    PROVE  /\ IsFiniteSet(Waiting(s)) /\ IsFiniteSet(Reports(s))
           /\ Cardinality(Waiting(s)) \in Nat /\ Cardinality(Reports(s)) \in Nat
           /\ seg[s].planned \in Nat /\ seg[s].done \in Nat /\ seg[s].failed \in Nat
           /\ \A r \in Reports(s) : r.done \in Nat /\ r.failed \in Nat
<1>1. IsFiniteSet(chunks) /\ IsFiniteSet(reporting)
    BY DEF Types, FiniteInv
<1>2. Waiting(s) \subseteq chunks /\ Reports(s) \subseteq reporting
    BY DEF Waiting, Reports
<1>3. IsFiniteSet(Waiting(s)) /\ IsFiniteSet(Reports(s))
    BY <1>1, <1>2, FS_Subset
<1>4. Cardinality(Waiting(s)) \in Nat /\ Cardinality(Reports(s)) \in Nat
    BY <1>3, FS_CardinalityType
<1>5. seg[s].planned \in Nat /\ seg[s].done \in Nat /\ seg[s].failed \in Nat
    BY DEF Types, TypeOK, SegType
<1>6. \A r \in Reports(s) : r.done \in Nat /\ r.failed \in Nat
    BY <1>2 DEF Types, TypeOK
<1> QED BY <1>3, <1>4, <1>5, <1>6

\* The account is kept when no chunk is added and no report is.
LEMMA CountsKept ==
    ASSUME Types, NEW s \in Seg, NEW D \in Nat, NEW F \in Nat, Counts(s, D, F),
           Carried(s), Waiting(s)' \subseteq Waiting(s), Reports(s)' = Reports(s)
    PROVE  Counts(s, D, F)'
<1> DEFINE w == Cardinality(Waiting(s))
           v == Cardinality(Waiting(s)')
           n == Cardinality(Reports(s))
<1>1. w \in Nat /\ n \in Nat /\ v \in Nat /\ v <= w
    BY Parts, FS_Subset, FS_CardinalityType
<1>2. D + F + w + n <= seg[s].planned /\ seg[s].planned \in Nat
    BY Parts DEF Counts
<1> HIDE DEF w, v, n
<1>3. D + F + v + n <= seg[s].planned
    BY <1>1, <1>2
<1> QED BY <1>3 DEF Counts, Carried, v, n

\* on_finished() moves a chunk from one place to the other and reads the counters.
LEMMA CountsFinished ==
    ASSUME Types, NEW c \in chunks, NEW ok \in BOOLEAN, on_finished(c, ok), NEW s \in Seg,
           NEW D \in Nat, NEW F \in Nat, Counts(s, D, F)
    PROVE  Counts(s, D, F)'
<1> DEFINE r == [c |-> c, ok |-> ok, done |-> seg[c.s].done, failed |-> seg[c.s].failed]
<1>1. /\ chunks' = chunks \ {c} /\ reporting' = reporting \cup {r} /\ seg' = seg
      /\ status' = status
    BY DEF on_finished, account
<1>2. r.c = c /\ r.done = seg[c.s].done /\ r.failed = seg[c.s].failed
    OBVIOUS
<1> HIDE DEF r
<1>3. CASE c.s # s
    <2>1. Waiting(s)' = Waiting(s) /\ Reports(s)' = Reports(s)
        BY <1>1, <1>2, <1>3 DEF Waiting, Reports
    <2> QED BY <1>1, <2>1 DEF Counts
<1>4. CASE c.s = s
    <2> DEFINE w == Cardinality(Waiting(s))
               n == Cardinality(Reports(s))
               v == Cardinality(Waiting(s)')
               m == Cardinality(Reports(s)')
    <2>1. Waiting(s)' = Waiting(s) \ {c} /\ c \in Waiting(s)
        BY <1>1, <1>4 DEF Waiting
    <2>2. Reports(s)' = Reports(s) \cup {r}
        BY <1>1, <1>2, <1>4 DEF Reports
    <2>3. w \in Nat /\ n \in Nat /\ IsFiniteSet(Waiting(s)) /\ IsFiniteSet(Reports(s))
        BY Parts
    <2>4. v = w - 1
        BY <2>1, <2>3, FS_RemoveElement
    <2>5. m = n \/ m = n + 1
        BY <2>2, <2>3, FS_AddElement
    <2>6. D + F + w + n <= seg[s].planned /\ seg[s].planned \in Nat
        BY Parts DEF Counts
    <2> HIDE DEF w, n, v, m
    <2>7. D + F + v + m <= seg[s].planned
        BY <2>3, <2>4, <2>5, <2>6
    <2>8. \A q \in Reports(s)' : q.done <= D /\ q.failed <= F
        BY <1>2, <1>4, <2>2 DEF Counts
    <2> QED BY <1>1, <2>7, <2>8 DEF Counts, v, m
<1> QED BY <1>3, <1>4

\* plan_chunk counts the chunk in the step that hands it over.
LEMMA CountsPlan ==
    ASSUME Types, plan_chunk, NEW s \in Seg, NEW D \in Nat, NEW F \in Nat, Counts(s, D, F)
    PROVE  Counts(s, D, F)'
<1> DEFINE c == [s |-> loop.s, b |-> loop.clip.b, e |-> loop.clip.e]
<1>1. /\ chunks' = chunks \/ chunks' = chunks \cup {c}
      /\ reporting' = reporting /\ c.s = loop.s
    BY DEF plan_chunk
<1> HIDE DEF c
<1>2. Reports(s)' = Reports(s)
    BY <1>1 DEF Reports
<1>3. CASE s # loop.s
    <2>1. Waiting(s)' = Waiting(s)
        BY <1>1, <1>3 DEF Waiting
    <2> QED BY <1>2, <1>3, <2>1, AnswersPlan, CountsKept
<1>4. CASE s = loop.s
    <2> DEFINE w == Cardinality(Waiting(s))
               n == Cardinality(Reports(s))
               v == Cardinality(Waiting(s)')
               p == seg[s].planned
    <2>1. Waiting(s)' = Waiting(s) \/ Waiting(s)' = Waiting(s) \cup {c}
        BY <1>1, <1>4 DEF Waiting
    <2>2. w \in Nat /\ n \in Nat /\ IsFiniteSet(Waiting(s)) /\ p \in Nat
        BY Parts
    <2>3. v = w \/ v = w + 1
        BY <2>1, <2>2, FS_AddElement
    <2>4. D + F + w + n <= p
        BY DEF Counts
    <2>5. /\ seg'[s].planned = p + 1
          /\ seg'[s].done = seg[s].done /\ seg'[s].failed = seg[s].failed
        BY <1>4, AnswersPlan
    <2> HIDE DEF w, n, v, p
    <2>6. D + F + v + n <= p + 1
        BY <2>2, <2>3, <2>4
    <2> QED BY <1>2, <2>5, <2>6 DEF Counts, v, n
<1> QED BY <1>3, <1>4

\* A report ends a chunk; what it writes is at most what has ended, whichever reports
\* ran in between.
LEMMA CountsReported ==
    ASSUME Types, NEW r \in reporting, Reported(r), NEW s \in Seg,
           NEW D \in Nat, NEW F \in Nat, Counts(s, D, F)
    PROVE  \E E, G \in Nat : Counts(s, E, G)'
<1>1. chunks' = chunks /\ reporting' = reporting \ {r}
    BY DEF Reported
<1>2. Waiting(s)' = Waiting(s)
    BY <1>1 DEF Waiting
<1>3. CASE s # r.c.s
    <2>1. Reports(s)' = Reports(s)
        BY <1>1, <1>3 DEF Reports
    <2>2. Counts(s, D, F)'
        BY <1>2, <1>3, <2>1, AnswersReported, CountsKept
    <2> QED BY <2>2
<1>4. CASE s = r.c.s
    <2> DEFINE w == Cardinality(Waiting(s))
               n == Cardinality(Reports(s))
               m == Cardinality(Reports(s)')
               p == seg[s].planned
               E == IF r.ok THEN D + 1 ELSE D
               G == IF r.ok THEN F ELSE F + 1
    <2>1. Reports(s)' = Reports(s) \ {r} /\ r \in Reports(s)
        BY <1>1, <1>4 DEF Reports
    <2>2. /\ w \in Nat /\ n \in Nat /\ IsFiniteSet(Reports(s)) /\ p \in Nat
          /\ \A q \in Reports(s) : q.done \in Nat /\ q.failed \in Nat
        BY Parts
    <2>3. m = n - 1
        BY <2>1, <2>2, FS_RemoveElement
    <2>4. D + F + w + n <= p /\ \A q \in Reports(s) : q.done <= D /\ q.failed <= F
        BY DEF Counts
    <2>5. /\ seg'[s].planned = p
          /\ seg'[s].done = (IF r.ok THEN r.done + 1 ELSE r.done)
          /\ seg'[s].failed = (IF r.ok THEN r.failed ELSE r.failed + 1)
        BY <1>4, AnswersReported
    <2>6. E \in Nat /\ G \in Nat /\ E + G = D + F + 1 /\ D <= E /\ F <= G
        OBVIOUS
    <2>7. seg'[s].done <= E /\ seg'[s].failed <= G
        BY <2>1, <2>2, <2>4, <2>5
    <2> HIDE DEF w, n, m, p, E, G
    <2>8. E + G + w + m <= p
        BY <2>2, <2>3, <2>4, <2>6
    <2>9. \A q \in Reports(s)' : q.done <= E /\ q.failed <= G
        BY <2>1, <2>2, <2>4, <2>6
    <2>10. Counts(s, E, G)'
        BY <1>2, <2>5, <2>7, <2>8, <2>9 DEF Counts, w, m
    <2> QED BY <2>6, <2>10
<1> QED BY <1>3, <1>4

\* A segmenter that was not asked for has nothing under way.
LEMMA CountsScheduled ==
    ASSUME Types, BlankInv, Schedules, NEW s \in Seg,
           NEW D \in Nat, NEW F \in Nat, Counts(s, D, F)
    PROVE  Counts(s, D, F)'
<1>1. /\ Waiting(s)' = Waiting(s) /\ Reports(s)' = Reports(s)
    BY ScheduledFacts DEF Waiting, Reports
<1>2. CASE Carried(s)
    BY <1>1, <1>2, CountsKept
<1>3. CASE /\ ~Used(s)
           /\ seg'[s].planned = 0 /\ seg'[s].done = 0 /\ seg'[s].failed = 0
    <2>1. seg[s].planned = 0
        BY <1>3 DEF BlankInv
    <2> QED BY <1>1, <1>3, <2>1 DEF Counts
<1> QED BY <1>2, <1>3, ScheduledFacts

\* CountInv is kept by every step.
LEMMA CountStep == Types /\ BlankInv /\ CountInv /\ [Next]_vars => CountInv'
<1> SUFFICES ASSUME Types, BlankInv, CountInv, [Next]_vars, NEW s \in Seg
             PROVE  \E D, F \in Nat : Counts(s, D, F)'
    BY DEF CountInv
<1>1. PICK D \in Nat, F \in Nat : Counts(s, D, F)
    BY DEF CountInv
<1>2. CASE UNCHANGED vars
    <2>1. Counts(s, D, F)'
        BY <1>1, <1>2 DEF vars, account, traffic, Counts, Waiting, Reports
    <2> QED BY <2>1
<1>3. CASE Schedules
    BY <1>1, <1>3, CountsScheduled
<1>4. CASE \/ EventEnds
           \/ \E q \in Seg : \/ cancel_upload(q) \/ __segmenter_enqueue(q)
                             \/ __segmenter_finalize(q) \/ __segmenter_cancel_by_ticket(q)
           \/ LoopStep
    <2>1. Carried(s) /\ UNCHANGED <<chunks, reporting>>
        BY <1>4, CarriedPosted, CarriedLoop
    <2>2. Waiting(s)' = Waiting(s) /\ Reports(s)' = Reports(s)
        BY <2>1 DEF Waiting, Reports
    <2> QED BY <1>1, <2>1, <2>2, CountsKept
<1>5. CASE plan_chunk
    BY <1>1, <1>5, CountsPlan
<1>6. CASE \E c \in chunks, ok \in BOOLEAN : on_finished(c, ok)
    BY <1>1, <1>6, CountsFinished
<1>7. CASE \E c \in chunks : drop_canceled(c)
    <2>1. seg' = seg /\ status' = status /\ chunks' \subseteq chunks /\ reporting' = reporting
        BY <1>7 DEF drop_canceled, account
    <2>2. Waiting(s)' \subseteq Waiting(s) /\ Reports(s)' = Reports(s)
        BY <2>1 DEF Waiting, Reports
    <2> QED BY <1>1, <2>1, <2>2, AnswersSame, CountsKept
<1>8. CASE \E r \in reporting : Reported(r)
    BY <1>1, <1>8, CountsReported
<1> QED BY <1>2, <1>3, <1>4, <1>5, <1>6, <1>7, <1>8, NextSplit DEF Schedules, Environment

-----------------------------------------------------------------------------
(***************************************************************************)
(* The final status.                                                       *)
(***************************************************************************)

AtMostOne(S) == \A c, d \in S : c = d
FinalInv ==
    \A s \in Seg : status[s] \in {"DONE", "ERROR"} => seg[s].processed /\ AtMostOne(InFlight(s))

\* When every chunk is counted, only one that is not yet counted can be under way.
OverInv == \A s \in Seg : AllCounted(seg[s]) => AtMostOne(InFlight(s))

\* The counters lag behind what has ended, so when they reach uploads_planned all has.
LEMMA CountedIsOver == Types /\ CountInv => OverInv
<1> SUFFICES ASSUME Types, CountInv, NEW s \in Seg, AllCounted(seg[s])
             PROVE  AtMostOne(InFlight(s))
    BY DEF OverInv
<1>1. PICK D \in Nat, F \in Nat : Counts(s, D, F)
    BY DEF CountInv
<1> DEFINE w == Cardinality(Waiting(s))
           n == Cardinality(Reports(s))
<1>2. /\ D + F + w + n <= seg[s].planned /\ seg[s].done <= D /\ seg[s].failed <= F
      /\ seg[s].planned = seg[s].done + seg[s].failed
    BY <1>1 DEF Counts, AllCounted
<1>3. w \in Nat /\ n \in Nat /\ seg[s].done \in Nat /\ seg[s].failed \in Nat
    BY Parts
<1>4. w = 0 /\ n = 0
    <2> HIDE DEF w, n
    <2> QED BY <1>2, <1>3
<1>5. Waiting(s) = {} /\ Reports(s) = {}
    BY <1>4, Parts, FS_EmptySet
<1>6. InFlight(s) \subseteq Planning
    BY <1>5 DEF InFlight, Waiting, Reports
<1>7. AtMostOne(Planning)
    BY DEF AtMostOne, Planning
<1> QED BY <1>6, <1>7 DEF AtMostOne

\* A processed segmenter gets no further chunk.
LEMMA FlightShrinks ==
    ASSUME Types, [Next]_vars, NEW s \in Seg, seg[s].processed
    PROVE  InFlight(s)' \subseteq InFlight(s)
<1>1. CASE UNCHANGED vars
    <2>1. UNCHANGED <<chunks, reporting, loop>>
        BY <1>1 DEF vars, traffic
    <2> QED BY <2>1, FlightSame
<1>2. CASE \/ Schedules \/ EventEnds
           \/ \E q \in Seg : \/ cancel_upload(q) \/ __segmenter_enqueue(q)
                             \/ __segmenter_finalize(q) \/ __segmenter_cancel_by_ticket(q)
    <2>1. UNCHANGED <<chunks, reporting, loop>>
        BY <1>2, CarriedPosted, ScheduledFacts
    <2> QED BY <2>1, FlightSame
<1>3. CASE LoopStep
    BY <1>3, FlightLoop
<1>4. CASE plan_chunk
    BY <1>4, FlightPlan
<1>5. CASE \E c \in chunks, ok \in BOOLEAN : on_finished(c, ok)
    BY <1>5, FlightFinished
<1>6. CASE \E c \in chunks : drop_canceled(c)
    BY <1>6, FlightDropped
<1>7. CASE \E r \in reporting : Reported(r)
    BY <1>7, FlightReported
<1> QED BY <1>1, <1>2, <1>3, <1>4, <1>5, <1>6, <1>7, NextSplit DEF Schedules, Environment

\* FinalInv is kept by every step: a final status is sent when every chunk is counted.
LEMMA FinalStep ==
    Types /\ BlankInv /\ FinalInv /\ OverInv' /\ [Next]_vars => FinalInv'
<1> SUFFICES ASSUME Types, BlankInv, FinalInv, OverInv', [Next]_vars, NEW s \in Seg,
                    status'[s] \in {"DONE", "ERROR"}
             PROVE  seg'[s].processed /\ AtMostOne(InFlight(s)')
    BY DEF FinalInv, AtMostOne
<1>1. CASE status'[s] = status[s] /\ (Answers(s) \/ seg'[s] = seg[s])
    <2>1. seg[s].processed /\ AtMostOne(InFlight(s))
        BY <1>1 DEF FinalInv
    <2>2. InFlight(s)' \subseteq InFlight(s)
        BY <2>1, FlightShrinks
    <2> QED BY <1>1, <2>1, <2>2 DEF AtMostOne, Answers
<1>2. CASE status'[s] # status[s] /\ Answers(s)
    <2>1. AllCounted(seg'[s])
        BY <1>2 DEF Answers
    <2> QED BY <2>1 DEF OverInv, AtMostOne, AllCounted
<1>3. CASE UNCHANGED vars
    BY <1>1, <1>3 DEF vars, account
<1>4. CASE Next /\ ~Schedules
    BY <1>1, <1>2, <1>4, AnswersStep
<1>5. CASE Schedules
    <2>1. status'[s] = status[s] /\ (Used(s) \/ status[s] = "none")
        BY <1>5, ScheduledFacts DEF BlankInv
    <2>2. Answers(s)
        BY <1>5, <2>1, ScheduledFacts DEF Carried
    <2> QED BY <1>1, <2>1, <2>2
<1> QED BY <1>3, <1>4, <1>5

\* The cardinality the property speaks of
LEMMA OneIsOne ==
    ASSUME NEW S, AtMostOne(S) PROVE Cardinality(S) <= 1
<1>1. CASE S = {}
    BY <1>1, FS_EmptySet
<1>2. CASE S # {}
    <2>1. PICK c \in S : TRUE
        BY <1>2
    <2>2. S = {c}
        BY <2>1 DEF AtMostOne
    <2>3. Cardinality({c}) = 1
        BY FS_Singleton
    <2> QED BY <2>2, <2>3
<1> QED BY <1>1, <1>2

\* After DONE or ERROR was sent for a request, at most one of its chunks is still on its way
\* and no other is cut, although on_finished() of several threads overwrites the plain
\* counters of the others: a lost increment can only delay the final status.
THEOREM FinalIsLastCorrect == Spec => FinalIsLast
<1>1. Init => BlankInv /\ CountInv /\ FinalInv
    <2> SUFFICES ASSUME Init PROVE BlankInv /\ CountInv /\ FinalInv
        OBVIOUS
    <2>1. BlankInv /\ FinalInv
        BY DEF Init, BlankInv, FinalInv, Blank
    <2>2. ASSUME NEW s \in Seg PROVE Counts(s, 0, 0)
        <3>1. Waiting(s) = {} /\ Reports(s) = {}
            BY DEF Init, Waiting, Reports
        <3>2. seg[s] = Blank
            BY DEF Init
        <3>3. Cardinality(Waiting(s)) = 0 /\ Cardinality(Reports(s)) = 0
            BY <3>1, FS_EmptySet
        <3>4. seg[s].planned = 0 /\ seg[s].done = 0 /\ seg[s].failed = 0
            BY <3>2 DEF Blank
        <3> QED BY <3>1, <3>3, <3>4 DEF Counts
    <2> QED BY <2>1, <2>2 DEF CountInv
<1>2. Types /\ FinalInv /\ [Next]_vars =>
        [\A s \in Seg : status[s] \in {"DONE", "ERROR"} =>
            Cardinality(InFlight(s)) <= 1 /\ InFlight(s)' \subseteq InFlight(s)]_vars
    BY FlightShrinks, OneIsOne DEF FinalInv
<1> QED BY <1>1, <1>2, BlankStep, CountStep, CountedIsOver, FinalStep, TypesCorrect, PTL
    DEF Spec, FinalIsLast

-----------------------------------------------------------------------------
(***************************************************************************)
(* What a step does to a segmenter. All that the account needs of the loop *)
(* is LoopFacts; that no time is lost or planned twice needs the windows.  *)
(***************************************************************************)
\* What no step takes back from a segmenter: begin, pre and post stay, an end is only set
\* where there was none, flags are never cleared and planned never decreases.
Grows(o) ==
    /\ seg'[o].begin = seg[o].begin /\ seg'[o].pre = seg[o].pre
    /\ seg'[o].post = seg[o].post
    /\ seg'[o].end = seg[o].end \/ is_open(seg[o])
    /\ seg[o].canceled => seg'[o].canceled
    /\ seg[o].processed => seg'[o].processed
    /\ seg'[o].planned >= seg[o].planned
\* A step that leaves o its window and processes it only by cancelling it.
Still(o) ==
    /\ Grows(o)
    /\ seg'[o].start = seg[o].start /\ seg'[o].stop = seg[o].stop
    /\ seg'[o].processed => seg[o].processed \/ (Used(o) /\ seg'[o].canceled)

\* c becomes x, up to a cancel that a report adds.
Became(c, x) ==
    /\ seg'[c].begin = x.begin /\ seg'[c].pre = x.pre /\ seg'[c].post = x.post
    /\ seg'[c].end = x.end /\ seg'[c].start = x.start /\ seg'[c].stop = x.stop
    /\ seg'[c].processed = x.processed /\ seg'[c].planned = x.planned
    /\ x.canceled => seg'[c].canceled
    /\ \A o \in Seg : o # c => seg'[o] = seg[o]

\* Both forms of Becomes() say so.
LEMMA BecomesFacts ==
    ASSUME TypeOK, NEW c \in Seg, NEW x \in SegType, Said(c, x) \/ Unsaid(c, x)
    PROVE  Became(c, x)
<1>1. CASE Said(c, x)
    <2> DEFINE off == x.canceled \/ c \in canceled_tickets
               flag == off \/ ~AllCounted(x)
               y == [x EXCEPT !.canceled = off, !.ticket = flag]
    <2>1. seg' = [seg EXCEPT ![c] = Answered(c, x)] /\ seg \in [Seg -> SegType]
        BY <1>1 DEF Said, TypeOK
    <2>2. Answered(c, x) = y
        BY DEF Answered
    <2>3. off \in BOOLEAN /\ flag \in BOOLEAN
        OBVIOUS
    <2>4. x.canceled => off
        OBVIOUS
    <2> HIDE DEF off, flag
    <2>5. /\ y.begin = x.begin /\ y.pre = x.pre /\ y.post = x.post
          /\ y.end = x.end /\ y.start = x.start /\ y.stop = x.stop
          /\ y.processed = x.processed /\ y.planned = x.planned
          /\ y.canceled = off
        BY <2>3 DEF SegType
    <2> HIDE DEF y
    <2>6. seg'[c] = y /\ \A o \in Seg : o # c => seg'[o] = seg[o]
        BY <2>1, <2>2
    <2> QED BY <2>4, <2>5, <2>6 DEF Became
<1>2. CASE Unsaid(c, x)
    <2>1. seg'[c] = x /\ \A o \in Seg : o # c => seg'[o] = seg[o]
        BY <1>2 DEF Unsaid, TypeOK
    <2> QED BY <2>1 DEF Became
<1> QED BY <1>1, <1>2

\* A segmenter the step does not touch stands still,
LEMMA StillSame ==
    ASSUME seg \in [Seg -> SegType], NEW o \in Seg, seg'[o] = seg[o]
    PROVE  Still(o)
<1>1. seg[o].planned \in Nat
    BY SegFields
<1> QED BY <1>1 DEF Still, Grows

\* and so do all when the step only gives an open one its end.
LEMMA StillEnd ==
    ASSUME seg \in [Seg -> SegType], NEW s \in Seg, NEW t \in Nat,
           seg' = [seg EXCEPT ![s].end = t], t = seg[s].end \/ is_open(seg[s]),
           NEW o \in Seg
    PROVE  Still(o)
<1>1. CASE o # s
    BY <1>1, StillSame
<1>2. CASE o = s
    <2> DEFINE y == [seg[s] EXCEPT !.end = t]
    <2>1. seg[s] \in SegType /\ seg'[s] = y
        OBVIOUS
    <2>2. /\ y.begin = seg[s].begin /\ y.pre = seg[s].pre /\ y.post = seg[s].post
          /\ y.end = t /\ y.start = seg[s].start /\ y.stop = seg[s].stop
          /\ y.processed = seg[s].processed /\ y.planned = seg[s].planned
          /\ y.canceled = seg[s].canceled
        BY <2>1 DEF SegType
    <2>3. seg[s].planned \in Nat
        BY <2>1, SegFields
    <2> HIDE DEF y
    <2> QED BY <1>2, <2>1, <2>2, <2>3 DEF Still, Grows
<1> QED BY <1>1, <1>2

\* A posted finalize is for a segmenter in use and sets the end finalize_upload() gave,
\* once: this is what keeps an end from being moved under a window that is over.
EndInv ==
    \A s \in Seg : finalizing[s] # Null =>
        Used(s) /\ (is_open(seg[s]) \/ seg[s].end = finalizing[s])

\* The steps that move no window and touch neither the list nor the loop.
QuietPosted(s) ==
    \/ \E t \in EndTime, now \in BOOLEAN : finalize_upload(s, t, now)
    \/ cancel_upload(s)
    \/ __segmenter_finalize(s) \/ __segmenter_cancel_by_ticket(s)

Quiet ==
    \/ \E s \in Seg : QuietPosted(s)
    \/ \E c \in chunks, ok \in BOOLEAN : on_finished(c, ok)
    \/ \E c \in chunks : drop_canceled(c)
    \/ \E r \in reporting : Reported(r)
    \/ UNCHANGED vars

\* The one step that adds to the list.
Enqueues == \E s \in Seg : __segmenter_enqueue(s)

\* These and the steps of the loop are all there are.
LEMMA StepKinds ==
    ASSUME [Next]_vars
    PROVE  \/ Quiet \/ Schedules \/ Enqueues \/ plan_chunk
           \/ __adjust_segmenters_current_to_finished
           \/ \E ok \in BOOLEAN : __check_clip_segment(ok)
           \/ __segment_step
<1>1. CASE UNCHANGED vars
    BY <1>1 DEF Quiet
<1>2. CASE Next
    BY <1>2, NextSplit DEF Quiet, QuietPosted, Schedules, Environment, EventEnds, Enqueues,
       LoopStep
<1> QED BY <1>1, <1>2

\* A quiet step leaves every window where it is.
LEMMA QuietStill ==
    ASSUME Types, EndInv, Quiet
    PROVE  /\ \A o \in Seg : Still(o)
           /\ UNCHANGED <<delayed, segmenters_, loop, observed>>
<1>0. TypeOK /\ seg \in [Seg -> SegType] /\ finalizing \in [Seg -> Nat]
    BY DEF Types, TypeOK
<1>1. ASSUME NEW s \in Seg, QuietPosted(s)
      PROVE  /\ \A o \in Seg : Still(o)
             /\ UNCHANGED <<delayed, segmenters_, loop, observed>>
    <2>1. ASSUME NEW t \in EndTime, NEW now \in BOOLEAN, finalize_upload(s, t, now)
          PROVE  /\ \A o \in Seg : Still(o)
                 /\ UNCHANGED <<delayed, segmenters_, loop, observed>>
        <3>1. t \in Nat
            BY SegmentAssumption
        <3>2. /\ seg' = (IF now THEN [seg EXCEPT ![s].end = t] ELSE seg) /\ is_open(seg[s])
              /\ UNCHANGED <<delayed, segmenters_, loop, observed>>
            BY <2>1 DEF finalize_upload
        <3>3. CASE now
            BY <1>0, <3>1, <3>2, <3>3, StillEnd
        <3>4. CASE ~now
            BY <1>0, <3>2, <3>4, StillSame
        <3> QED BY <3>2, <3>3, <3>4
    <2>2. CASE cancel_upload(s)
        BY <1>0, <2>2, StillSame DEF cancel_upload, account
    <2>3. CASE __segmenter_finalize(s)
        <3>1. /\ seg' = [seg EXCEPT ![s].end = finalizing[s]] /\ finalizing[s] # Null
              /\ UNCHANGED <<delayed, segmenters_, loop, observed>>
            BY <2>3 DEF __segmenter_finalize
        <3>2. finalizing[s] = seg[s].end \/ is_open(seg[s])
            BY <3>1 DEF EndInv
        <3> QED BY <1>0, <3>1, <3>2, StillEnd
    <2>4. CASE __segmenter_cancel_by_ticket(s)
        <3> DEFINE y == [seg[s] EXCEPT !.canceled = TRUE, !.processed = TRUE, !.finished = TRUE]
        <3>1. /\ (seg' = [seg EXCEPT ![s] = y] /\ s \in ToSet(segmenters_)) \/ seg' = seg
              /\ UNCHANGED <<delayed, segmenters_, loop, observed>>
            BY <2>4 DEF __segmenter_cancel_by_ticket
        <3>2. ASSUME seg' = [seg EXCEPT ![s] = y], s \in ToSet(segmenters_), NEW o \in Seg
              PROVE  Still(o)
            <4>0. Used(s)
                BY <3>2 DEF Types, UsedInv
            <4>1. seg[s] \in SegType /\ seg'[s] = y /\ (o # s => seg'[o] = seg[o])
                BY <1>0, <3>2
            <4>2. /\ y.begin = seg[s].begin /\ y.pre = seg[s].pre /\ y.post = seg[s].post
                  /\ y.end = seg[s].end /\ y.start = seg[s].start /\ y.stop = seg[s].stop
                  /\ y.planned = seg[s].planned /\ y.canceled /\ y.processed
                BY <4>1 DEF SegType
            <4>3. seg[s].planned \in Nat
                BY <4>1, SegFields
            <4> HIDE DEF y
            <4> QED BY <1>0, <4>0, <4>1, <4>2, <4>3, StillSame DEF Still, Grows
        <3> HIDE DEF y
        <3> QED BY <1>0, <3>1, <3>2, StillSame
    <2> QED BY <1>1, <2>1, <2>2, <2>3, <2>4 DEF QuietPosted
<1>2. CASE \/ \E c \in chunks, ok \in BOOLEAN : on_finished(c, ok)
           \/ \E c \in chunks : drop_canceled(c)
           \/ UNCHANGED vars
    <2>1. seg' = seg /\ UNCHANGED <<delayed, segmenters_, loop, observed>>
        BY <1>2 DEF on_finished, drop_canceled, vars, account, posted
    <2> QED BY <1>0, <2>1, StillSame
<1>3. ASSUME NEW r \in reporting, Reported(r)
      PROVE  /\ \A o \in Seg : Still(o)
             /\ UNCHANGED <<delayed, segmenters_, loop, observed>>
    <2> DEFINE s == r.c.s
    <2>1. s \in Seg
        BY DEF Types, TypeOK, ChunkType
    <2>2. PICK x \in SegType : Became(s, x) /\ x.begin = seg[s].begin
             /\ x.planned = seg[s].planned /\ x.pre = seg[s].pre /\ x.post = seg[s].post
             /\ x.end = seg[s].end /\ x.start = seg[s].start /\ x.stop = seg[s].stop
             /\ x.processed = seg[s].processed /\ x.canceled = seg[s].canceled
        <3>1. PICK x \in SegType : /\ Said(s, x) \/ Unsaid(s, x)
                 /\ x.begin = seg[s].begin
                 /\ x.planned = seg[s].planned /\ x.pre = seg[s].pre /\ x.post = seg[s].post
                 /\ x.end = seg[s].end /\ x.start = seg[s].start /\ x.stop = seg[s].stop
                 /\ x.processed = seg[s].processed /\ x.canceled = seg[s].canceled
            BY <1>0, <1>3, ReportTurn
        <3> QED BY <1>0, <2>1, <3>1, BecomesFacts
    <2>3. seg[s].planned \in Nat
        BY <1>0, <2>1, SegFields
    <2> HIDE DEF s
    <2>4. Still(s)
        BY <2>2, <2>3 DEF Became, Still, Grows
    <2>5. \A o \in Seg : o # s => Still(o)
        BY <1>0, <2>2, StillSame DEF Became
    <2>6. UNCHANGED <<delayed, segmenters_, loop, observed>>
        BY <1>3 DEF Reported, posted
    <2> QED BY <2>4, <2>5, <2>6
<1> QED BY <1>1, <1>2, <1>3 DEF Quiet

\* What the first k segmenters of q have made of c's window: it never goes back, it is
\* the old one or starts where one of them does, it is over only past the end of a
\* segmenter that has one, and otherwise no processed segmenter of the k that meets c
\* starts after it.
ShiftSound(acc, c, q, k) ==
    /\ acc.start >= seg[c].start
    /\ \/ acc.start = seg[c].start /\ acc.stop = seg[c].stop
       \/ \E i \in 1..k : /\ q[i] # c /\ seg[q[i]].processed
                          /\ acc.start = seg[q[i]].start /\ acc.stop = acc.start + Step
    /\ acc.over => ~is_open(seg[c]) /\ acc.start >= Border(seg[c])
    /\ \/ acc.over
       \/ \A i \in 1..k : q[i] # c /\ seg[q[i]].processed /\ intersects(seg[c], seg[q[i]])
                            => acc.start >= seg[q[i]].start

\* One turn of __adjust_segmenters_current_to_finished() keeps that.
LEMMA ShiftTurn ==
    ASSUME seg \in [Seg -> SegType], NEW c \in Seg, NEW q \in Seq(Seg), NEW k \in 1..Len(q),
           NEW acc \in WindowType, ShiftSound(acc, c, q, k - 1)
    PROVE  ShiftSound(Shift(acc, c, q[k]), c, q, k)
<1> DEFINE s == q[k]
<1>1. Len(q) \in Nat /\ k \in Nat /\ s \in Seg /\ 1..(k - 1) \subseteq 1..k /\ k \in 1..k
      /\ \A i \in 1..k : i = k \/ i \in 1..(k - 1)
    OBVIOUS
<1>2. \A i \in 1..k : q[i] \in Seg
    BY <1>1
<1>3. \A o \in Seg : seg[o].start \in Nat
    BY SegFields
<1>4. acc.start \in Nat
    BY DEF WindowType
<1>5. CASE acc.over \/ s = c \/ ~seg[s].processed
             \/ ~intersects(seg[c], seg[s]) \/ acc.start >= seg[s].start
    <2>1. Shift(acc, c, s) = acc
        BY <1>5 DEF Shift
    <2>2. \/ acc.over
          \/ \A i \in 1..k : q[i] # c /\ seg[q[i]].processed /\ intersects(seg[c], seg[q[i]])
                               => acc.start >= seg[q[i]].start
        BY <1>1, <1>5 DEF ShiftSound
    <2>3. \/ acc.start = seg[c].start /\ acc.stop = seg[c].stop
          \/ \E i \in 1..k : /\ q[i] # c /\ seg[q[i]].processed
                             /\ acc.start = seg[q[i]].start /\ acc.stop = acc.start + Step
        BY <1>1 DEF ShiftSound
    <2>4. ShiftSound(acc, c, q, k)
        BY <2>2, <2>3 DEF ShiftSound
    <2> QED BY <2>1, <2>4
<1>6. CASE ~(acc.over \/ s = c \/ ~seg[s].processed
             \/ ~intersects(seg[c], seg[s]) \/ acc.start >= seg[s].start)
    <2> DEFINE end == ~is_open(seg[c]) /\ seg[s].start >= Border(seg[c])
               new == [start |-> seg[s].start, stop |-> seg[s].start + Step, over |-> end]
    <2>1. Shift(acc, c, s) = new
        BY <1>6 DEF Shift
    <2>2. new.start = seg[s].start /\ new.stop = seg[s].start + Step /\ new.over = end
        OBVIOUS
    <2>3. acc.start < seg[s].start /\ acc.start >= seg[c].start /\ s # c /\ seg[s].processed
        BY <1>1, <1>3, <1>4, <1>6 DEF ShiftSound
    <2>4. new.start >= seg[c].start
        BY <1>1, <1>3, <1>4, <2>2, <2>3
    <2>5. \A i \in 1..k : q[i] # c /\ seg[q[i]].processed /\ intersects(seg[c], seg[q[i]])
                            => new.start >= seg[q[i]].start
        <3> SUFFICES ASSUME NEW i \in 1..k, q[i] # c, seg[q[i]].processed,
                            intersects(seg[c], seg[q[i]])
                     PROVE  new.start >= seg[q[i]].start
            OBVIOUS
        <3>1. CASE i = k
            BY <1>1, <1>3, <2>2, <3>1
        <3>2. CASE i # k
            <4>1. i \in 1..(k - 1)
                BY <1>1, <3>2
            <4>2. acc.start >= seg[q[i]].start
                BY <1>6, <4>1 DEF ShiftSound
            <4> QED BY <1>1, <1>2, <1>3, <1>4, <2>2, <2>3, <4>2
        <3> QED BY <3>1, <3>2
    <2> HIDE DEF new
    <2>6. \E i \in 1..k : /\ q[i] # c /\ seg[q[i]].processed
                          /\ new.start = seg[q[i]].start /\ new.stop = new.start + Step
        BY <1>1, <2>2, <2>3
    <2> QED BY <2>1, <2>2, <2>4, <2>5, <2>6 DEF ShiftSound
<1> QED BY <1>5, <1>6

\* So does the whole of it.
LEMMA ShiftedFacts ==
    ASSUME seg \in [Seg -> SegType], NEW c \in Seg, NEW q \in Seq(Seg)
    PROVE  ShiftSound(Shifted(c, q), c, q, Len(q))
<1> DEFINE W == [k \in 0..Len(q) |-> {acc \in WindowType : ShiftSound(acc, c, q, k)}]
<1>1. Len(q) \in Nat
    OBVIOUS
<1>2. Unmoved(seg[c]) \in W[0]
    <2>1. seg[c].start \in Nat /\ seg[c].stop \in Nat
        BY SegFields
    <2>2. Unmoved(seg[c]) \in WindowType
        BY <2>1 DEF Unmoved, WindowType
    <2>3. ShiftSound(Unmoved(seg[c]), c, q, 0)
        BY <2>1 DEF Unmoved, ShiftSound
    <2> QED BY <1>1, <2>2, <2>3
<1>3. \A k \in 1..Len(q) : \A acc \in W[k - 1] : Shift(acc, c, q[k]) \in W[k]
    <2> SUFFICES ASSUME NEW k \in 1..Len(q), NEW acc \in W[k - 1]
                 PROVE  Shift(acc, c, q[k]) \in W[k]
        OBVIOUS
    <2>1. k - 1 \in 0..Len(q) /\ k \in 0..Len(q) /\ q[k] \in Seg
        BY <1>1
    <2>2. acc \in WindowType /\ ShiftSound(acc, c, q, k - 1)
        BY <2>1
    <2>3. Shift(acc, c, q[k]) \in WindowType
        BY <2>1, <2>2, ShiftTyped
    <2>4. ShiftSound(Shift(acc, c, q[k]), c, q, k)
        BY <2>2, ShiftTurn
    <2> QED BY <2>1, <2>3, <2>4
<1>4. W \in [0..Len(q) -> SUBSET WindowType]
    OBVIOUS
<1>5. Shifted(c, q) \in W[Len(q)]
    <2> HIDE DEF W
    <2> QED BY <1>2, <1>3, <1>4, ShiftedKeeps
<1> QED BY <1>1, <1>5

\* What the first k periods of q have made of the window of x: it never goes back, each
\* time it was moved over lies in one of them, it is over only past the end and post, and
\* a window the right way round stays so.
TrimSound(acc, x, q, k) ==
    /\ acc.start >= x.start
    /\ \A t \in Nat : x.start <= t /\ t < acc.start => \E i \in 1..k : t \in Times(q[i])
    /\ acc.over => acc.start > Border(x)
    /\ x.start <= x.stop => acc.start <= acc.stop

\* One turn of __check_clip_segment() keeps that.
LEMMA TrimTurn ==
    ASSUME NEW x \in SegType, NEW q \in Seq(Span), NEW k \in 1..Len(q),
           NEW acc \in TrimType, TrimSound(acc, x, q, k - 1)
    PROVE  TrimSound(Trim(acc, x, q[k]), x, q, k)
<1> DEFINE p == q[k]
<1>1. Len(q) \in Nat /\ k \in Nat /\ p \in Span /\ 1..(k - 1) \subseteq 1..k /\ k \in 1..k
    OBVIOUS
<1>2. p.b \in Nat /\ p.e \in Nat /\ acc.start \in Nat /\ acc.stop \in Nat
    BY <1>1 DEF Span, TrimType
<1>3. x.start \in Nat /\ x.stop \in Nat /\ x.end \in Nat /\ x.post \in Nat
    BY SegFields
<1>4. /\ acc.start >= x.start
      /\ \A t \in Nat : x.start <= t /\ t < acc.start => \E i \in 1..k : t \in Times(q[i])
      /\ acc.over => acc.start > Border(x)
      /\ x.start <= x.stop => acc.start <= acc.stop
    BY <1>1 DEF TrimSound
<1>5. CASE acc.over \/ ~Meets(p, acc.start, acc.stop)
    BY <1>4, <1>5 DEF Trim, TrimSound
<1>6. CASE ~(acc.over \/ ~Meets(p, acc.start, acc.stop))
    <2> DEFINE start == IF acc.start >= p.b THEN p.e ELSE acc.start
               stop  == IF acc.start >= p.b THEN acc.stop ELSE p.b
               next  == IF stop <= start THEN start + Step ELSE stop
               up == acc.upload /\ start < stop /\ start <= Border(x)
               ov == start > Border(x)
               new == [start |-> start, stop |-> next, upload |-> up, over |-> ov]
    <2>1. Trim(acc, x, p) = new
        BY <1>6 DEF Trim
    <2>2. new.start = start /\ new.stop = next /\ new.over = (start > Border(x))
        OBVIOUS
    <2>3. start \in Nat /\ stop \in Nat
        BY <1>2
    <2>4. start >= acc.start
        BY <1>2, <1>6 DEF Meets
    <2>5. \A t \in Nat : acc.start <= t /\ t < start => t \in Times(p)
        BY <1>2 DEF Times
    <2> HIDE DEF start, stop, new
    <2>6. start <= next
        BY <2>3, StepNat
    <2>7. \A t \in Nat : x.start <= t /\ t < start => \E i \in 1..k : t \in Times(q[i])
        BY <1>1, <1>2, <1>4, <2>3, <2>5
    <2>8. start >= x.start
        BY <1>2, <1>3, <1>4, <2>3, <2>4
    <2> QED BY <2>1, <2>2, <2>6, <2>7, <2>8 DEF TrimSound
<1> QED BY <1>5, <1>6

\* So does the whole of it.
LEMMA TrimmedFacts ==
    ASSUME NEW x \in SegType, NEW q \in Seq(Span)
    PROVE  TrimSound(Trimmed(x, q), x, q, Len(q))
<1> DEFINE W == [k \in 0..Len(q) |-> {acc \in TrimType : TrimSound(acc, x, q, k)}]
<1>1. Len(q) \in Nat
    OBVIOUS
<1>2. Untrimmed(x) \in W[0]
    <2>1. x.start \in Nat /\ x.stop \in Nat
        BY SegFields
    <2>2. Untrimmed(x) \in TrimType
        BY <2>1 DEF Untrimmed, TrimType
    <2>3. TrimSound(Untrimmed(x), x, q, 0)
        BY <2>1 DEF Untrimmed, TrimSound
    <2> QED BY <1>1, <2>2, <2>3
<1>3. \A k \in 1..Len(q) : \A acc \in W[k - 1] : Trim(acc, x, q[k]) \in W[k]
    <2> SUFFICES ASSUME NEW k \in 1..Len(q), NEW acc \in W[k - 1]
                 PROVE  Trim(acc, x, q[k]) \in W[k]
        OBVIOUS
    <2>1. k - 1 \in 0..Len(q) /\ k \in 0..Len(q) /\ q[k] \in Span
        BY <1>1
    <2>2. acc \in TrimType /\ TrimSound(acc, x, q, k - 1)
        BY <2>1
    <2>3. Trim(acc, x, q[k]) \in TrimType
        BY <2>1, <2>2, TrimTyped
    <2>4. TrimSound(Trim(acc, x, q[k]), x, q, k)
        BY <2>2, TrimTurn
    <2> QED BY <2>1, <2>3, <2>4
<1>4. W \in [0..Len(q) -> SUBSET TrimType]
    OBVIOUS
<1>5. Trimmed(x, q) \in W[Len(q)]
    <2> HIDE DEF W
    <2> QED BY <1>2, <1>3, <1>4, TrimmedKeeps
<1> QED BY <1>1, <1>5

\* The step gives c this window and ends it if it is over; nothing else changes.
Windowed(c, start, stop, over) ==
    /\ seg'[c].begin = seg[c].begin /\ seg'[c].pre = seg[c].pre
    /\ seg'[c].post = seg[c].post /\ seg'[c].end = seg[c].end
    /\ seg'[c].planned = seg[c].planned
    /\ seg[c].canceled => seg'[c].canceled
    /\ seg'[c].start = start /\ seg'[c].stop = stop
    /\ seg'[c].processed = (seg[c].processed \/ over)
    /\ \A o \in Seg : o # c => seg'[o] = seg[o]

\* Becomes() with a record that differs from seg[c] in the window alone is that step.
LEMMA WindowedIs ==
    ASSUME TypeOK, NEW c \in Seg, NEW x \in SegType, Said(c, x) \/ Unsaid(c, x),
           NEW start, NEW stop, NEW over,
           /\ x.begin = seg[c].begin /\ x.pre = seg[c].pre /\ x.post = seg[c].post
           /\ x.end = seg[c].end /\ x.planned = seg[c].planned /\ x.canceled = seg[c].canceled
           /\ x.start = start /\ x.stop = stop
           /\ x.processed = (seg[c].processed \/ over)
    PROVE  Windowed(c, start, stop, over)
<1>1. Became(c, x)
    BY BecomesFacts
<1> QED BY <1>1 DEF Became, Windowed

\* It takes nothing back and lets the others stand still.
LEMMA WindowedGrows ==
    ASSUME TypeOK, NEW c \in Seg, NEW start, NEW stop, NEW over, Windowed(c, start, stop, over)
    PROVE  Grows(c) /\ \A o \in Seg : o # c => Still(o)
<1>1. seg \in [Seg -> SegType]
    BY DEF TypeOK
<1>2. \A o \in Seg : o # c => Still(o)
    BY <1>1, StillSame DEF Windowed
<1>3. seg[c].planned \in Nat
    BY <1>1, SegFields
<1>4. Grows(c)
    <2>1. seg[c].processed => seg'[c].processed
        BY Zenon DEF Windowed
    <2>2. seg'[c].planned >= seg[c].planned
        BY <1>3 DEF Windowed
    <2>3. /\ seg'[c].begin = seg[c].begin /\ seg'[c].pre = seg[c].pre
          /\ seg'[c].post = seg[c].post /\ seg'[c].end = seg[c].end
          /\ seg[c].canceled => seg'[c].canceled
        BY Zenon DEF Windowed
    <2> QED BY <2>1, <2>2, <2>3 DEF Grows
<1> QED BY <1>2, <1>4

\* __adjust_segmenters_current_to_finished(): there is no current segmenter, or its
\* window is moved past the processed ones.
LEMMA AdjustFacts ==
    ASSUME Types, __adjust_segmenters_current_to_finished
    PROVE  /\ segmenters_' = Purged /\ loop.at \in {"idle", "adjust"}
           /\ UNCHANGED <<world, posted, traffic, observed>>
           /\ \/ Current = NoSeg /\ loop' = LoopIdle /\ seg' = seg
              \/ /\ Current \in Seg
                 /\ \E w \in WindowType :
                      /\ ShiftSound(w, Current, Purged, Len(Purged))
                      /\ loop' = [LoopIdle EXCEPT !.at = IF w.over THEN "adjust" ELSE "check",
                                                  !.s = Current]
                      /\ Windowed(Current, w.start, w.stop, w.over)
<1>1. /\ segmenters_' = Purged /\ loop.at \in {"idle", "adjust"}
      /\ UNCHANGED <<world, posted, traffic, observed>>
    BY DEF __adjust_segmenters_current_to_finished
<1>2. CASE Current = NoSeg
    BY <1>1, <1>2 DEF __adjust_segmenters_current_to_finished, account
<1>3. CASE Current # NoSeg
    <2> DEFINE c == Current
               w == Shifted(c, Purged)
               x == [seg[c] EXCEPT !.start = w.start, !.stop = w.stop,
                                   !.processed = @ \/ w.over, !.finished = @ \/ w.over]
    <2>0. TypeOK /\ seg \in [Seg -> SegType] /\ segmenters_ \in Seq(Seg)
        BY DEF Types, TypeOK
    <2>1. c \in Seg
        BY <1>3, <2>0, CurrentFacts
    <2>2. w \in WindowType /\ ShiftSound(w, c, Purged, Len(Purged))
        BY <2>0, <2>1, PurgedFacts, ShiftedType, ShiftedFacts
    <2>3. /\ loop' = [LoopIdle EXCEPT !.at = IF w.over THEN "adjust" ELSE "check", !.s = c]
          /\ Becomes(c, x, w.over)
        BY <1>3 DEF __adjust_segmenters_current_to_finished
    <2> HIDE DEF c, w
    <2>4. seg[c] \in SegType
        BY <2>0, <2>1
    <2>5. x \in SegType
        BY <2>2, <2>4 DEF SegType, WindowType
    <2>6. /\ x.begin = seg[c].begin /\ x.pre = seg[c].pre /\ x.post = seg[c].post
          /\ x.end = seg[c].end /\ x.planned = seg[c].planned /\ x.canceled = seg[c].canceled
          /\ x.start = w.start /\ x.stop = w.stop
          /\ x.processed = (seg[c].processed \/ w.over)
        BY <2>4 DEF SegType
    <2> HIDE DEF x
    <2>7. Said(c, x) \/ Unsaid(c, x)
        BY <2>3 DEF Becomes, Said, Unsaid
    <2>8. Windowed(c, w.start, w.stop, w.over)
        BY <2>0, <2>1, <2>5, <2>6, <2>7, WindowedIs
    <2>9. \E v \in WindowType :
             /\ ShiftSound(v, c, Purged, Len(Purged))
             /\ loop' = [LoopIdle EXCEPT !.at = IF v.over THEN "adjust" ELSE "check", !.s = c]
             /\ Windowed(c, v.start, v.stop, v.over)
        BY <2>2, <2>3, <2>8
    <2> QED BY <1>1, <2>1, <2>9 DEF c
<1> QED BY <1>1, <1>2, <1>3

\* __check_clip_segment(): there is no current segmenter, or its window is moved past
\* the periods of slices(); it is noted when the turn is another's than was adjusted.
LEMMA CheckFacts ==
    ASSUME Types, NEW ok \in BOOLEAN, __check_clip_segment(ok)
    PROVE  /\ segmenters_' = Purged /\ loop.at = "check"
           /\ UNCHANGED <<world, posted, traffic, from, planned, missing, overtook>>
           /\ \/ /\ Current = NoSeg /\ loop' = LoopIdle /\ seg' = seg
                 /\ UNCHANGED <<cutOpen, unadjusted>>
              \/ /\ Current \in Seg
                 /\ \E w \in TrimType :
                      /\ TrimSound(w, seg[Current], slices(seg[Current], ok),
                                   Len(slices(seg[Current], ok)))
                      /\ loop' = IF w.upload THEN [LoopIdle EXCEPT !.at = "step", !.s = Current]
                                 ELSE LoopIdle
                      /\ Windowed(Current, w.start, w.stop, w.over)
                      /\ cutOpen' = cutOpen \cup {s \in {Current} : w.over /\ is_open(seg[Current])}
                 /\ unadjusted' = unadjusted \cup {s \in {Current} : Current # loop.s}
<1>1. /\ segmenters_' = Purged /\ loop.at = "check"
      /\ UNCHANGED <<world, posted, traffic, from, planned, missing, overtook>>
    BY DEF __check_clip_segment
<1>2. CASE Current = NoSeg
    BY <1>1, <1>2 DEF __check_clip_segment, account
<1>3. CASE Current # NoSeg
    <2> DEFINE c == Current
               q == slices(seg[c], ok)
               w == Trimmed(seg[c], q)
               x == [seg[c] EXCEPT !.start = w.start, !.stop = w.stop,
                                   !.processed = @ \/ w.over, !.finished = @ \/ w.over]
    <2>0. TypeOK /\ seg \in [Seg -> SegType] /\ segmenters_ \in Seq(Seg)
        BY DEF Types, TypeOK
    <2>1. c \in Seg /\ seg[c] \in SegType
        BY <1>3, <2>0, CurrentFacts
    <2>2. w \in TrimType /\ TrimSound(w, seg[c], q, Len(q))
        <3>1. q \in Seq(Span)
            BY SlicesType
        <3> HIDE DEF q, c
        <3> QED BY <2>1, <3>1, TrimmedType, TrimmedFacts
    <2>3. /\ loop' = IF w.upload THEN [LoopIdle EXCEPT !.at = "step", !.s = c] ELSE LoopIdle
          /\ Becomes(c, x, w.over /\ seg[c].planned = 0)
          /\ cutOpen' = cutOpen \cup {s \in {c} : w.over /\ is_open(seg[c])}
          /\ unadjusted' = unadjusted \cup {s \in {c} : c # loop.s}
        BY <1>3 DEF __check_clip_segment
    <2> HIDE DEF c, w
    <2>5. x \in SegType
        BY <2>1, <2>2 DEF SegType, TrimType
    <2>6. /\ x.begin = seg[c].begin /\ x.pre = seg[c].pre /\ x.post = seg[c].post
          /\ x.end = seg[c].end /\ x.planned = seg[c].planned /\ x.canceled = seg[c].canceled
          /\ x.start = w.start /\ x.stop = w.stop
          /\ x.processed = (seg[c].processed \/ w.over)
        BY <2>1 DEF SegType
    <2> HIDE DEF x
    <2>7. Said(c, x) \/ Unsaid(c, x)
        BY <2>3 DEF Becomes, Said, Unsaid
    <2>8. Windowed(c, w.start, w.stop, w.over)
        BY <2>0, <2>1, <2>5, <2>6, <2>7, WindowedIs
    <2>9. \E v \in TrimType :
             /\ TrimSound(v, seg[c], q, Len(q))
             /\ loop' = IF v.upload THEN [LoopIdle EXCEPT !.at = "step", !.s = c] ELSE LoopIdle
             /\ Windowed(c, v.start, v.stop, v.over)
             /\ cutOpen' = cutOpen \cup {s \in {c} : v.over /\ is_open(seg[c])}
        BY <2>2, <2>3, <2>8
    <2> QED BY <1>1, <2>1, <2>3, <2>9 DEF c
<1> QED BY <1>1, <1>2, <1>3

\* The clip record_get_list() gives starts and ends no earlier than what was asked for.
LEMMA ClipFacts ==
    ASSUME world \in Worlds, NEW b \in Nat, NEW e \in Nat, record_get_list(b, e) # <<>>
    PROVE  /\ b < e
           /\ record_get_list(b, e) \in Span
           /\ record_get_list(b, e).b >= b /\ record_get_list(b, e).e >= e
<1>1. world.recorder \in RecorderKind
    BY SegmentAssumption
<1>2. b < e
    BY DEF record_get_list
<1>3. \/ record_get_list(b, e) = [b |-> b, e |-> e]
      \/ record_get_list(b, e) = [b |-> b + 1, e |-> e]
      \/ record_get_list(b, e) = [b |-> b, e |-> e + 1]
    <2>2. CASE world.recorder = "whole"
        BY <1>2, <2>2 DEF record_get_list
    <2>3. CASE world.recorder = "gap"
        BY <1>2, <2>3 DEF record_get_list
    <2>4. CASE world.recorder = "part"
        BY <1>2, <2>4 DEF record_get_list
    <2>5. CASE world.recorder = "long"
        BY <1>2, <2>5 DEF record_get_list
    <2> QED BY <1>1, <2>2, <2>3, <2>4, <2>5 DEF RecorderKind
<1> QED BY <1>2, <1>3 DEF Span

\* The clip cut from a window: the window follows it unless the clip is longer than
\* MaxClip, and the times before the clip are missing.
StepClip(s, start, stop) ==
    /\ loop'.clip \in Span /\ loop'.clip.b >= seg[s].start /\ start <= loop'.clip.e
    /\ seg[s].start <= start
    /\ loop'.clip.e - loop'.clip.b <= MaxClip => start = loop'.clip.e
    /\ missing' = missing \cup {t \in seg[s].start..(start - 1) : t < loop'.clip.b}

\* __segment_step(): nothing for a segmenter that is over; otherwise it waits, records a
\* gap, or cuts a clip.
LEMMA StepFacts ==
    ASSUME Types, __segment_step
    PROVE  /\ loop.at = "step" /\ loop.s \in Seg
           /\ UNCHANGED <<world, posted, segmenters_, traffic, from, planned, overtook,
                          unadjusted, cutOpen>>
           /\ loop' = LoopIdle \/ (loop'.at = "plan" /\ loop'.s = loop.s)
           /\ \/ /\ seg[loop.s].processed \/ seg[loop.s].canceled
                 /\ loop' = LoopIdle /\ seg' = seg /\ missing' = missing
              \/ /\ ~seg[loop.s].processed /\ ~seg[loop.s].canceled
                 /\ \E start \in Nat, stop \in Nat, over \in BOOLEAN :
                      /\ Windowed(loop.s, start, stop, over)
                      /\ over => ~is_open(seg[loop.s]) /\ start >= Border(seg[loop.s])
                      /\ over \/ start <= stop
                      /\ \/ /\ loop' = LoopIdle /\ start = seg[loop.s].start
                            /\ missing' = missing
                         \/ /\ loop' = LoopIdle
                            /\ missing' = missing \cup seg[loop.s].start..(start - 1)
                            /\ seg[loop.s].start <= seg[loop.s].stop =>
                                  seg[loop.s].start <= start
                         \/ loop'.at = "plan" /\ StepClip(loop.s, start, stop)
<1> DEFINE s == loop.s
           x == seg[s]
           wstop == IF ~is_open(x) /\ x.stop > Border(x) THEN Border(x) ELSE x.stop
<1>1. loop.at = "step" /\ s \in Seg /\ x \in SegType /\ world \in Worlds /\ TypeOK
    BY DEF __segment_step, Types, TypeOK
<1>2. UNCHANGED <<world, posted, segmenters_, traffic, from, planned, overtook, unadjusted,
                  cutOpen>>
    BY DEF __segment_step
<1>3. /\ wstop \in Nat /\ x.start \in Nat /\ x.stop \in Nat
      /\ is_open(x) \/ x.start < Border(x) => (x.start <= x.stop => x.start <= wstop)
    <2>1. x.stop \in Nat /\ x.start \in Nat /\ x.end \in Nat /\ x.post \in Nat
        BY <1>1, SegFields
    <2> HIDE DEF x
    <2> QED BY <2>1 DEF Border
<1> DEFINE
      OverStep == [x EXCEPT !.stop = wstop, !.processed = TRUE,
                            !.finished = @ \/ x.planned = 0]
      NextStep == [x EXCEPT !.stop = x.start + Step]
      clip == record_get_list(x.start, wstop)
      start == IF clip = <<>> \/ clip.e - clip.b > MaxClip THEN wstop ELSE clip.e
      last == ~is_open(x) /\ Border(x) <= start
      none == clip = <<>> /\ last
      ClipStep == [x EXCEPT !.start = start, !.stop = start + Step, !.processed = last,
                            !.finished = @ \/ (none /\ x.planned = 0)]
<1>9. \/ /\ x.processed \/ x.canceled
         /\ loop' = LoopIdle /\ UNCHANGED <<account, missing, endedEmpty>>
      \/ /\ ~x.processed /\ ~x.canceled /\ ~is_open(x) /\ x.start >= Border(x)
         /\ loop' = LoopIdle /\ Becomes(s, OverStep, x.planned = 0)
         /\ missing' = missing
      \/ /\ ~x.processed /\ ~x.canceled
         /\ loop' = LoopIdle /\ Becomes(s, NextStep, FALSE)
         /\ missing' = missing
      \/ /\ ~x.processed /\ ~x.canceled /\ (is_open(x) \/ x.start < Border(x))
         /\ loop' = IF clip = <<>> THEN LoopIdle ELSE [at |-> "plan", s |-> s, clip |-> clip]
         /\ Becomes(s, ClipStep, none /\ x.planned = 0)
         /\ missing' = missing \cup {t \in x.start..(start - 1) : clip = <<>> \/ t < clip.b}
    BY Zenon DEF __segment_step
<1> DEFINE
      Goal == /\ loop' = LoopIdle \/ (loop'.at = "plan" /\ loop'.s = s)
              /\ \/ /\ x.processed \/ x.canceled
                    /\ loop' = LoopIdle /\ seg' = seg /\ missing' = missing
                 \/ /\ ~x.processed /\ ~x.canceled
                    /\ \E begin \in Nat, stop \in Nat, over \in BOOLEAN :
                         /\ Windowed(s, begin, stop, over)
                         /\ over => ~is_open(x) /\ begin >= Border(x)
                         /\ over \/ begin <= stop
                         /\ \/ /\ loop' = LoopIdle /\ begin = x.start
                               /\ missing' = missing
                            \/ /\ loop' = LoopIdle
                               /\ missing' = missing \cup x.start..(begin - 1)
                               /\ x.start <= x.stop => x.start <= begin
                            \/ loop'.at = "plan" /\ StepClip(s, begin, stop)
<1> SUFFICES Goal
    BY <1>1, <1>2
<1>0. x = seg[s]
    OBVIOUS
<1> HIDE DEF s, x, wstop, clip, start, last, none, OverStep, NextStep, ClipStep
<1>4. CASE /\ x.processed \/ x.canceled
           /\ loop' = LoopIdle /\ UNCHANGED <<account, missing, endedEmpty>>
    BY <1>4 DEF account
<1>5. CASE /\ ~x.processed /\ ~x.canceled /\ ~is_open(x) /\ x.start >= Border(x)
           /\ loop' = LoopIdle /\ Becomes(s, OverStep, x.planned = 0)
           /\ missing' = missing
    <2>2. OverStep \in SegType
        BY <1>1, <1>3 DEF SegType, OverStep
    <2>3. /\ OverStep.begin = x.begin /\ OverStep.pre = x.pre /\ OverStep.post = x.post
          /\ OverStep.end = x.end /\ OverStep.planned = x.planned
          /\ OverStep.canceled = x.canceled
          /\ OverStep.start = x.start /\ OverStep.stop = wstop
          /\ OverStep.processed = (x.processed \/ TRUE)
        BY <1>1 DEF SegType, OverStep
    <2>4. Said(s, OverStep) \/ Unsaid(s, OverStep)
        BY <1>5 DEF Becomes, Said, Unsaid
    <2>5. Windowed(s, x.start, wstop, TRUE)
        BY <1>0, <1>1, <2>2, <2>3, <2>4, WindowedIs
    <2> QED BY <1>3, <1>5, <2>5
<1>6. CASE /\ ~x.processed /\ ~x.canceled
           /\ loop' = LoopIdle /\ Becomes(s, NextStep, FALSE)
           /\ missing' = missing
    <2>1. x.start + Step \in Nat /\ x.start <= x.start + Step
        BY <1>3, StepNat
    <2>2. NextStep \in SegType
        BY <1>1, <2>1 DEF SegType, NextStep
    <2>3. /\ NextStep.begin = x.begin /\ NextStep.pre = x.pre /\ NextStep.post = x.post
          /\ NextStep.end = x.end /\ NextStep.planned = x.planned
          /\ NextStep.canceled = x.canceled
          /\ NextStep.start = x.start /\ NextStep.stop = x.start + Step
          /\ NextStep.processed = (x.processed \/ FALSE)
        BY <1>1 DEF SegType, NextStep
    <2>4. Said(s, NextStep) \/ Unsaid(s, NextStep)
        BY <1>6 DEF Becomes, Said, Unsaid
    <2>5. Windowed(s, x.start, x.start + Step, FALSE)
        BY <1>0, <1>1, <2>2, <2>3, <2>4, WindowedIs
    <2> QED BY <1>3, <1>6, <2>1, <2>5
<1>7. CASE /\ ~x.processed /\ ~x.canceled /\ (is_open(x) \/ x.start < Border(x))
           /\ loop' = IF clip = <<>> THEN LoopIdle ELSE [at |-> "plan", s |-> s, clip |-> clip]
           /\ Becomes(s, ClipStep, none /\ x.planned = 0)
           /\ missing' = missing \cup {t \in x.start..(start - 1) : clip = <<>> \/ t < clip.b}
    <2>2. clip # <<>> => /\ clip \in Span /\ clip.b \in Nat /\ clip.e \in Nat
                         /\ clip.b >= x.start /\ clip.e >= wstop /\ x.start < wstop
        BY <1>1, <1>3, ClipFacts DEF clip, Span
    <2>3. start \in Nat
        BY <1>3, <2>2 DEF start
    <2>1. start + Step \in Nat /\ start <= start + Step
        BY <2>3, StepNat
    <2>4. last \in BOOLEAN /\ none = (clip = <<>> /\ last)
        BY DEF last, none
    <2>5. ClipStep \in SegType
        BY <1>1, <2>1, <2>3, <2>4 DEF SegType, ClipStep
    <2>6. /\ ClipStep.begin = x.begin /\ ClipStep.pre = x.pre /\ ClipStep.post = x.post
          /\ ClipStep.end = x.end /\ ClipStep.planned = x.planned
          /\ ClipStep.canceled = x.canceled
          /\ ClipStep.start = start /\ ClipStep.stop = start + Step
          /\ ClipStep.processed = last
        BY <1>1 DEF SegType, ClipStep
    <2>7. Said(s, ClipStep) \/ Unsaid(s, ClipStep)
        BY <1>7 DEF Becomes, Said, Unsaid
    <2>8. ClipStep.processed = (x.processed \/ last)
        <3>1. x.processed = FALSE
            BY <1>1, <1>7, SegFields
        <3> QED BY <2>4, <2>6, <3>1
    <2>9. Windowed(s, start, start + Step, last)
        BY <1>0, <1>1, <2>5, <2>6, <2>7, <2>8, WindowedIs
    <2>10. last => ~is_open(x) /\ start >= Border(x)
        <3>1. Border(x) \in Nat
            BY <1>1, SegFields DEF Border
        <3> QED BY <2>3, <3>1 DEF last
    <2>11. CASE clip = <<>>
        <3>1. /\ loop' = LoopIdle /\ start = wstop
              /\ missing' = missing \cup x.start..(start - 1)
            BY <1>7, <2>11 DEF start
        <3>2. x.start <= x.stop => x.start <= start
            BY <1>3, <1>7, <3>1
        <3>3. \E begin \in Nat, stop \in Nat, over \in BOOLEAN :
                 /\ Windowed(s, begin, stop, over)
                 /\ over => ~is_open(x) /\ begin >= Border(x)
                 /\ over \/ begin <= stop
                 /\ missing' = missing \cup x.start..(begin - 1)
                 /\ x.start <= x.stop => x.start <= begin
            BY <2>1, <2>3, <2>4, <2>9, <2>10, <3>1, <3>2
        <3> QED BY <1>7, <3>1, <3>3
    <2>12. CASE clip # <<>>
        <3>1. loop' = [at |-> "plan", s |-> s, clip |-> clip]
            BY <1>7, <2>12
        <3>2. loop'.at = "plan" /\ loop'.s = s /\ loop'.clip = clip
            BY <3>1
        <3>3. /\ start <= clip.e /\ x.start <= start
              /\ clip.e - clip.b <= MaxClip => start = clip.e
            <4>1. CASE clip.e - clip.b > MaxClip
                <5>1. start = wstop /\ MaxClip \in Nat
                    BY <4>1, SegmentAssumption DEF start
                <5> QED BY <1>3, <2>2, <2>12, <4>1, <5>1
            <4>2. CASE ~(clip.e - clip.b > MaxClip)
                <5>1. start = clip.e
                    BY <2>12, <4>2 DEF start
                <5> QED BY <1>3, <2>2, <2>12, <5>1
            <4> QED BY <4>1, <4>2
        <3>4. missing' = missing \cup {t \in x.start..(start - 1) : t < clip.b}
            BY <1>7, <2>12
        <3>5. StepClip(s, start, start + Step)
            BY <1>0, <2>2, <2>12, <3>2, <3>3, <3>4 DEF StepClip
        <3>6. \E begin \in Nat, stop \in Nat, over \in BOOLEAN :
                 /\ Windowed(s, begin, stop, over)
                 /\ over => ~is_open(x) /\ begin >= Border(x)
                 /\ over \/ begin <= stop
                 /\ StepClip(s, begin, stop)
            BY <2>1, <2>3, <2>4, <2>9, <2>10, <3>5
        <3> QED BY <1>7, <3>2, <3>6
    <2> QED BY <2>11, <2>12
<1> QED BY <1>4, <1>5, <1>6, <1>7, <1>9

\* plan_chunk(): the clip of a cancelled segmenter is dropped, any other is planned.
LEMMA PlanFacts ==
    ASSUME Types, plan_chunk
    PROVE  /\ loop.at = "plan" /\ loop.s \in Seg /\ loop.clip \in Span /\ loop' = LoopIdle
           /\ \A o \in Seg : Still(o)
           /\ seg'[loop.s].planned > 0
           /\ IF seg[loop.s].canceled THEN planned' = planned ELSE planned' = planned \cup Planning
           /\ UNCHANGED <<world, posted, segmenters_, reporting, cloud, from, missing,
                          endedEmpty, overtook, unadjusted, cutOpen>>
<1> DEFINE c == [s |-> loop.s, b |-> loop.clip.b, e |-> loop.clip.e]
           s == loop.s
           y == [seg[s] EXCEPT !.planned = @ + 1]
<1>1. /\ loop.at = "plan" /\ s \in Seg /\ loop.clip \in Span
      /\ seg \in [Seg -> SegType] /\ seg[s] \in SegType
    BY DEF plan_chunk, Types, TypeOK
<1>2. /\ loop' = LoopIdle /\ seg' = [seg EXCEPT ![s] = y]
      /\ planned' = IF seg[s].canceled THEN planned ELSE planned \cup {c}
      /\ UNCHANGED <<world, posted, segmenters_, reporting, cloud, from, missing,
                     endedEmpty, overtook, unadjusted, cutOpen>>
    BY <1>1 DEF plan_chunk
<1>3. Planning = {c}
    BY <1>1 DEF Planning
<1> HIDE DEF c
<1>4. seg[s].planned \in Nat
    BY <1>1, SegFields
<1>5. /\ y.begin = seg[s].begin /\ y.pre = seg[s].pre /\ y.post = seg[s].post
      /\ y.end = seg[s].end /\ y.start = seg[s].start /\ y.stop = seg[s].stop
      /\ y.processed = seg[s].processed /\ y.planned = seg[s].planned + 1
      /\ y.canceled = seg[s].canceled
    BY <1>1 DEF SegType
<1> HIDE DEF y
<1>6. seg'[s] = y /\ \A o \in Seg : o # s => seg'[o] = seg[o]
    BY <1>1, <1>2
<1>7. Still(s) /\ seg'[s].planned > 0
    BY <1>4, <1>5, <1>6 DEF Still, Grows
<1>8. \A o \in Seg : o # s => Still(o)
    BY <1>1, <1>6, StillSame
<1> QED BY <1>1, <1>2, <1>3, <1>7, <1>8

\* schedule_upload(): one unused segmenter gets its request.
LEMMA AskedFacts ==
    ASSUME Types, Schedules
    PROVE  /\ UNCHANGED <<world, segmenters_, finalizing, canceling, loop, traffic, planned,
                          missing, endedEmpty, overtook, unadjusted, cutOpen>>
           /\ \E s \in Seg : \E r \in Request[s] :
                /\ ~Used(s) /\ seg'[s] = Segmenter(r) /\ from'[s] = Segmenter(r).start
                /\ delayed' = delayed \cup {s}
                /\ \A o \in Seg : o # s => seg'[o] = seg[o] /\ from'[o] = from[o]
<1>1. PICK s \in Seg : \E r \in Request[s] : schedule_upload(s, r)
    BY DEF Schedules
<1>2. PICK r \in Request[s] : schedule_upload(s, r)
    BY <1>1
<1>3. seg \in [Seg -> SegType] /\ from \in [Seg -> Nat]
    BY DEF Types, TypeOK
<1>4. /\ seg' = [seg EXCEPT ![s] = Segmenter(r)] /\ ~Used(s)
      /\ from' = [from EXCEPT ![s] = Segmenter(r).start]
      /\ delayed' = delayed \cup {s}
      /\ UNCHANGED <<world, segmenters_, finalizing, canceling, loop, traffic, planned,
                     missing, endedEmpty, overtook, unadjusted, cutOpen>>
    BY <1>2 DEF schedule_upload
<1> QED BY <1>3, <1>4

\* __segmenter_enqueue() changes the list, and nothing of a segmenter.
LEMMA EnqueuesFacts ==
    ASSUME Enqueues
    PROVE  /\ UNCHANGED <<world, account, finalizing, canceling, loop, traffic, from, planned,
                   missing, endedEmpty, unadjusted, cutOpen>>
           /\ overtook \subseteq overtook'
BY DEF Enqueues, __segmenter_enqueue

\* Whatever the step, no segmenter in use loses anything, nor does any observation.
LEMMA Onward ==
    ASSUME Types, EndInv, [Next]_vars
    PROVE  /\ \A o \in Seg : Used(o) => /\ seg'[o].begin # Null /\ from'[o] = from[o]
                                        /\ Grows(o)
           /\ missing \subseteq missing' /\ planned \subseteq planned'
           /\ overtook \subseteq overtook' /\ unadjusted \subseteq unadjusted'
           /\ cutOpen \subseteq cutOpen'
<1>0. TypeOK /\ seg \in [Seg -> SegType]
    BY DEF Types, TypeOK
<1>0a. \A o \in Seg : Still(o) => Grows(o)
    BY DEF Still
<1>0b. \A o \in Seg : Grows(o) /\ Used(o) => seg'[o].begin # Null
    BY DEF Grows, Used
<1>1. CASE Quiet
    <2>1. \A o \in Seg : Grows(o)
        BY <1>0a, <1>1, QuietStill
    <2>2. UNCHANGED observed
        BY <1>1, QuietStill
    <2> QED BY <1>0b, <2>1, <2>2 DEF observed
<1>2. CASE Schedules
    <2>1. \A o \in Seg : Used(o) => Still(o) /\ from'[o] = from[o]
        BY <1>0, <1>2, AskedFacts, StillSame
    <2>2. UNCHANGED <<planned, missing, endedEmpty, overtook, unadjusted, cutOpen>>
        BY <1>2, AskedFacts
    <2> QED BY <1>0a, <1>0b, <2>1, <2>2
<1>3. CASE Enqueues
    <2>1. \A o \in Seg : Still(o)
        BY <1>0, <1>3, EnqueuesFacts, StillSame DEF account
    <2> QED BY <1>0a, <1>0b, <1>3, <2>1, EnqueuesFacts
<1>4. CASE plan_chunk
    <2>1. \A o \in Seg : Still(o)
        BY <1>4, PlanFacts
    <2>2. planned \subseteq planned'
        BY <1>4, PlanFacts
    <2> QED BY <1>0a, <1>0b, <1>4, <2>1, <2>2, PlanFacts
<1>5. CASE __adjust_segmenters_current_to_finished
    <2>1. \A o \in Seg : Grows(o)
        BY <1>0, <1>0a, <1>5, AdjustFacts, WindowedGrows, StillSame
    <2>2. UNCHANGED observed
        BY <1>5, AdjustFacts
    <2> QED BY <1>0b, <2>1, <2>2 DEF observed
<1>6. ASSUME NEW ok \in BOOLEAN, __check_clip_segment(ok)
      PROVE  /\ \A o \in Seg : Grows(o)
             /\ UNCHANGED <<from, planned, missing, overtook>>
             /\ unadjusted \subseteq unadjusted' /\ cutOpen \subseteq cutOpen'
    <2>1. \A o \in Seg : Grows(o)
        BY <1>0, <1>0a, <1>6, CheckFacts, WindowedGrows, StillSame
    <2>2. UNCHANGED <<from, planned, missing, overtook>>
        BY <1>6, CheckFacts
    <2>3. unadjusted \subseteq unadjusted' /\ cutOpen \subseteq cutOpen'
        BY <1>6, CheckFacts
    <2> QED BY <2>1, <2>2, <2>3
<1>7. CASE __segment_step
    <2>1. \A o \in Seg : Grows(o)
        BY <1>0, <1>0a, <1>7, StepFacts, WindowedGrows, StillSame
    <2>2. UNCHANGED <<from, planned, overtook, unadjusted, cutOpen>>
        BY <1>7, StepFacts
    <2>3. missing \subseteq missing'
        BY <1>7, StepFacts DEF StepClip
    <2> QED BY <1>0b, <2>1, <2>2, <2>3
<1> QED BY <1>0b, <1>1, <1>2, <1>3, <1>4, <1>5, <1>6, <1>7, StepKinds

\* EndInv is inductive: finalize_upload() is refused once there is an end.
LEMMA EndStep == Types /\ EndInv /\ [Next]_vars => EndInv'
<1> SUFFICES ASSUME Types, EndInv, [Next]_vars, NEW s \in Seg, finalizing'[s] # Null
             PROVE  seg'[s].begin # Null /\ (seg'[s].end = Null \/ seg'[s].end = finalizing'[s])
    BY DEF EndInv, Used, is_open
<1>0. /\ seg \in [Seg -> SegType] /\ finalizing \in [Seg -> Nat]
    BY DEF Types, TypeOK
<1>1. ASSUME finalizing'[s] = finalizing[s], Used(s) => seg'[s].end = seg[s].end
      PROVE  seg'[s].begin # Null /\ (seg'[s].end = Null \/ seg'[s].end = finalizing'[s])
    <2>1. Used(s) /\ (seg[s].end = Null \/ seg[s].end = finalizing[s])
        BY <1>1 DEF EndInv, is_open
    <2>2. seg'[s].begin # Null
        BY <2>1, Onward
    <2> QED BY <1>1, <2>1, <2>2
<1>2. ASSUME NEW o \in Seg, NEW t \in EndTime, NEW now \in BOOLEAN, finalize_upload(o, t, now)
      PROVE  seg'[s].begin # Null /\ (seg'[s].end = Null \/ seg'[s].end = finalizing'[s])
    <2>1. /\ Used(o) /\ is_open(seg[o])
          /\ seg' = (IF now THEN [seg EXCEPT ![o].end = t] ELSE seg)
          /\ finalizing' = [finalizing EXCEPT ![o] = t]
        BY <1>2 DEF finalize_upload
    <2>2. CASE s # o
        BY <1>0, <1>1, <2>1, <2>2
    <2>3. CASE s = o
        <3>1. finalizing'[s] = t
            BY <1>0, <2>1, <2>3
        <3>2. seg'[s].end = t \/ seg'[s].end = Null
            <4>1. seg'[s] = [seg[s] EXCEPT !.end = t] \/ seg'[s] = seg[s]
                BY <1>0, <2>1, <2>3
            <4>2. seg[s] \in SegType
                BY <1>0
            <4> QED BY <2>1, <2>3, <4>1, <4>2 DEF SegType, is_open
        <3>3. seg'[s].begin # Null
            BY <2>1, <2>3, Onward
        <3> QED BY <3>1, <3>2, <3>3
    <2> QED BY <2>2, <2>3
<1>3. ASSUME NEW o \in Seg, __segmenter_finalize(o)
      PROVE  seg'[s].begin # Null /\ (seg'[s].end = Null \/ seg'[s].end = finalizing'[s])
    <2>1. /\ seg' = [seg EXCEPT ![o].end = finalizing[o]]
          /\ finalizing' = [finalizing EXCEPT ![o] = Null]
        BY <1>3 DEF __segmenter_finalize
    <2>2. s # o
        BY <1>0, <2>1
    <2> QED BY <1>0, <1>1, <2>1, <2>2
<1>4. CASE Quiet
    <2>1. CASE \/ \E o \in Seg : cancel_upload(o) \/ __segmenter_cancel_by_ticket(o)
               \/ \E c \in chunks, ok \in BOOLEAN : on_finished(c, ok)
               \/ \E c \in chunks : drop_canceled(c)
               \/ \E r \in reporting : Reported(r)
               \/ UNCHANGED vars
        <3>1. finalizing' = finalizing
            BY <2>1 DEF cancel_upload, __segmenter_cancel_by_ticket, on_finished,
               drop_canceled, Reported, vars, posted
        <3>2. seg'[s].end = seg[s].end
            <4>1. CASE \E r \in reporting : Reported(r)
                <5>1. PICK r \in reporting : Reported(r)
                    BY <4>1
                <5>2. r.c.s \in Seg /\ TypeOK
                    BY DEF Types, TypeOK, ChunkType
                <5>3. PICK x \in SegType : /\ Said(r.c.s, x) \/ Unsaid(r.c.s, x)
                                           /\ x.end = seg[r.c.s].end
                    BY <5>1, <5>2, ReportTurn
                <5>4. Became(r.c.s, x)
                    BY <5>2, <5>3, BecomesFacts
                <5> QED BY <5>3, <5>4 DEF Became
            <4>2. CASE \E o \in Seg : __segmenter_cancel_by_ticket(o)
                <5>1. PICK o \in Seg : \/ seg' = seg
                                       \/ seg' = [seg EXCEPT ![o].canceled = TRUE,
                                                  ![o].processed = TRUE, ![o].finished = TRUE]
                    BY <4>2 DEF __segmenter_cancel_by_ticket
                <5>2. seg[s] \in SegType
                    BY <1>0
                <5> QED BY <1>0, <5>1, <5>2 DEF SegType
            <4> QED BY <2>1, <4>1, <4>2 DEF cancel_upload, on_finished, drop_canceled, vars,
                    account
        <3> QED BY <1>1, <3>1, <3>2
    <2> QED BY <1>2, <1>3, <1>4, <2>1 DEF Quiet, QuietPosted
<1>5. CASE Schedules
    <2>1. /\ finalizing' = finalizing
          /\ Used(s) => seg'[s] = seg[s]
        BY <1>5, AskedFacts
    <2> QED BY <1>1, <2>1
<1>6. CASE Enqueues
    BY <1>1, <1>6, EnqueuesFacts DEF account
<1>7. CASE plan_chunk
    <2>1. finalizing' = finalizing
        BY <1>7, PlanFacts DEF posted
    <2>2. seg'[s].end = seg[s].end
        BY <1>0, <1>7 DEF plan_chunk, SegType
    <2> QED BY <1>1, <2>1, <2>2
<1>8. ASSUME finalizing' = finalizing,
             \/ seg' = seg
             \/ \E c \in Seg : \E start, stop, over : Windowed(c, start, stop, over)
      PROVE  seg'[s].begin # Null /\ (seg'[s].end = Null \/ seg'[s].end = finalizing'[s])
    BY <1>1, <1>8 DEF Windowed
<1>9. CASE __adjust_segmenters_current_to_finished
    BY <1>8, <1>9, AdjustFacts DEF posted
<1>10. CASE \E ok \in BOOLEAN : __check_clip_segment(ok)
    BY <1>8, <1>10, CheckFacts DEF posted
<1>11. CASE __segment_step
    BY <1>8, <1>11, StepFacts DEF posted
<1> QED BY <1>4, <1>5, <1>6, <1>7, <1>9, <1>10, <1>11, StepKinds

-----------------------------------------------------------------------------
(***************************************************************************)
(* No time is skipped.                                                     *)
(***************************************************************************)
\* What is on its way was planned, and what the Cloud has was there from elsewhere or was
\* planned.
CloudInv ==
    /\ chunks \subseteq planned
    /\ \A p \in cloud : p \in Stored \/ \E c \in planned : p = [b |-> c.b, e |-> c.e]

\* It is inductive: on_finished() adds the period of a chunk on its way, and no other.
LEMMA CloudStep == Types /\ EndInv /\ CloudInv /\ [Next]_vars => CloudInv'
<1> SUFFICES ASSUME Types, EndInv, CloudInv, [Next]_vars PROVE CloudInv'
    OBVIOUS
<1>1. planned \subseteq planned'
    BY Onward
<1>2. ASSUME chunks' \subseteq chunks, cloud' = cloud PROVE CloudInv'
    BY <1>1, <1>2 DEF CloudInv
<1>3. CASE Quiet
    <2>1. ASSUME NEW c \in chunks, NEW ok \in BOOLEAN, on_finished(c, ok) PROVE CloudInv'
        <3>1. chunks' \subseteq chunks /\ cloud' \subseteq cloud \cup {[b |-> c.b, e |-> c.e]}
            BY <2>1 DEF on_finished
        <3>2. c \in planned
            BY DEF CloudInv
        <3> QED BY <1>1, <3>1, <3>2 DEF CloudInv
    <2>2. ASSUME NEW s \in Seg, QuietPosted(s) PROVE CloudInv'
        BY <1>2, <2>2 DEF QuietPosted, finalize_upload, cancel_upload, __segmenter_finalize,
           __segmenter_cancel_by_ticket, traffic
    <2>3. CASE \/ \E c \in chunks : drop_canceled(c)
               \/ \E r \in reporting : Reported(r)
               \/ UNCHANGED vars
        BY <1>2, <2>3 DEF drop_canceled, Reported, vars, traffic
    <2> QED BY <1>3, <2>1, <2>2, <2>3 DEF Quiet
<1>4. CASE Schedules \/ Enqueues
    BY <1>2, <1>4, AskedFacts, EnqueuesFacts DEF traffic
<1>5. CASE plan_chunk
    BY <1>1, <1>5 DEF plan_chunk, CloudInv
<1>6. CASE \/ __adjust_segmenters_current_to_finished
           \/ \E ok \in BOOLEAN : __check_clip_segment(ok)
           \/ __segment_step
    BY <1>2, <1>6, AdjustFacts, CheckFacts, StepFacts DEF traffic
<1> QED BY <1>3, <1>4, <1>5, <1>6, StepKinds

\* A processed segmenter is in use, and unless it was cancelled or cut open (its request
\* still had no end) its window has passed its end and post.
PastInv ==
    \A s \in Seg : seg[s].processed =>
        /\ Used(s)
        /\ ~seg[s].canceled /\ s \notin cutOpen =>
              ~is_open(seg[s]) /\ seg[s].start >= Border(seg[s])

\* __get_current() gives a listed segmenter that is not over.
LEMMA CurrentListed ==
    ASSUME Types, Current \in Seg
    PROVE  /\ Current \in ToSet(segmenters_) /\ Used(Current)
           /\ ~seg[Current].canceled /\ ~seg[Current].processed
<1>1. NoSeg \notin Seg
    BY SegmentAssumption
<1>2. segmenters_ \in Seq(Seg)
    BY DEF Types, TypeOK
<1> QED BY <1>1, <1>2, CurrentFacts DEF Types, UsedInv

\* It is inductive: only the three steps of the loop process a segmenter that is not
\* cancelled, and each has compared the window with the end; EndInv keeps the end.
LEMMA PastStep == Types /\ EndInv /\ PastInv /\ [Next]_vars => PastInv'
<1> SUFFICES ASSUME Types, EndInv, PastInv, [Next]_vars, NEW s \in Seg, seg'[s].processed
             PROVE  /\ seg'[s].begin # Null
                    /\ ~seg'[s].canceled /\ s \notin cutOpen' =>
                          ~is_open(seg'[s]) /\ seg'[s].start >= Border(seg'[s])
    BY DEF PastInv, Used
<1> DEFINE Goal == /\ seg'[s].begin # Null
                   /\ ~seg'[s].canceled /\ s \notin cutOpen' =>
                          ~is_open(seg'[s]) /\ seg'[s].start >= Border(seg'[s])
<1>0. /\ TypeOK /\ seg \in [Seg -> SegType]
      /\ cutOpen \subseteq cutOpen'
      /\ Used(s) => seg'[s].begin # Null /\ Grows(s)
      /\ seg[s].processed => Used(s)
    BY Onward DEF Types, TypeOK, PastInv
<1>1. ASSUME Used(s), Still(s) PROVE Goal
    <2>1. seg[s].processed \/ seg'[s].canceled
        BY <1>1 DEF Still
    <2>2. ~seg'[s].canceled /\ s \notin cutOpen' =>
             seg'[s].end = seg[s].end /\ seg[s].start >= Border(seg[s]) /\ ~is_open(seg[s])
        BY <1>0, <1>1, <2>1 DEF PastInv, Still, Grows
    <2>3. seg'[s].start = seg[s].start /\ seg'[s].post = seg[s].post
        BY <1>1 DEF Still, Grows
    <2> QED BY <1>0, <1>1, <2>2, <2>3 DEF Border, is_open
<1>2. ASSUME NEW c \in Seg, Used(c), ~seg[c].processed, ~seg[c].canceled, NEW start, NEW stop,
             NEW over, Windowed(c, start, stop, over),
             over => \/ ~is_open(seg[c]) /\ start >= Border(seg[c])
                     \/ c \in cutOpen'
      PROVE  Goal
    <2>1. CASE s # c
        <3>1. seg'[s] = seg[s]
            BY <1>2, <2>1 DEF Windowed
        <3>2. Still(s)
            BY <1>0, <3>1, StillSame
        <3> QED BY <1>0, <1>1, <3>1, <3>2
    <2>2. CASE s = c
        <3>1. over
            BY <1>2, <2>2 DEF Windowed
        <3>2. /\ seg'[s].start = start /\ seg'[s].end = seg[s].end /\ seg'[s].post = seg[s].post
              /\ seg'[s].begin # Null
            BY <1>0, <1>2, <2>2 DEF Windowed
        <3>3. s \in cutOpen' \/ (~is_open(seg[s]) /\ start >= Border(seg[s]))
            BY <1>2, <2>2, <3>1
        <3> QED BY <3>2, <3>3 DEF Border, is_open
    <2> QED BY <2>1, <2>2
<1>3. ASSUME seg'[s] = seg[s] PROVE Goal
    <2>1. Used(s)
        BY <1>0, <1>3
    <2> QED BY <1>0, <1>1, <1>3, <2>1, StillSame
<1>4. ASSUME Still(s) PROVE Goal
    <2>1. Used(s)
        BY <1>0, <1>4 DEF Still
    <2> QED BY <1>1, <1>4, <2>1
<1> HIDE DEF Goal
<1> SUFFICES Goal
    BY DEF Goal
<1>5. CASE Schedules
    <2>1. PICK o \in Seg : \E r \in Request[o] :
                /\ seg'[o] = Segmenter(r)
                /\ \A u \in Seg : u # o => seg'[u] = seg[u]
        BY <1>5, AskedFacts
    <2>2. s # o
        BY <2>1, SegmenterType
    <2> QED BY <1>3, <2>1, <2>2
<1>6. CASE Enqueues
    BY <1>3, <1>6, EnqueuesFacts DEF account
<1>7. CASE __adjust_segmenters_current_to_finished
    <2>1. CASE seg' = seg
        BY <1>3, <2>1
    <2>2. CASE Current \in Seg /\ seg' # seg
        <3>1. PICK w \in WindowType : /\ ShiftSound(w, Current, Purged, Len(Purged))
                                      /\ Windowed(Current, w.start, w.stop, w.over)
            BY <1>7, <2>2, AdjustFacts
        <3>2. w.over => ~is_open(seg[Current]) /\ w.start >= Border(seg[Current])
            BY <3>1 DEF ShiftSound
        <3> QED BY <1>2, <2>2, <3>1, <3>2, CurrentListed
    <2> QED BY <1>7, <2>1, <2>2, AdjustFacts
<1>8. ASSUME NEW ok \in BOOLEAN, __check_clip_segment(ok) PROVE Goal
    <2>1. CASE seg' = seg
        BY <1>3, <2>1
    <2>2. CASE Current \in Seg /\ seg' # seg
        <3>1. PICK w \in TrimType :
                 /\ TrimSound(w, seg[Current], slices(seg[Current], ok),
                              Len(slices(seg[Current], ok)))
                 /\ Windowed(Current, w.start, w.stop, w.over)
                 /\ cutOpen' = cutOpen \cup {u \in {Current} : w.over /\ is_open(seg[Current])}
            BY <1>8, <2>2, CheckFacts
        <3>2. w.over => w.start >= Border(seg[Current])
            <4>1. w.start \in Nat /\ seg[Current].end \in Nat /\ seg[Current].post \in Nat
                BY <1>0, <2>2, SegFields DEF TrimType
            <4> QED BY <3>1, <4>1 DEF TrimSound, Border
        <3>3. w.over => \/ ~is_open(seg[Current]) /\ w.start >= Border(seg[Current])
                        \/ Current \in cutOpen'
            BY <3>1, <3>2
        <3> QED BY <1>2, <2>2, <3>1, <3>3, CurrentListed
    <2> QED BY <1>8, <2>1, <2>2, CheckFacts
<1>9. CASE __segment_step
    <2>1. CASE seg' = seg
        BY <1>3, <2>1
    <2>2. CASE seg' # seg
        <3>1. /\ loop.s \in Seg /\ ~seg[loop.s].processed /\ ~seg[loop.s].canceled
              /\ loop.at = "step"
            BY <1>9, <2>2, StepFacts
        <3>2. PICK start \in Nat, stop \in Nat, over \in BOOLEAN :
                      /\ Windowed(loop.s, start, stop, over)
                      /\ over => ~is_open(seg[loop.s]) /\ start >= Border(seg[loop.s])
            BY <1>9, <2>2, StepFacts
        <3>3. Used(loop.s)
            BY <3>1 DEF Types, UsedInv
        <3> QED BY <1>2, <3>1, <3>2, <3>3
    <2> QED BY <2>1, <2>2
<1>12. CASE Quiet \/ plan_chunk
    BY <1>4, <1>12, QuietStill, PlanFacts
<1> QED BY <1>5, <1>6, <1>7, <1>8, <1>9, <1>12, StepKinds

\* t is missing from the recording, in the Cloud, or in a planned chunk;
IsSettled(t) == t \in missing \/ \E p \in Stored \cup planned : t \in Times(p)
\* t is in the clip of s that is about to be planned;
InPlan(s, t) == loop.at = "plan" /\ loop.s = s /\ t \in Times(loop.clip)
\* no segmenter in use began later than t.
LastFrom(t) == \A o \in Seg : Used(o) => from[o] <= t
\* All that lies behind the window of a segmenter, from the latest first window on, is
\* settled or in the clip just cut. This is NothingSkipped while the segmenter still runs.
\* Without LastFrom it would be false: the window jumps to the start of a processed
\* segmenter, and what that one never wanted is not behind it.
BehindInv ==
    \A s \in Seg : Used(s) /\ ~seg[s].canceled =>
        \A t \in Nat : t < seg[s].start /\ LastFrom(t) => IsSettled(t) \/ InPlan(s, t)

\* __purge_segmenters() keeps segmenters in use that are not cancelled.
LEMMA PurgedMembers ==
    ASSUME Types, NEW i \in 1..Len(Purged)
    PROVE  Purged[i] \in Seg /\ Used(Purged[i]) /\ ~seg[Purged[i]].canceled
           /\ Purged[i] \in ToSet(segmenters_)
<1>1. /\ segmenters_ \in Seq(Seg)
      /\ \A s \in ToSet(segmenters_) : s \in Seg /\ Used(s)
    BY DEF Types, TypeOK, UsedInv, ToSet
<1>2. Purged \in Seq(Seg) /\ ToSet(Purged) \subseteq ToSet(segmenters_)
    BY <1>1, PurgedFacts
<1>3. Purged[i] \in ToSet(Purged)
    BY <1>2 DEF ToSet
<1>4. ToSet(Purged) \subseteq {segmenters_[j] : j \in Kept}
    <2> DEFINE finished == {j \in Kept : seg[segmenters_[j]].finished}
               lead == {j \in finished : \A k \in Kept : k <= j => seg[segmenters_[k]].processed}
               freed == {j \in finished :
                           Cardinality({k \in finished : k <= j}) <= Cardinality(lead) \div 2}
               S == {segmenters_[j] : j \in Kept \ freed}
    <2>1. Purged = Only(segmenters_, S)
        BY Zenon DEF Purged
    <2>2. S \subseteq {segmenters_[j] : j \in Kept}
        OBVIOUS
    <2> HIDE DEF S
    <2>3. ToSet(Only(segmenters_, S)) = ToSet(segmenters_) \cap S
        BY <1>1, OnlyFacts
    <2> QED BY <2>1, <2>2, <2>3
<1>5. \A j \in Kept : ~seg[segmenters_[j]].canceled
    BY DEF Kept
<1> QED BY <1>1, <1>2, <1>3, <1>4, <1>5

\* What slices() takes from the Cloud is settled.
LEMMA SliceSettled ==
    ASSUME Types, CloudInv, NEW x, NEW ok, NEW i \in 1..Len(slices(x, ok)),
           NEW t \in Nat, t \in Times(slices(x, ok)[i])
    PROVE  IsSettled(t)
<1> DEFINE P == {p \in cloud : Meets(p, x.start, x.stop)}
           q == slices(x, ok)
<1>1. P \subseteq cloud /\ cloud \in SUBSET Span /\ IsFiniteSet(cloud)
    BY DEF Types, TypeOK, FiniteInv
<1>2. ok
    <2>1. ~ok => Len(q) = 0
        BY DEF slices
    <2> QED BY <2>1
<1>3. q = _squash_periods(P)
    BY <1>2 DEF slices
<1> HIDE DEF P
<1>4. P \in SUBSET Span /\ IsFiniteSet(P)
    BY <1>1, FS_Subset
<1>5. \A u \in Int : InList(u, q) <=> \E p \in P : u \in Times(p)
    BY <1>3, <1>4, SquashIs
<1>6. InList(t, q)
    BY DEF InList
<1> HIDE DEF q
<1>7. PICK p \in cloud : t \in Times(p)
    BY <1>1, <1>5, <1>6
<1>8. CASE p \in Stored
    BY <1>7, <1>8 DEF IsSettled
<1>9. CASE p \notin Stored
    <2>1. PICK c \in planned : p = [b |-> c.b, e |-> c.e]
        BY <1>9 DEF CloudInv
    <2>2. t \in Times(c)
        BY <1>7, <2>1 DEF Times
    <2> QED BY <2>2 DEF IsSettled
<1> QED BY <1>8, <1>9

\* It is inductive. Adjusting moves the window to another's, all behind which is settled
\* (its clip is planned, as the loop is not in between); checking moves it over settled
\* periods; a step moves it over the clip it cuts or over what it notes as missing.
LEMMA BehindStep ==
    Types /\ EndInv /\ CloudInv /\ BehindInv /\ [Next]_vars => BehindInv'
<1> SUFFICES ASSUME Types, EndInv, CloudInv, BehindInv, [Next]_vars, NEW s \in Seg,
                    seg'[s].begin # Null, ~seg'[s].canceled, NEW t \in Nat,
                    t < seg'[s].start, LastFrom(t)'
             PROVE  IsSettled(t)' \/ InPlan(s, t)'
    BY DEF BehindInv, Used
<1> DEFINE Goal == IsSettled(t)' \/ InPlan(s, t)'
<1>0. /\ TypeOK /\ seg \in [Seg -> SegType]
      /\ \A o \in Seg : seg[o].start \in Nat
    BY SegFields DEF Types, TypeOK
<1>1. IsSettled(t) => IsSettled(t)'
    BY Onward DEF IsSettled
<1>2. LastFrom(t)
    BY Onward DEF LastFrom, Used
<1>3. \A o \in Seg : Used(o) /\ ~seg[o].canceled /\ t < seg[o].start =>
          IsSettled(t) \/ InPlan(o, t)
    BY <1>2 DEF BehindInv
<1>4. ASSUME Used(s), ~seg[s].canceled, t < seg[s].start, InPlan(s, t) => Goal
      PROVE  Goal
    BY <1>1, <1>3, <1>4
<1>5. ASSUME Still(s), Used(s), InPlan(s, t) => Goal PROVE Goal
    BY <1>4, <1>5 DEF Still, Grows
<1>6. ASSUME Still(s), InPlan(s, t) => Goal PROVE Goal
    <2>1. Used(s)
        BY <1>6 DEF Still, Grows, Used
    <2> QED BY <1>5, <1>6, <2>1
<1>7. loop' = loop => (InPlan(s, t) => InPlan(s, t)')
    BY DEF InPlan
<1>8. ASSUME loop.at # "plan", NEW c \in Seg, NEW start \in Nat, NEW stop, NEW over,
             Windowed(c, start, stop, over), Used(c), ~seg[c].canceled,
             s = c /\ seg[c].start <= t /\ t < start => Goal
      PROVE  Goal
    <2>1. ~InPlan(s, t)
        BY <1>8 DEF InPlan
    <2>2. CASE s # c
        <3>1. seg'[s] = seg[s]
            BY <1>8, <2>2 DEF Windowed
        <3>2. Still(s)
            BY <1>0, <3>1, StillSame
        <3> QED BY <1>6, <2>1, <3>2
    <2>3. CASE s = c
        <3>1. t < start
            BY <1>8, <2>3 DEF Windowed
        <3>2. CASE t < seg[s].start
            BY <1>4, <1>8, <2>1, <2>3, <3>2
        <3>3. CASE ~(t < seg[s].start)
            BY <1>0, <1>8, <2>3, <3>1, <3>3
        <3> QED BY <3>2, <3>3
    <2> QED BY <2>2, <2>3
<1>9. ASSUME seg' = seg, loop.at # "plan" PROVE Goal
    BY <1>0, <1>6, <1>9, StillSame DEF InPlan
<1> HIDE DEF Goal
<1> SUFFICES Goal
    BY DEF Goal
<1>10. CASE Quiet
    BY <1>6, <1>7, <1>10, QuietStill DEF Goal
<1>11. CASE Enqueues
    <2>1. Still(s) /\ loop' = loop
        BY <1>0, <1>11, EnqueuesFacts, StillSame DEF account
    <2> QED BY <1>6, <1>7, <2>1 DEF Goal
<1>12. CASE Schedules
    <2>1. PICK o \in Seg : \E r \in Request[o] :
                /\ seg'[o] = Segmenter(r) /\ from'[o] = Segmenter(r).start
                /\ \A u \in Seg : u # o => seg'[u] = seg[u]
        BY <1>12, AskedFacts
    <2>2. loop' = loop
        BY <1>12, AskedFacts
    <2>3. s # o
        <3>1. SUFFICES ASSUME s = o PROVE FALSE
            OBVIOUS
        <3>2. from'[s] <= t
            BY DEF LastFrom, Used
        <3>3. from'[s] = seg'[s].start /\ seg'[s].start \in Nat
            BY <2>1, <3>1, SegmenterType, SegFields
        <3> QED BY <3>2, <3>3
    <2>4. Still(s)
        BY <1>0, <2>1, <2>3, StillSame
    <2> QED BY <1>6, <1>7, <2>2, <2>4 DEF Goal
<1>13. CASE plan_chunk
    <2>1. Still(s)
        BY <1>13, PlanFacts
    <2>2. ASSUME InPlan(s, t) PROVE Goal
        <3>1. loop.at = "plan" /\ loop.s = s /\ t \in Times(loop.clip)
            BY <2>2 DEF InPlan
        <3>2. ~seg[s].canceled
            BY <2>1 DEF Still, Grows
        <3>3. planned' = planned \cup Planning
            BY <1>13, <3>1, <3>2, PlanFacts
        <3>4. \E c \in Planning : t \in Times(c)
            BY <3>1 DEF Planning, Times
        <3>5. IsSettled(t)'
            BY <3>3, <3>4 DEF IsSettled
        <3> QED BY <3>5 DEF Goal
    <2> QED BY <1>6, <2>1, <2>2
<1>14. CASE __adjust_segmenters_current_to_finished
    <2>0. loop.at # "plan"
        BY <1>14, AdjustFacts
    <2>1. CASE seg' = seg
        BY <1>9, <2>0, <2>1
    <2>2. CASE Current \in Seg /\ seg' # seg
        <3>1. PICK w \in WindowType : /\ ShiftSound(w, Current, Purged, Len(Purged))
                                      /\ Windowed(Current, w.start, w.stop, w.over)
            BY <1>14, <2>2, AdjustFacts
        <3>2. w.start \in Nat
            BY DEF WindowType
        <3>3. ASSUME s = Current, seg[Current].start <= t, t < w.start PROVE Goal
            <4>1. PICK i \in 1..Len(Purged) : w.start = seg[Purged[i]].start
                BY <1>0, <2>2, <3>1, <3>2, <3>3 DEF ShiftSound
            <4>2. Purged[i] \in Seg /\ Used(Purged[i]) /\ ~seg[Purged[i]].canceled
                BY PurgedMembers
            <4>3. IsSettled(t)
                BY <1>3, <2>0, <3>3, <4>1, <4>2 DEF InPlan
            <4> QED BY <1>1, <4>3 DEF Goal
        <3> QED BY <1>8, <2>0, <2>2, <3>1, <3>2, <3>3, CurrentListed
    <2> QED BY <1>14, <2>1, <2>2, AdjustFacts
<1>15. ASSUME NEW ok \in BOOLEAN, __check_clip_segment(ok) PROVE Goal
    <2>0. loop.at # "plan"
        BY <1>15, CheckFacts
    <2>1. CASE seg' = seg
        BY <1>9, <2>0, <2>1
    <2>2. CASE Current \in Seg /\ seg' # seg
        <3> DEFINE q == slices(seg[Current], ok)
        <3>1. PICK w \in TrimType : /\ TrimSound(w, seg[Current], q, Len(q))
                                    /\ Windowed(Current, w.start, w.stop, w.over)
            BY <1>15, <2>2, CheckFacts
        <3>2. w.start \in Nat
            BY DEF TrimType
        <3>3. ASSUME s = Current, seg[Current].start <= t, t < w.start PROVE Goal
            <4>1. PICK i \in 1..Len(q) : t \in Times(q[i])
                BY <3>1, <3>3 DEF TrimSound
            <4>2. IsSettled(t)
                BY <4>1, SliceSettled
            <4> QED BY <1>1, <4>2 DEF Goal
        <3> QED BY <1>8, <2>0, <2>2, <3>1, <3>2, <3>3, CurrentListed
    <2> QED BY <1>15, <2>1, <2>2, CheckFacts
<1>16. CASE __segment_step
    <2>0. loop.at = "step" /\ loop.s \in Seg
        BY <1>16, StepFacts
    <2>1. CASE seg' = seg
        BY <1>9, <2>0, <2>1
    <2>2. CASE seg' # seg
        <3> DEFINE c == loop.s
        <3>1. ~seg[c].canceled
            BY <1>16, <2>2, StepFacts
        <3>2. PICK start \in Nat, stop \in Nat, over \in BOOLEAN :
                /\ Windowed(c, start, stop, over)
                /\ \/ start = seg[c].start
                   \/ missing' = missing \cup seg[c].start..(start - 1)
                   \/ loop'.at = "plan" /\ StepClip(c, start, stop)
            BY <1>16, <2>2, StepFacts
        <3>3. Used(c)
            BY <2>0 DEF Types, UsedInv
        <3>4. loop' = LoopIdle \/ (loop'.at = "plan" /\ loop'.s = c)
            BY <1>16, StepFacts
        <3> HIDE DEF c
        <3>5. ASSUME s = c, seg[c].start <= t, t < start PROVE Goal
            <4>0. c \in Seg /\ seg[c].start \in Nat
                BY <1>0, <3>5
            <4>1. t \in seg[c].start..(start - 1)
                BY <3>5, <4>0
            <4>2. CASE start = seg[c].start
                BY <3>5, <4>0, <4>2
            <4>3. CASE missing' = missing \cup seg[c].start..(start - 1)
                BY <4>1, <4>3 DEF IsSettled, Goal
            <4>4. CASE loop'.at = "plan" /\ StepClip(c, start, stop)
                <5>1. loop'.s = c
                    BY <3>4, <4>4 DEF LoopIdle
                <5>2. loop'.clip.b \in Nat /\ loop'.clip.e \in Nat
                    BY <4>4 DEF StepClip, Span
                <5>3. CASE t < loop'.clip.b
                    BY <4>1, <4>4, <5>3 DEF StepClip, IsSettled, Goal
                <5>4. CASE ~(t < loop'.clip.b)
                    <6>1. start <= loop'.clip.e
                        BY <4>4 DEF StepClip
                    <6>2. t \in loop'.clip.b..(loop'.clip.e - 1)
                        BY <3>5, <5>2, <5>4, <6>1
                    <6>3. InPlan(s, t)'
                        BY <3>5, <4>4, <5>1, <6>2 DEF InPlan, Times
                    <6> QED BY <6>3 DEF Goal
                <5> QED BY <5>3, <5>4
            <4> QED BY <3>2, <4>2, <4>3, <4>4
        <3> QED BY <1>8, <2>0, <3>1, <3>2, <3>3, <3>5 DEF c
    <2> QED BY <2>1, <2>2
<1> QED BY <1>10, <1>11, <1>12, <1>13, <1>14, <1>15, <1>16, StepKinds

\* A processed segmenter has its window at the end: all it wanted lies behind.
LEMMA SkippedHolds == Types /\ PastInv /\ BehindInv => NothingSkipped
<1> SUFFICES ASSUME Types, PastInv, BehindInv, NEW s \in Seg, s \notin cutOpen,
                    \A o \in Seg : Used(o) => ~BeganBefore(s, o),
                    seg[s].processed, ~seg[s].canceled, ~is_open(seg[s]),
                    NEW t \in Wanted(s)
             PROVE  t \in Handled
    BY DEF NothingSkipped, Complete
<1>1. /\ seg[s].start \in Nat /\ seg[s].end \in Nat /\ seg[s].post \in Nat
      /\ \A o \in Seg : from[o] \in Nat
    BY SegFields DEF Types, TypeOK
<1>2. Used(s) /\ seg[s].start >= Border(seg[s])
    BY DEF PastInv
<1>3. t \in Nat /\ from[s] <= t /\ t < seg[s].start
    BY <1>1, <1>2 DEF Wanted, Border
<1>4. LastFrom(t)
    BY <1>1, <1>3 DEF LastFrom, BeganBefore
<1>5. IsSettled(t) \/ InPlan(s, t)
    BY <1>2, <1>3, <1>4 DEF BehindInv
<1>6. IsSettled(t) => t \in Handled
    BY DEF IsSettled, Handled
<1>7. InPlan(s, t) => t \in Handled
    <2>1. InPlan(s, t) => \E c \in Planning : t \in Times(c)
        BY DEF InPlan, Planning, Times
    <2> QED BY <2>1 DEF Handled
<1> QED BY <1>5, <1>6, <1>7

\* Nothing is in use at the start.
LEMMA SkippedInit == Init => EndInv /\ CloudInv /\ PastInv /\ BehindInv
<1> SUFFICES ASSUME Init PROVE EndInv /\ CloudInv /\ PastInv /\ BehindInv
    OBVIOUS
<1>1. /\ \A s \in Seg : ~Used(s) /\ ~seg[s].processed /\ finalizing[s] = Null
      /\ chunks = {} /\ cloud = Stored
    BY DEF Init, Used, Blank
<1> QED BY <1>1 DEF EndInv, CloudInv, PastInv, BehindInv

\* When a segmenter that was not cancelled and has an end is processed, every time from
\* its first window to end + post was planned, is in the Cloud or is missing from the
\* recording, unless its window was cut while it was open or another segmenter began later:
\* the windows __adjust_segmenters_current_to_finished(), __check_clip_segment() and
\* __segment_step() move, in any order with the reports and requests, leave out nothing.
THEOREM NothingSkippedCorrect == Spec => []NothingSkipped
BY SkippedInit, EndStep, CloudStep, PastStep, BehindStep, SkippedHolds, TypesCorrect,
    PTL DEF Spec

-----------------------------------------------------------------------------
(***************************************************************************)
(* The order of the list, in which the segmenters get their turns.         *)
(***************************************************************************)
\* i stands before j in q.
Before(q, i, j) == \E m, n \in DOMAIN q : m < n /\ q[m] = i /\ q[n] = j

\* Leaving out members keeps the order of the others.
LEMMA OnlyOrder ==
    ASSUME NEW A, NEW q \in Seq(A), NEW S, NEW a, NEW b, Before(Only(q, S), a, b)
    PROVE  Before(q, a, b)
<1> DEFINE n == Len(q)
           f == Picked(q, S)
           Good(k) == /\ f[k] \in Seq(A)
                      /\ \A i \in 1..Len(f[k]) : \E x \in 1..k : q[x] = f[k][i]
                      /\ \A i, j \in 1..Len(f[k]) : i < j =>
                            \E x, y \in 1..k : x < y /\ q[x] = f[k][i] /\ q[y] = f[k][j]
           N == {k \in 0..n : ~Good(k)}
<1>1. n \in Nat /\ q \in [1..n -> A] /\ DOMAIN q = 1..n
    OBVIOUS
<1>2. Only(q, S) = f[n] /\ f[0] = <<>>
    BY PickedEquation
<1>3. \A i \in 1..n : f[i] = IF q[i] \in S THEN Append(f[i - 1], q[i]) ELSE f[i - 1]
    BY PickedEquation
<1> HIDE DEF f
<1>4. N = {}
    <2> SUFFICES ASSUME N # {} PROVE FALSE
        OBVIOUS
    <2>1. PICK k \in N : \A y \in N : k <= y
        <3> HIDE DEF N
        <3>1. N \in SUBSET Nat
            BY DEF N
        <3> QED BY <3>1, LeastNatural
    <2>2. k \in 0..n /\ ~Good(k)
        OBVIOUS
    <2>3. k # 0
        <3>1. Good(0)
            BY <1>2
        <3> QED BY <2>2, <3>1
    <2>4. k - 1 \in 0..n /\ k \in 1..n /\ ~(k <= k - 1)
        BY <1>1, <2>2, <2>3
    <2>5. Good(k - 1)
        <3> HIDE DEF Good
        <3>1. k - 1 \notin N
            <4> HIDE DEF N
            <4> QED BY <2>1, <2>4
        <3> QED BY <2>4, <3>1
    <2>6. 1..(k - 1) \subseteq 1..k /\ k \in 1..k /\ \A x \in 1..(k - 1) : x < k
        BY <2>4
    <2>7. CASE q[k] \notin S
        <3>1. f[k] = f[k - 1]
            BY <1>3, <2>4, <2>7
        <3> DEFINE r == f[k - 1]
        <3>2. /\ \A i \in 1..Len(r) : \E x \in 1..(k - 1) : q[x] = r[i]
              /\ \A i, j \in 1..Len(r) : i < j =>
                    \E x, y \in 1..(k - 1) : x < y /\ q[x] = r[i] /\ q[y] = r[j]
              /\ r \in Seq(A) /\ f[k] = r
            BY <2>5, <3>1
        <3> HIDE DEF r
        <3>3. \A i \in 1..Len(r) : \E x \in 1..k : q[x] = r[i]
            BY <2>6, <3>2
        <3>4. \A i, j \in 1..Len(r) : i < j =>
                 \E x, y \in 1..k : x < y /\ q[x] = r[i] /\ q[y] = r[j]
            BY <2>6, <3>2
        <3>5. Good(k)
            BY <3>2, <3>3, <3>4
        <3> QED BY <2>2, <3>5
    <2>8. CASE q[k] \in S
        <3> DEFINE r == f[k - 1]
        <3>1. f[k] = Append(r, q[k])
            BY <1>3, <2>4, <2>8
        <3>2. r \in Seq(A) /\ q[k] \in A /\ Len(r) \in Nat
            BY <1>1, <2>4, <2>5
        <3>3. /\ Len(f[k]) = Len(r) + 1 /\ f[k] \in Seq(A)
              /\ f[k][Len(r) + 1] = q[k] /\ \A i \in 1..Len(r) : f[k][i] = r[i]
            BY <3>1, <3>2
        <3>4. \A i \in 1..Len(r) : \E x \in 1..(k - 1) : q[x] = r[i]
            BY <2>5
        <3>5. \A i, j \in 1..Len(r) : i < j =>
                 \E x, y \in 1..(k - 1) : x < y /\ q[x] = r[i] /\ q[y] = r[j]
            BY <2>5
        <3> HIDE DEF r
        <3>6. \A i \in 1..(Len(r) + 1) : i \in 1..Len(r) \/ i = Len(r) + 1
            BY <3>2
        <3>7. ASSUME NEW i \in 1..Len(f[k]) PROVE \E x \in 1..k : q[x] = f[k][i]
            BY <2>6, <3>3, <3>4, <3>6
        <3>8. ASSUME NEW i \in 1..Len(f[k]), NEW j \in 1..Len(f[k]), i < j
              PROVE  \E x, y \in 1..k : x < y /\ q[x] = f[k][i] /\ q[y] = f[k][j]
            <4>1. i \in 1..Len(r)
                BY <3>2, <3>3, <3>8
            <4>2. CASE j \in 1..Len(r)
                <5>1. PICK x \in 1..(k - 1), y \in 1..(k - 1) :
                          x < y /\ q[x] = r[i] /\ q[y] = r[j]
                    BY <3>5, <3>8, <4>1, <4>2
                <5> QED BY <2>6, <3>3, <4>1, <4>2, <5>1
            <4>3. CASE j = Len(r) + 1
                <5>1. PICK x \in 1..(k - 1) : q[x] = r[i]
                    BY <3>4, <4>1
                <5>2. x \in 1..k /\ x < k
                    BY <2>6
                <5> QED BY <2>6, <3>3, <4>1, <4>3, <5>1, <5>2
            <4> QED BY <3>3, <3>6, <4>2, <4>3
        <3>9. Good(k)
            BY <3>3, <3>7, <3>8
        <3> QED BY <2>2, <3>9
    <2> QED BY <2>7, <2>8
<1>5. Good(n)
    <2> HIDE DEF Good
    <2>1. n \in 0..n
        BY <1>1
    <2> QED BY <1>4, <2>1
<1>6. PICK i \in 1..Len(f[n]), j \in 1..Len(f[n]) : i < j /\ f[n][i] = a /\ f[n][j] = b
    <2>1. DOMAIN f[n] = 1..Len(f[n])
        BY <1>5
    <2> QED BY <1>2, <2>1 DEF Before
<1>7. PICK x \in 1..n, y \in 1..n : x < y /\ q[x] = f[n][i] /\ q[y] = f[n][j]
    BY <1>5, <1>6
<1> QED BY <1>1, <1>6, <1>7 DEF Before

\* Putting s between p and q adds only its own pairs.
LEMMA BeforeInto ==
    ASSUME NEW A, NEW p \in Seq(A), NEW s \in A, NEW q \in Seq(A), NEW a, NEW b,
           Before(p \o <<s>> \o q, a, b)
    PROVE  \/ Before(p, a, b) \/ Before(q, a, b)
           \/ a \in ToSet(p) /\ b = s
           \/ a = s /\ b \in ToSet(q)
           \/ a \in ToSet(p) /\ b \in ToSet(q)
<1> DEFINE n == Len(p)
           k == Len(q)
           L == p \o <<s>> \o q
<1>1. n \in Nat /\ k \in Nat /\ DOMAIN p = 1..n /\ DOMAIN q = 1..k
    OBVIOUS
<1>2. /\ L \in Seq(A) /\ Len(L) = n + 1 + k /\ DOMAIN L = 1..(n + 1 + k)
      /\ \A i \in 1..n : L[i] = p[i]
      /\ L[n + 1] = s
      /\ \A i \in 1..k : L[n + 1 + i] = q[i]
    OBVIOUS
<1> HIDE DEF n, k
<1>3. PICK x \in 1..(n + 1 + k), y \in 1..(n + 1 + k) : x < y /\ L[x] = a /\ L[y] = b
    <2> HIDE DEF L
    <2>1. Before(L, a, b)
        BY DEF L
    <2> QED BY <1>2, <2>1 DEF Before
<1> HIDE DEF L
<1>4. \A i \in 1..n : p[i] \in ToSet(p)
    BY <1>1 DEF ToSet
<1>5. \A i \in 1..k : q[i] \in ToSet(q)
    BY <1>1 DEF ToSet
<1>6. ASSUME NEW i \in 1..(n + 1 + k)
      PROVE  \/ i \in 1..n /\ L[i] = p[i]
             \/ i = n + 1 /\ L[i] = s
             \/ i - n - 1 \in 1..k /\ L[i] = q[i - n - 1]
    <2>1. i \in 1..n \/ i = n + 1 \/ (i - n - 1 \in 1..k /\ i = n + 1 + (i - n - 1))
        BY <1>1
    <2> QED BY <1>2, <2>1
<1>7. CASE x \in 1..n /\ L[x] = p[x]
    <2>1. CASE y \in 1..n /\ L[y] = p[y]
        BY <1>1, <1>3, <1>7, <2>1 DEF Before
    <2>2. CASE y = n + 1 /\ L[y] = s
        BY <1>3, <1>4, <1>7, <2>2
    <2>3. CASE y - n - 1 \in 1..k /\ L[y] = q[y - n - 1]
        BY <1>3, <1>4, <1>5, <1>7, <2>3
    <2> QED BY <1>6, <2>1, <2>2, <2>3
<1>8. CASE x = n + 1 /\ L[x] = s
    <2>1. ~(y \in 1..n) /\ y # n + 1
        BY <1>1, <1>3, <1>8
    <2>2. y - n - 1 \in 1..k /\ L[y] = q[y - n - 1]
        BY <1>6, <2>1
    <2> QED BY <1>3, <1>5, <1>8, <2>2
<1>9. CASE x - n - 1 \in 1..k /\ L[x] = q[x - n - 1]
    <2>1. ~(y \in 1..n) /\ y # n + 1
        BY <1>1, <1>3, <1>9
    <2>2. y - n - 1 \in 1..k /\ L[y] = q[y - n - 1]
        BY <1>6, <2>1
    <2>3. x - n - 1 < y - n - 1
        BY <1>1, <1>3
    <2>4. q[x - n - 1] = a /\ q[y - n - 1] = b
        BY <1>3, <1>9, <2>2
    <2> HIDE DEF Before
    <2>5. Before(q, a, b)
        <3> DEFINE u == x - n - 1
                   v == y - n - 1
        <3>1. u \in DOMAIN q /\ v \in DOMAIN q /\ u < v /\ q[u] = a /\ q[v] = b
            BY <1>1, <1>9, <2>2, <2>3, <2>4
        <3> HIDE DEF u, v
        <3> QED BY <3>1 DEF Before
    <2> QED BY <2>5
<1> QED BY <1>6, <1>7, <1>8, <1>9

\* What has a place in the order is in the sequence,
LEMMA BeforeMembers ==
    ASSUME NEW q, NEW a, NEW b, Before(q, a, b)
    PROVE  a \in ToSet(q) /\ b \in ToSet(q)
BY DEF Before, ToSet

\* and of two members one stands before the other.
LEMMA MembersOrdered ==
    ASSUME NEW A, NEW q \in Seq(A), NEW a \in ToSet(q), NEW b \in ToSet(q), a # b
    PROVE  Before(q, a, b) \/ Before(q, b, a)
<1>1. PICK x \in DOMAIN q : q[x] = a
    BY DEF ToSet
<1>2. PICK y \in DOMAIN q : q[y] = b
    BY DEF ToSet
<1>3. x \in Nat /\ y \in Nat /\ x # y
    BY <1>1, <1>2
<1>4. x < y \/ y < x
    BY <1>3
<1> QED BY <1>1, <1>2, <1>4 DEF Before

\* The list is in the order of begin, as __segmenter_enqueue() means it to be.
SortedInv ==
    /\ \A a, b \in Seg : Before(segmenters_, a, b) => seg[a].begin <= seg[b].begin
    /\ \A s \in Seg : seg[s].begin <= Far

\* __purge_segmenters() keeps the order.
LEMMA PurgedOrder ==
    ASSUME Types, NEW a, NEW b, Before(Purged, a, b)
    PROVE  Before(segmenters_, a, b)
<1>1. PICK S : Purged = Only(segmenters_, S)
    BY DEF Purged
<1>2. segmenters_ \in Seq(Seg)
    BY DEF Types, TypeOK
<1> QED BY <1>1, <1>2, OnlyOrder

\* __segmenter_enqueue() puts s after those that begin no later, before the rest.
LEMMA EnqueuedOrder ==
    ASSUME Types, SortedInv, NEW s \in Seg, __segmenter_enqueue(s), NEW a, NEW b,
           Before(segmenters_', a, b)
    PROVE  \/ Before(segmenters_, a, b)
           \/ a = s /\ b \in ToSet(segmenters_) /\ seg[b].begin > seg[s].begin
           \/ b = s /\ a \in ToSet(segmenters_) /\ seg[a].begin <= seg[s].begin
<1> DEFINE L == segmenters_
           upTo == {o \in Seg : seg[o].begin <= seg[s].begin}
           behind == {o \in Seg : seg[o].begin > seg[s].begin}
           p == Only(L, upTo)
           q == Only(L, behind)
<1>1. segmenters_' = p \o <<s>> \o q
    BY DEF __segmenter_enqueue
<1>2. L \in Seq(Seg) /\ seg \in [Seg -> SegType]
    BY DEF Types, TypeOK
<1>3. \A S : /\ Only(L, S) \in Seq(Seg)
             /\ ToSet(Only(L, S)) = ToSet(L) \cap S
    BY <1>2, OnlyFacts
<1> HIDE DEF L, upTo, behind
<1>4. p \in Seq(Seg) /\ ToSet(p) = ToSet(L) \cap upTo
    BY <1>3
<1>5. q \in Seq(Seg) /\ ToSet(q) = ToSet(L) \cap behind
    BY <1>3
<1>6. Before(p, a, b) \/ Before(q, a, b) => Before(L, a, b)
    BY <1>2, OnlyOrder
<1> HIDE DEF p, q
<1>7. \/ Before(p, a, b) \/ Before(q, a, b)
      \/ a \in ToSet(p) /\ b = s
      \/ a = s /\ b \in ToSet(q)
      \/ a \in ToSet(p) /\ b \in ToSet(q)
    BY <1>1, <1>4, <1>5, BeforeInto
<1>8. \A o \in Seg : seg[o].begin \in Nat
    BY <1>2, SegFields
<1>9. ASSUME a \in ToSet(p), b \in ToSet(q) PROVE Before(L, a, b)
    <2>1. /\ a \in ToSet(L) /\ b \in ToSet(L) /\ a \in Seg /\ b \in Seg
          /\ seg[a].begin <= seg[s].begin /\ seg[b].begin > seg[s].begin
        BY <1>4, <1>5, <1>9 DEF upTo, behind
    <2>2. seg[a].begin < seg[b].begin
        BY <1>8, <2>1
    <2>3. a # b /\ ~Before(L, b, a)
        BY <1>8, <2>1, <2>2 DEF SortedInv, L
    <2> QED BY <1>2, <2>1, <2>3, MembersOrdered
<1>10. \A o \in ToSet(p) : o \in ToSet(L) /\ seg[o].begin <= seg[s].begin
    BY <1>4 DEF upTo
<1>11. \A o \in ToSet(q) : o \in ToSet(L) /\ seg[o].begin > seg[s].begin
    BY <1>5 DEF behind
<1> QED BY <1>6, <1>7, <1>9, <1>10, <1>11 DEF L

\* No other step adds to the list or changes its order,
LEMMA ListShrinks ==
    ASSUME Types, EndInv, [Next]_vars, ~Enqueues
    PROVE  /\ \A a, b : Before(segmenters_', a, b) => Before(segmenters_, a, b)
           /\ ToSet(segmenters_') \subseteq ToSet(segmenters_)
<1>1. CASE segmenters_' = segmenters_
    BY <1>1
<1>2. CASE segmenters_' = Purged
    <2>1. segmenters_ \in Seq(Seg)
        BY DEF Types, TypeOK
    <2> QED BY <1>2, <2>1, PurgedOrder, PurgedFacts
<1>3. segmenters_' = segmenters_ \/ segmenters_' = Purged
    BY StepKinds, QuietStill, AskedFacts, PlanFacts, AdjustFacts, CheckFacts, StepFacts
<1> QED BY <1>1, <1>2, <1>3

\* so a segmenter that was purged does not come back.
LEMMA NotAgain ==
    ASSUME Types, EndInv, [Next]_vars, NEW o \in Seg, Used(o), o \notin delayed
    PROVE  /\ o \notin delayed'
           /\ o \notin ToSet(segmenters_) => o \notin ToSet(segmenters_')
<1>1. CASE Enqueues
    <2>1. PICK s \in Seg : __segmenter_enqueue(s)
        BY <1>1 DEF Enqueues
    <2>2. delayed' = delayed \ {s} /\ s \in delayed
        BY <2>1 DEF __segmenter_enqueue
    <2>3. ToSet(segmenters_') \subseteq ToSet(segmenters_) \cup {s}
        BY <2>1, <2>2, EnqueuedFacts DEF Types, TypeOK
    <2> QED BY <2>2, <2>3
<1>2. CASE ~Enqueues
    <2>1. delayed' = delayed \/ Schedules
        BY <1>2, StepKinds, QuietStill, PlanFacts, AdjustFacts, CheckFacts, StepFacts DEF posted
    <2>2. Schedules => o \notin delayed'
        BY AskedFacts
    <2> QED BY <1>2, <2>1, <2>2, ListShrinks
<1> QED BY <1>1, <1>2

\* SortedInv is inductive.
LEMMA SortedStep == Types /\ EndInv /\ SortedInv /\ [Next]_vars => SortedInv'
<1> SUFFICES ASSUME Types, EndInv, SortedInv, [Next]_vars PROVE SortedInv'
    OBVIOUS
<1>0. \A o \in Seg : o \in ToSet(segmenters_) \/ o \in delayed => seg'[o].begin = seg[o].begin
    BY Onward DEF Grows, Types, UsedInv
<1>1. ASSUME NEW s \in Seg PROVE seg'[s].begin <= Far
    <2>1. CASE Used(s)
        BY <2>1, Onward DEF Grows, SortedInv
    <2>2. CASE ~Schedules
        <3>1. Grows(s)
            <4>0. TypeOK /\ seg \in [Seg -> SegType]
                BY DEF Types, TypeOK
            <4>1. \A o \in Seg : Still(o) => Grows(o)
                BY DEF Still
            <4> QED BY <2>2, <4>0, <4>1, StepKinds, QuietStill, EnqueuesFacts, StillSame,
                    PlanFacts, AdjustFacts, CheckFacts, StepFacts, WindowedGrows DEF account
        <3> QED BY <3>1 DEF Grows, SortedInv
    <2>3. CASE Schedules
        <3>1. PICK o \in Seg : \E r \in Request[o] :
                /\ seg'[o] = Segmenter(r)
                /\ \A u \in Seg : u # o => seg'[u] = seg[u]
            BY <2>3, AskedFacts
        <3>2. ASSUME NEW r \in Request[o] PROVE Segmenter(r).begin <= Far
            <4>1. r.begin \in 1..Far /\ Far \in Nat
                BY SegmentAssumption
            <4>2. Segmenter(r).begin = r.begin
                BY DEF Segmenter, Blank
            <4> QED BY <4>1, <4>2
        <3>3. s # o => seg'[s].begin <= Far
            BY <3>1 DEF SortedInv
        <3> QED BY <3>1, <3>2, <3>3
    <2> QED BY <2>2, <2>3
<1>2. ASSUME NEW a \in Seg, NEW b \in Seg, Before(segmenters_', a, b)
      PROVE  seg'[a].begin <= seg'[b].begin
    <2>1. CASE Before(segmenters_, a, b)
        <3>1. a \in ToSet(segmenters_) /\ b \in ToSet(segmenters_)
            BY <2>1, BeforeMembers
        <3> QED BY <1>0, <2>1, <3>1 DEF SortedInv
    <2>2. CASE ~Before(segmenters_, a, b)
        <3>1. PICK s \in Seg : __segmenter_enqueue(s)
            BY <1>2, <2>2, ListShrinks DEF Enqueues
        <3>2. s \in delayed
            BY <3>1 DEF __segmenter_enqueue
        <3>3. \/ a = s /\ b \in ToSet(segmenters_) /\ seg[b].begin > seg[s].begin
              \/ b = s /\ a \in ToSet(segmenters_) /\ seg[a].begin <= seg[s].begin
            BY <1>2, <2>2, <3>1, EnqueuedOrder
        <3>4. \A o \in Seg : seg[o].begin \in Nat
            BY SegFields DEF Types, TypeOK
        <3> QED BY <1>0, <3>2, <3>3, <3>4
    <2> QED BY <2>1, <2>2
<1> QED BY <1>1, <1>2 DEF SortedInv

\* Two segmenters whose periods meet after a step met before: ends are only set once.
LEMMA IntersectsLess ==
    ASSUME Types, EndInv, SortedInv, [Next]_vars, NEW c \in Seg, NEW d \in Seg,
           Used(c), Used(d), intersects(seg'[c], seg'[d])
    PROVE  intersects(seg[c], seg[d])
<1>1. ASSUME NEW x \in Seg, NEW y \in Seg, Used(x), Used(y), Reaches(seg'[x], seg'[y])
      PROVE  Reaches(seg[x], seg[y])
    <2>1. /\ seg[x].begin \in Nat /\ seg[x].pre \in Nat /\ seg[x].begin <= Far /\ Far \in Nat
        BY SegFields, SegmentAssumption DEF Types, TypeOK, SortedInv
    <2>2. seg'[x].begin = seg[x].begin /\ seg'[x].pre = seg[x].pre
        BY <1>1, Onward DEF Grows
    <2>3. seg'[y].end = seg[y].end \/ is_open(seg[y])
        BY <1>1, Onward DEF Grows
    <2>4. CASE is_open(seg[y])
        BY <2>1, <2>4 DEF Reaches
    <2>5. CASE ~is_open(seg[y])
        BY <1>1, <2>2, <2>3, <2>5 DEF Reaches, is_open
    <2> QED BY <2>4, <2>5
<1> QED BY <1>1 DEF intersects

\* __get_current() gives the first that is not over.
LEMMA CurrentFirst ==
    ASSUME Types, Current \in Seg, NEW a \in Seg, Before(segmenters_, a, Current)
    PROVE  seg[a].processed \/ seg[a].canceled
<1> DEFINE q == segmenters_
           rest == {i \in Kept : ~seg[q[i]].processed}
<1>1. q \in Seq(Seg) /\ IsInjective(q) /\ NoSeg \notin Seg
    BY SegmentAssumption DEF Types, TypeOK
<1>2. rest # {} /\ Current = q[Min(rest)]
    BY <1>1 DEF Current
<1>3. rest \subseteq DOMAIN q /\ DOMAIN q \subseteq Nat
    BY <1>1 DEF Kept
<1>4. Min(rest) \in rest /\ \A j \in rest : Min(rest) <= j
    <2> HIDE DEF rest
    <2>1. PICK i \in rest : \A j \in rest : i <= j
        <3>1. rest \in SUBSET Nat
            BY <1>3
        <3> QED BY <1>2, <3>1, LeastNatural
    <2> QED BY <2>1 DEF Min
<1>5. \A i \in DOMAIN q : i \notin rest => seg[q[i]].processed \/ seg[q[i]].canceled
    BY DEF Kept
<1> HIDE DEF rest
<1>6. PICK m \in DOMAIN q, n \in DOMAIN q : m < n /\ q[m] = a /\ q[n] = Current
    BY DEF Before
<1>7. n = Min(rest)
    BY <1>1, <1>2, <1>3, <1>4, <1>6 DEF IsInjective
<1>8. m \notin rest
    BY <1>3, <1>4, <1>6, <1>7
<1> QED BY <1>5, <1>6, <1>8

\* The window of a segmenter never goes back, and stays the right way round.
LEMMA WindowOnward ==
    ASSUME Types, EndInv, [Next]_vars, NEW o \in Seg, Used(o),
           seg[o].processed \/ seg[o].start <= seg[o].stop
    PROVE  /\ seg'[o].start >= seg[o].start
           /\ seg'[o].processed \/ seg'[o].start <= seg'[o].stop
<1> DEFINE Goal == /\ seg'[o].start >= seg[o].start
                   /\ seg'[o].processed \/ seg'[o].start <= seg'[o].stop
<1>0. /\ TypeOK /\ seg \in [Seg -> SegType] /\ seg[o].start \in Nat /\ seg[o].stop \in Nat
    BY SegFields DEF Types, TypeOK
<1>1. ASSUME Still(o) PROVE Goal
    BY <1>0, <1>1 DEF Still, Grows
<1>2. ASSUME seg'[o] = seg[o] PROVE Goal
    BY <1>0, <1>2
<1>3. ASSUME NEW c \in Seg, NEW start \in Nat, NEW stop, NEW over, Windowed(c, start, stop,
             over),
             o = c => (seg[c].start <= seg[c].stop => start >= seg[c].start)
                        /\ (seg[c].start <= seg[c].stop => over \/ start <= stop),
             ~seg[c].processed
      PROVE  Goal
    <2>1. CASE o # c
        BY <1>2, <1>3, <2>1 DEF Windowed
    <2>2. CASE o = c
        <3>1. seg'[o].start = start /\ seg'[o].stop = stop /\ (over => seg'[o].processed)
            BY <1>3, <2>2 DEF Windowed
        <3> QED BY <1>3, <2>2, <3>1
    <2> QED BY <2>1, <2>2
<1> HIDE DEF Goal
<1> SUFFICES Goal
    BY DEF Goal
<1>4. CASE Quiet \/ plan_chunk
    BY <1>1, <1>4, QuietStill, PlanFacts
<1>5. CASE Schedules \/ Enqueues
    BY <1>2, <1>5, AskedFacts, EnqueuesFacts DEF account
<1>6. CASE __adjust_segmenters_current_to_finished
    <2>1. CASE seg' = seg
        BY <1>2, <2>1
    <2>2. CASE Current \in Seg /\ seg' # seg
        <3>1. PICK w \in WindowType : /\ ShiftSound(w, Current, Purged, Len(Purged))
                                      /\ Windowed(Current, w.start, w.stop, w.over)
            BY <1>6, <2>2, AdjustFacts
        <3>2. w.start \in Nat /\ w.start <= w.start + Step
            BY StepNat DEF WindowType
        <3>3. /\ w.start >= seg[Current].start
              /\ seg[Current].start <= seg[Current].stop => w.start <= w.stop
            BY <3>1, <3>2 DEF ShiftSound
        <3> QED BY <1>3, <2>2, <3>1, <3>2, <3>3, CurrentListed
    <2> QED BY <1>6, <2>1, <2>2, AdjustFacts
<1>7. ASSUME NEW ok \in BOOLEAN, __check_clip_segment(ok) PROVE Goal
    <2>1. CASE seg' = seg
        BY <1>2, <2>1
    <2>2. CASE Current \in Seg /\ seg' # seg
        <3>1. PICK w \in TrimType :
                 /\ TrimSound(w, seg[Current], slices(seg[Current], ok),
                              Len(slices(seg[Current], ok)))
                 /\ Windowed(Current, w.start, w.stop, w.over)
            BY <1>7, <2>2, CheckFacts
        <3>2. w.start \in Nat
            BY DEF TrimType
        <3>3. /\ w.start >= seg[Current].start
              /\ seg[Current].start <= seg[Current].stop => w.start <= w.stop
            BY <3>1 DEF TrimSound
        <3> QED BY <1>3, <2>2, <3>1, <3>2, <3>3, CurrentListed
    <2> QED BY <1>7, <2>1, <2>2, CheckFacts
<1>8. CASE __segment_step
    <2>1. CASE seg' = seg
        BY <1>2, <2>1
    <2>2. CASE seg' # seg
        <3>1. loop.s \in Seg /\ ~seg[loop.s].processed
            BY <1>8, <2>2, StepFacts
        <3>2. PICK start \in Nat, stop \in Nat, over \in BOOLEAN :
                /\ Windowed(loop.s, start, stop, over)
                /\ over \/ start <= stop
                /\ \/ start = seg[loop.s].start
                   \/ seg[loop.s].start <= seg[loop.s].stop => seg[loop.s].start <= start
                   \/ StepClip(loop.s, start, stop)
            BY <1>8, <2>2, StepFacts
        <3>3. seg[loop.s].start <= seg[loop.s].stop => start >= seg[loop.s].start
            <4>1. seg[loop.s].start \in Nat
                BY <1>0, <3>1, SegFields
            <4> QED BY <3>2, <4>1 DEF StepClip
        <3> QED BY <1>3, <3>1, <3>2, <3>3
    <2> QED BY <2>1, <2>2
<1> QED BY <1>4, <1>5, <1>6, <1>7, <1>8, StepKinds

-----------------------------------------------------------------------------
(***************************************************************************)
(* No time is planned twice.                                               *)
(***************************************************************************)
\* The chunks that were planned, and the one that is about to be.
Pieces == planned \cup Planning

\* A step of __segment_step() that cuts p from the window of the segmenter whose turn it is.
NewPiece(p) ==
    /\ loop.at = "step" /\ loop.s \in Seg /\ p.s = loop.s
    /\ ~seg[loop.s].processed /\ ~seg[loop.s].canceled
    /\ p.b >= seg[loop.s].start
    /\ p.e - p.b <= MaxClip => seg'[loop.s].start = p.e
    /\ seg'[loop.s].processed \/ seg'[loop.s].start <= seg'[loop.s].stop
    /\ UNCHANGED <<segmenters_, planned, overtook, unadjusted>>
    /\ Pieces' = planned \cup {p}

\* Their segmenters and times are what they should be.
LEMMA PiecesType ==
    ASSUME Types, NEW c \in Pieces
    PROVE  c.s \in Seg /\ c.b \in Nat /\ c.e \in Nat
<1>1. planned \subseteq ChunkType
    BY DEF Types, TypeOK
<1>2. Planning \subseteq ChunkType
    BY DEF Types, TypeOK, Planning, ChunkType, Span
<1> QED BY <1>1, <1>2 DEF Pieces, ChunkType

\* Chunks come from nowhere else.
LEMMA PiecesStep ==
    ASSUME Types, EndInv, [Next]_vars
    PROVE  (Pieces' \subseteq Pieces) \/ \E p : NewPiece(p)
<1>1. ASSUME planned' = planned, loop' = loop \/ loop'.at # "plan"
      PROVE  Pieces' \subseteq Pieces
    <2>1. Planning' \subseteq Planning
        BY <1>1 DEF Planning
    <2> QED BY <1>1, <2>1 DEF Pieces
<1>2. CASE Quiet
    BY <1>1, <1>2, QuietStill DEF observed
<1>3. CASE Schedules \/ Enqueues
    BY <1>1, <1>3, AskedFacts, EnqueuesFacts
<1>4. CASE plan_chunk
    <2>1. Planning' = {}
        BY <1>4, PlanFacts DEF Planning, LoopIdle
    <2>2. planned' \subseteq planned \cup Planning
        BY <1>4, PlanFacts
    <2> QED BY <2>1, <2>2 DEF Pieces
<1>5. CASE __adjust_segmenters_current_to_finished
    <2>1. loop'.at # "plan"
        BY <1>5, AdjustTurn
    <2> QED BY <1>1, <1>5, <2>1, AdjustFacts DEF observed
<1>6. CASE \E ok \in BOOLEAN : __check_clip_segment(ok)
    <2>1. loop'.at # "plan"
        BY <1>6, CheckTurn
    <2> QED BY <1>1, <1>6, <2>1, CheckFacts
<1>7. CASE __segment_step
    <2> DEFINE s == loop.s
               p == [s |-> loop'.s, b |-> loop'.clip.b, e |-> loop'.clip.e]
    <2>1. /\ loop.at = "step" /\ s \in Seg
          /\ UNCHANGED <<segmenters_, planned, overtook, unadjusted>>
        BY <1>7, StepFacts
    <2>2. CASE loop'.at # "plan"
        BY <1>1, <2>1, <2>2
    <2>3. CASE loop'.at = "plan"
        <3>0. loop' # LoopIdle /\ loop'.s = s
            BY <1>7, <2>3, StepFacts DEF LoopIdle
        <3>1. ~seg[s].processed /\ ~seg[s].canceled
            BY <1>7, <3>0, StepFacts
        <3>2. PICK start \in Nat, stop \in Nat, over \in BOOLEAN :
                      /\ Windowed(s, start, stop, over)
                      /\ over \/ start <= stop
                      /\ StepClip(s, start, stop)
            BY <1>7, <3>0, StepFacts
        <3>3. Planning' = {p}
            BY <2>3 DEF Planning
        <3>4. p.s = s /\ p.b = loop'.clip.b /\ p.e = loop'.clip.e
            BY <3>0
        <3> HIDE DEF s, p
        <3>5. /\ p.b >= seg[s].start
              /\ p.e - p.b <= MaxClip => seg'[s].start = p.e
            BY <3>2, <3>4 DEF Windowed, StepClip
        <3>6. seg'[s].processed \/ seg'[s].start <= seg'[s].stop
            <4>1. seg'[s].start = start /\ seg'[s].stop = stop /\ (over => seg'[s].processed)
                BY <3>2 DEF Windowed
            <4> QED BY <3>2, <4>1
        <3>7. Pieces' = planned \cup {p}
            BY <2>1, <3>3 DEF Pieces
        <3>8. NewPiece(p)
            BY <2>1, <3>1, <3>4, <3>5, <3>6, <3>7 DEF NewPiece, s
        <3> QED BY <3>8
    <2> QED BY <2>2, <2>3
<1> QED BY <1>2, <1>3, <1>4, <1>5, <1>6, <1>7, StepKinds

\* The window of a chunk's segmenter is past the chunk, unless that is longer than
\* MaxClip, and the right way round.
PieceSound(c) ==
    /\ Used(c.s) /\ c.s \notin delayed
    /\ c.e - c.b <= MaxClip => c.e <= seg[c.s].start
    /\ seg[c.s].processed \/ seg[c.s].start <= seg[c.s].stop
\* The segmenter whose turn it is was put into the list.
TurnUsed == loop.at \in {"check", "step"} => loop.s \notin delayed
\* All this of every chunk.
ChunkInv ==
    /\ \A c \in planned : seg[c.s].planned > 0
    /\ \A c \in Pieces : PieceSound(c)
    /\ TurnUsed

\* It is inductive: a new chunk starts in the window, which then follows it.
LEMMA ChunkStep == Types /\ EndInv /\ ChunkInv /\ [Next]_vars => ChunkInv'
<1> SUFFICES ASSUME Types, EndInv, ChunkInv, [Next]_vars PROVE ChunkInv'
    OBVIOUS
<1>0. \A s \in Seg : /\ Used(s) => Used(s)'
                     /\ Used(s) /\ s \notin delayed => s \notin delayed'
    BY Onward, NotAgain DEF Used
<1>00. \A s \in Seg : seg[s].start \in Nat /\ seg'[s].start \in Nat
    <2>1. TypeOK /\ TypeOK'
        BY TypesStep DEF Types
    <2>2. seg \in [Seg -> SegType] /\ seg' \in [Seg -> SegType]
        BY <2>1 DEF TypeOK
    <2> QED BY <2>2, SegFields
<1>1. ASSUME NEW c \in Pieces PROVE PieceSound(c)'
    <2>1. c.s \in Seg /\ c.b \in Nat /\ c.e \in Nat
        BY PiecesType
    <2>2. /\ Used(c.s) /\ c.s \notin delayed
          /\ c.e - c.b <= MaxClip => c.e <= seg[c.s].start
          /\ seg[c.s].processed \/ seg[c.s].start <= seg[c.s].stop
        BY DEF ChunkInv, PieceSound
    <2>3. /\ seg'[c.s].start >= seg[c.s].start
          /\ seg'[c.s].processed \/ seg'[c.s].start <= seg'[c.s].stop
        BY <2>1, <2>2, WindowOnward
    <2>4. c.e - c.b <= MaxClip => c.e <= seg'[c.s].start
        BY <1>00, <2>1, <2>2, <2>3
    <2> QED BY <1>0, <2>1, <2>2, <2>3, <2>4 DEF PieceSound
<1>2. ASSUME NEW p, NewPiece(p) PROVE PieceSound(p)'
    <2>1. loop.s \in Seg /\ p.s = loop.s /\ loop.at = "step"
        BY <1>2 DEF NewPiece
    <2>2. Used(loop.s) /\ loop.s \notin delayed
        BY <2>1 DEF Types, UsedInv, ChunkInv, TurnUsed
    <2>3. /\ p.e - p.b <= MaxClip => seg'[loop.s].start = p.e
          /\ seg'[loop.s].processed \/ seg'[loop.s].start <= seg'[loop.s].stop
        BY <1>2 DEF NewPiece
    <2>4. p.e - p.b <= MaxClip => p.e <= seg'[p.s].start
        BY <1>00, <2>1, <2>3
    <2> QED BY <1>0, <2>1, <2>2, <2>3, <2>4 DEF PieceSound
<1>3. \A c \in Pieces' : PieceSound(c)'
    <2>1. CASE Pieces' \subseteq Pieces
        BY <1>1, <2>1
    <2>2. ASSUME NEW p, NewPiece(p) PROVE \A c \in Pieces' : PieceSound(c)'
        <3>1. Pieces' = planned \cup {p} /\ planned \subseteq Pieces
            BY <2>2 DEF NewPiece, Pieces
        <3> HIDE DEF PieceSound, Pieces
        <3> QED BY <1>1, <1>2, <2>2, <3>1
    <2> QED BY <2>1, <2>2, PiecesStep
<1>4. ASSUME NEW c \in planned' PROVE seg'[c.s].planned > 0
    <2>1. CASE c \in planned
        <3>1. c.s \in Seg /\ Used(c.s) /\ seg[c.s].planned > 0
            BY <2>1, PiecesType DEF ChunkInv, PieceSound, Pieces
        <3>2. seg'[c.s].planned >= seg[c.s].planned
            BY <3>1, Onward DEF Grows
        <3>3. seg[c.s].planned \in Nat /\ seg'[c.s].planned \in Nat
            <4>1. TypeOK /\ TypeOK'
                BY TypesStep DEF Types
            <4>2. seg \in [Seg -> SegType] /\ seg' \in [Seg -> SegType]
                BY <4>1 DEF TypeOK
            <4> QED BY <3>1, <4>2, SegFields
        <3> QED BY <3>1, <3>2, <3>3
    <2>2. CASE c \notin planned
        <3>1. plan_chunk
            BY <1>4, <2>2, StepKinds, QuietStill, AskedFacts, EnqueuesFacts, AdjustFacts,
               CheckFacts, StepFacts DEF observed
        <3>2. planned' \subseteq planned \cup Planning /\ seg'[loop.s].planned > 0
            BY <3>1, PlanFacts
        <3>3. c.s = loop.s
            BY <1>4, <2>2, <3>2 DEF Planning
        <3> QED BY <3>2, <3>3
    <2> QED BY <2>1, <2>2
<1>5. TurnUsed'
    <2> SUFFICES ASSUME loop'.at \in {"check", "step"} PROVE loop'.s \notin delayed'
        BY DEF TurnUsed
    <2>1. CASE Current \in Seg /\ loop'.s = Current
        <3>1. Current \in ToSet(segmenters_) /\ Used(Current)
            BY <2>1, CurrentListed
        <3>2. Current \notin delayed
            BY <3>1 DEF Types, TypeOK
        <3> QED BY <1>0, <2>1, <3>1, <3>2
    <2>2. CASE loop' = loop
        BY <1>0, <2>2 DEF ChunkInv, TurnUsed, Types, TypeOK, UsedInv
    <2>3. loop' = LoopIdle => FALSE
        BY DEF LoopIdle
    <2>4. CASE Quiet \/ Schedules \/ Enqueues \/ plan_chunk
        BY <2>2, <2>3, <2>4, QuietStill, AskedFacts, EnqueuesFacts, PlanFacts
    <2>5. CASE __adjust_segmenters_current_to_finished
        <3>1. Current \in Seg /\ loop'.s = Current
            BY <2>3, <2>5, AdjustFacts DEF LoopIdle
        <3> QED BY <2>1, <3>1
    <2>6. CASE \E ok \in BOOLEAN : __check_clip_segment(ok)
        <3>1. Current \in Seg /\ loop'.s = Current
            BY <2>3, <2>6, CheckFacts DEF LoopIdle
        <3> QED BY <2>1, <3>1
    <2>7. CASE __segment_step
        BY <2>3, <2>7, StepFacts
    <2> QED BY <2>4, <2>5, <2>6, <2>7, StepKinds
<1> QED BY <1>3, <1>4, <1>5 DEF ChunkInv

\* The segmenters that stand before one with a chunk are over or were put there late.
Passed(a) == seg[a].processed \/ seg[a].canceled \/ a \in overtook
OrderInv == \A c \in Pieces, a \in Seg : Before(segmenters_, a, c.s) => Passed(a)

\* The window of c is adjusted: it starts no earlier than that of any processed segmenter
\* of the list that meets c. Or on_finished() made c current between adjust and check.
Ahead(c) ==
    c \in unadjusted \/ \A o \in ToSet(segmenters_) :
        o # c /\ seg[o].processed /\ ~seg[o].canceled /\ intersects(seg[c], seg[o])
            => seg[c].start >= seg[o].start
\* All that stand before c are over.
First(c) == \A a \in Seg : Before(segmenters_, a, c) => seg[a].processed \/ seg[a].canceled
\* The segmenter that was adjusted is Ahead, and the one whose chunk is to be cut is First
\* as well.
TurnInv ==
    /\ loop.at \in {"check", "step"} => Ahead(loop.s)
    /\ loop.at = "step" => First(loop.s)

\* The list holds segmenters in use that wait no longer.
LEMMA ListUsed ==
    ASSUME Types, NEW o \in ToSet(segmenters_)
    PROVE  o \in Seg /\ Used(o) /\ o \notin delayed
<1>1. segmenters_ \in Seq(Seg)
    BY DEF Types, TypeOK
<1>2. o \in Seg
    BY <1>1 DEF ToSet
<1> QED BY <1>2 DEF Types, TypeOK, UsedInv

\* OrderInv is inductive: a new chunk is of a segmenter that is First, and one put before
\* it later is noted in overtook.
LEMMA OrderStep ==
    Types /\ EndInv /\ SortedInv /\ ChunkInv /\ TurnInv /\ OrderInv /\ [Next]_vars => OrderInv'
<1> SUFFICES ASSUME Types, EndInv, SortedInv, ChunkInv, TurnInv, OrderInv, [Next]_vars,
                    NEW c \in Pieces', NEW a \in Seg, Before(segmenters_', a, c.s)
             PROVE  seg'[a].processed \/ seg'[a].canceled \/ a \in overtook'
    BY DEF OrderInv, Passed
<1>1. ASSUME Before(segmenters_, a, c.s), Passed(a)
      PROVE  seg'[a].processed \/ seg'[a].canceled \/ a \in overtook'
    <2>1. Used(a)
        BY <1>1, BeforeMembers, ListUsed
    <2> QED BY <1>1, <2>1, Onward DEF Passed, Grows
<1>2. CASE Enqueues
    <2>1. PICK s \in Seg : __segmenter_enqueue(s)
        BY <1>2 DEF Enqueues
    <2>2. /\ loop.at = "idle" /\ s \in delayed /\ planned' = planned /\ loop' = loop
          /\ overtook' = IF \E o \in ToSet(segmenters_) :
                               seg[o].begin > seg[s].begin /\ UnderWay(o)
                         THEN overtook \cup {s} ELSE overtook
        BY <2>1 DEF __segmenter_enqueue
    <2>3. c \in planned /\ c \in Pieces
        BY <2>2 DEF Pieces, Planning
    <2>4. c.s # s /\ UnderWay(c.s)
        BY <2>2, <2>3 DEF ChunkInv, PieceSound, UnderWay
    <2>5. \/ Before(segmenters_, a, c.s)
          \/ a = s /\ c.s \in ToSet(segmenters_) /\ seg[c.s].begin > seg[s].begin
        BY <2>1, <2>4, EnqueuedOrder
    <2>6. CASE Before(segmenters_, a, c.s)
        BY <1>1, <2>3, <2>6 DEF OrderInv
    <2>7. CASE a = s /\ c.s \in ToSet(segmenters_) /\ seg[c.s].begin > seg[s].begin
        BY <2>2, <2>4, <2>7
    <2> QED BY <2>5, <2>6, <2>7
<1>3. CASE ~Enqueues
    <2>1. Before(segmenters_, a, c.s)
        BY <1>3, ListShrinks
    <2>2. CASE c \in Pieces
        BY <1>1, <2>1, <2>2 DEF OrderInv
    <2>3. CASE c \notin Pieces
        <3>1. PICK p : NewPiece(p)
            BY <2>3, PiecesStep
        <3>2. c = p /\ c.s = loop.s /\ loop.at = "step"
            BY <2>3, <3>1 DEF NewPiece, Pieces
        <3>3. Passed(a)
            BY <2>1, <3>2 DEF TurnInv, First, Passed
        <3> QED BY <1>1, <2>1, <3>3
    <2> QED BY <2>2, <2>3
<1> QED BY <1>2, <1>3

\* A window that only goes on stays Ahead while the others stand still.
LEMMA AheadKept ==
    ASSUME Types, EndInv, SortedInv, [Next]_vars, NEW c \in Seg, Used(c), Ahead(c),
           \A o \in ToSet(segmenters_) :
              o # c => /\ seg'[o].start = seg[o].start
                       /\ seg'[o].processed => seg[o].processed \/ seg'[o].canceled,
           seg'[c].start >= seg[c].start,
           ToSet(segmenters_') \subseteq ToSet(segmenters_)
    PROVE  Ahead(c)'
<1> SUFFICES ASSUME c \notin unadjusted, NEW o \in ToSet(segmenters_'), o # c,
                    seg'[o].processed, ~seg'[o].canceled, intersects(seg'[c], seg'[o])
             PROVE  seg'[c].start >= seg'[o].start
    BY Onward DEF Ahead
<1>1. o \in ToSet(segmenters_) /\ o \in Seg /\ Used(o)
    BY ListUsed
<1>2. seg[o].processed /\ ~seg[o].canceled
    BY <1>1, Onward DEF Grows
<1>3. intersects(seg[c], seg[o])
    BY <1>1, IntersectsLess
<1>4. seg[c].start >= seg[o].start
    BY <1>1, <1>2, <1>3 DEF Ahead
<1>5. seg[c].start \in Nat /\ seg[o].start \in Nat /\ seg'[c].start \in Nat
    <2>1. TypeOK /\ TypeOK'
        BY TypesStep DEF Types
    <2>2. seg \in [Seg -> SegType] /\ seg' \in [Seg -> SegType]
        BY <2>1 DEF TypeOK
    <2> QED BY <1>1, <2>2, SegFields
<1> QED BY <1>1, <1>4, <1>5

\* TurnInv is inductive. The step that adjusts establishes Ahead; the one that checks
\* gives the turn to the first segmenter that is not over, which is the one adjusted or
\* is noted in unadjusted; and nothing comes between that moves another's window.
LEMMA TurnStep ==
    Types /\ EndInv /\ SortedInv /\ TurnInv /\ [Next]_vars => TurnInv'
<1> SUFFICES ASSUME Types, EndInv, SortedInv, TurnInv, [Next]_vars PROVE TurnInv'
    OBVIOUS
<1>0. /\ TypeOK /\ seg \in [Seg -> SegType]
      /\ \A s \in Seg : seg[s].start \in Nat
    BY SegFields DEF Types, TypeOK
<1>1. ASSUME NEW c \in Seg,
             \A a \in Seg : Before(segmenters_, a, c) => seg[a].processed \/ seg[a].canceled,
             ~Enqueues
      PROVE  First(c)'
    <2> SUFFICES ASSUME NEW a \in Seg, Before(segmenters_', a, c)
                 PROVE  seg'[a].processed \/ seg'[a].canceled
        BY DEF First
    <2>1. Before(segmenters_, a, c)
        BY <1>1, ListShrinks
    <2>2. Used(a)
        BY <2>1, BeforeMembers, ListUsed
    <2> QED BY <1>1, <2>1, <2>2, Onward DEF Grows
<1>2. ASSUME loop'.at \notin {"check", "step"} PROVE TurnInv'
    BY <1>2 DEF TurnInv
<1>3. ASSUME loop' = loop, loop.at \in {"check", "step"}, ~Enqueues,
             \A o \in Seg : Used(o) => Still(o)
      PROVE  TurnInv'
    <2>1. loop.s \in Seg /\ Used(loop.s) /\ Ahead(loop.s)
        BY <1>3 DEF Types, TypeOK, UsedInv, TurnInv
    <2>2. Ahead(loop.s)'
        <3>1. seg'[loop.s].start >= seg[loop.s].start
            BY <1>0, <1>3, <2>1 DEF Still
        <3>2. \A o \in ToSet(segmenters_) :
                 /\ seg'[o].start = seg[o].start
                 /\ seg'[o].processed => seg[o].processed \/ seg'[o].canceled
            BY <1>3, ListUsed DEF Still
        <3>3. \A s \in Seg : s = loop.s => Ahead(s)'
            BY <1>3, <2>1, <3>1, <3>2, ListShrinks, AheadKept
        <3> QED BY <1>3, <2>1, <3>3
    <2>3. loop.at = "step" => First(loop.s)'
        <3>1. \A s \in Seg : s = loop.s /\ loop.at = "step" => First(s)'
            BY <1>1, <1>3 DEF TurnInv, First
        <3> QED BY <1>3, <2>1, <3>1
    <2> QED BY <1>3, <2>2, <2>3 DEF TurnInv
<1>4. CASE loop.at \notin {"check", "step"} /\ loop' = loop
    BY <1>2, <1>4
<1>5. CASE Quiet
    <2>1. loop' = loop /\ ~(Enqueues /\ loop.at \in {"check", "step"})
        BY <1>5, QuietStill DEF Enqueues, __segmenter_enqueue
    <2> QED BY <1>3, <1>4, <1>5, <2>1, QuietStill
<1>6. CASE Schedules
    <2>1. loop' = loop /\ ~(Enqueues /\ loop.at \in {"check", "step"})
        BY <1>6, AskedFacts DEF Enqueues, __segmenter_enqueue
    <2>2. \A o \in Seg : Used(o) => Still(o)
        BY <1>0, <1>6, AskedFacts, StillSame
    <2> QED BY <1>3, <1>4, <2>1, <2>2
<1>7. CASE Enqueues
    BY <1>4, <1>7 DEF Enqueues, __segmenter_enqueue
<1>8. CASE plan_chunk
    BY <1>2, <1>8, PlanFacts DEF LoopIdle
<1>9. CASE __adjust_segmenters_current_to_finished
    <2>1. CASE loop'.at # "check"
        BY <1>2, <1>9, <2>1, AdjustTurn
    <2>2. CASE loop'.at = "check"
        <3>a. loop' # LoopIdle
            BY <2>2 DEF LoopIdle
        <3>b. /\ Current \in Seg
              /\ \E w \in WindowType :
                   /\ ShiftSound(w, Current, Purged, Len(Purged))
                   /\ loop' = [LoopIdle EXCEPT !.at = IF w.over THEN "adjust" ELSE "check",
                                               !.s = Current]
                   /\ Windowed(Current, w.start, w.stop, w.over)
            BY <1>9, <3>a, AdjustFacts, Zenon
        <3>c. PICK c \in Seg : c = Current
            BY <3>b
        <3>d. segmenters_' = Purged
            BY <1>9, AdjustFacts
        <3>1. PICK w \in WindowType :
                 /\ ShiftSound(w, c, Purged, Len(Purged))
                 /\ loop' = [LoopIdle EXCEPT !.at = IF w.over THEN "adjust" ELSE "check", !.s = c]
                 /\ Windowed(c, w.start, w.stop, w.over)
            BY <3>b, <3>c
        <3>2. ~w.over /\ loop'.s = c
            BY <2>2, <3>1 DEF LoopIdle
        <3>0. c \in Seg /\ loop'.s = c /\ segmenters_' = Purged
            BY <3>c, <3>d, <3>2
        <3>3. \A i \in 1..Len(Purged) : Purged[i] # c /\ seg[Purged[i]].processed
                   /\ intersects(seg[c], seg[Purged[i]]) => w.start >= seg[Purged[i]].start
            BY <3>1, <3>2 DEF ShiftSound
        <3>4. Ahead(c)'
            <4> SUFFICES ASSUME NEW o \in ToSet(segmenters_)', o # c, seg'[o].processed,
                                intersects(seg'[c], seg'[o])
                         PROVE  seg'[c].start >= seg'[o].start
                BY DEF Ahead
            <4>0. Purged \in Seq(Seg)
                BY PurgedFacts DEF Types, TypeOK
            <4>1. PICK i \in 1..Len(Purged) : o = Purged[i]
                BY <3>0, <4>0 DEF ToSet
            <4>2. o \in Seg
                BY <4>0, <4>1
            <4>3. seg'[o] = seg[o]
                BY <3>1, <4>2 DEF Windowed
            <4>4. intersects(seg[c], seg[o])
                BY <3>1, <4>3 DEF Windowed, intersects, Reaches, is_open
            <4>5. seg'[c].start = w.start
                BY <3>1 DEF Windowed
            <4> QED BY <3>3, <4>1, <4>3, <4>4, <4>5
        <3>5. loop'.s \in Seg /\ \A s \in Seg : s = loop'.s => Ahead(s)'
            BY <3>0, <3>4
        <3> QED BY <2>2, <3>5 DEF TurnInv
    <2> QED BY <2>1, <2>2
<1>10. ASSUME NEW ok \in BOOLEAN, __check_clip_segment(ok) PROVE TurnInv'
    <2>1. CASE loop'.at # "step"
        BY <1>2, <1>10, <2>1, CheckTurn
    <2>2. CASE loop'.at = "step"
        <3>a. loop' # LoopIdle
            BY <2>2 DEF LoopIdle
        <3>b. /\ Current \in Seg
              /\ \E w \in TrimType :
                   /\ TrimSound(w, seg[Current], slices(seg[Current], ok),
                                Len(slices(seg[Current], ok)))
                   /\ loop' = IF w.upload THEN [LoopIdle EXCEPT !.at = "step", !.s = Current]
                              ELSE LoopIdle
                   /\ Windowed(Current, w.start, w.stop, w.over)
              /\ unadjusted' = unadjusted \cup {s \in {Current} : Current # loop.s}
            <4>1. \/ loop' = LoopIdle
                  \/ /\ Current \in Seg
                     /\ \E w \in TrimType :
                          /\ TrimSound(w, seg[Current], slices(seg[Current], ok),
                                       Len(slices(seg[Current], ok)))
                          /\ loop' = IF w.upload THEN [LoopIdle EXCEPT !.at = "step", !.s = Current]
                                     ELSE LoopIdle
                          /\ Windowed(Current, w.start, w.stop, w.over)
                     /\ unadjusted' = unadjusted \cup {s \in {Current} : Current # loop.s}
                BY <1>10, CheckFacts, Zenon
            <4> QED BY <3>a, <4>1
        <3>c. PICK c \in Seg : c = Current
            BY <3>b
        <3>d. segmenters_' = Purged /\ loop.at = "check"
            BY <1>10, CheckFacts
        <3>1. PICK w \in TrimType :
                 /\ TrimSound(w, seg[c], slices(seg[c], ok), Len(slices(seg[c], ok)))
                 /\ loop' = IF w.upload THEN [LoopIdle EXCEPT !.at = "step", !.s = c] ELSE LoopIdle
                 /\ Windowed(c, w.start, w.stop, w.over)
            BY <3>b, <3>c
        <3>e. loop'.s = c
            BY <3>1, <3>a DEF LoopIdle
        <3>0. /\ c \in Seg /\ loop'.s = c /\ segmenters_' = Purged /\ loop.at = "check"
              /\ unadjusted' = unadjusted \cup {s \in {c} : c # loop.s}
            BY <3>b, <3>c, <3>d, <3>e
        <3>2. ~Enqueues
            BY <3>0 DEF Enqueues, __segmenter_enqueue
        <3>3. Used(c)
            BY <3>c, CurrentListed
        <3>4. \A a \in Seg : Before(segmenters_, a, c) => seg[a].processed \/ seg[a].canceled
            BY <3>c, CurrentFirst
        <3>5. First(c)'
            BY <1>1, <3>0, <3>2, <3>4
        <3>6. Ahead(c)'
            <4>1. CASE c # loop.s
                BY <3>0, <4>1 DEF Ahead
            <4>2. CASE c = loop.s
                <5>1. Ahead(c)
                    BY <3>0, <4>2 DEF TurnInv
                <5>2. seg'[c].start >= seg[c].start
                    BY <3>1 DEF TrimSound, Windowed
                <5>3. ASSUME NEW o \in ToSet(segmenters_), o # c
                      PROVE  seg'[o].start = seg[o].start /\ (seg'[o].processed => seg[o].processed)
                    BY <3>1, <5>3, ListUsed DEF Windowed
                <5> QED BY <3>0, <3>2, <3>3, <5>1, <5>2, <5>3, ListShrinks, AheadKept
            <4> QED BY <4>1, <4>2
        <3>7. loop'.s \in Seg /\ \A s \in Seg : s = loop'.s => First(s)' /\ Ahead(s)'
            BY <3>0, <3>5, <3>6
        <3> QED BY <2>2, <3>7 DEF TurnInv
    <2> QED BY <2>1, <2>2
<1>11. CASE __segment_step
    BY <1>2, <1>11, StepFacts DEF LoopIdle
<1> QED BY <1>5, <1>6, <1>7, <1>8, <1>9, <1>10, <1>11, StepKinds

\* PlannedOnce, the chunk about to be planned included.
PairInv ==
    \A c, d \in Pieces :
        Overlap(c, d) /\ (c.s = d.s \/ intersects(seg[c.s], seg[d.s])) => Odd(c) \/ Odd(d)

\* An excepted chunk stays excepted.
LEMMA OddStays ==
    ASSUME Types, EndInv, ChunkInv, [Next]_vars, NEW c \in Pieces, Odd(c)
    PROVE  Odd(c)'
<1>1. c.s \in Seg /\ Used(c.s) /\ c.s \notin delayed
    BY PiecesType DEF ChunkInv, PieceSound
<1>2. CASE seg[c.s].canceled
    BY <1>1, <1>2, Onward DEF Grows, Odd
<1>3. CASE c.e - c.b > MaxClip
    BY <1>3 DEF Odd
<1>4. CASE c.s \notin ToSet(segmenters_)
    BY <1>1, <1>4, NotAgain DEF Odd
<1>5. CASE c.s \in overtook \cup unadjusted
    BY <1>5, Onward DEF Odd
<1> QED BY <1>2, <1>3, <1>4, <1>5 DEF Odd

\* A new chunk p starts after any other, d, of a segmenter that is the same or meets it.
\* The same: the window of that segmenter is past d. Another: neither was overtaken, so by
\* OrderInv d's stands before p's; by First it is processed, and by Ahead p's window
\* starts where d's does or later, which is past d.
LEMMA NewApart ==
    ASSUME Types, EndInv, SortedInv, ChunkInv, TurnInv, OrderInv, [Next]_vars,
           NEW p, NewPiece(p), NEW d \in planned, ~Odd(p)', ~Odd(d)',
           p.s = d.s \/ intersects(seg'[p.s], seg'[d.s])
    PROVE  d.e <= p.b
<1>1. /\ p.s \in Seg /\ p.s = loop.s /\ loop.at = "step"
      /\ ~seg[p.s].processed /\ ~seg[p.s].canceled
      /\ p.b >= seg[p.s].start
    BY DEF NewPiece
<1>2. d \in Pieces /\ d.s \in Seg /\ d.b \in Nat /\ d.e \in Nat
    BY PiecesType DEF Pieces
<1>3. p.b \in Nat
    <2>1. Types'
        BY TypesStep
    <2>2. \A c \in Pieces' : c.b \in Nat
        <3>1. planned' \subseteq ChunkType
            BY <2>1 DEF Types, TypeOK
        <3>2. Planning' \subseteq ChunkType
            BY <2>1 DEF Types, TypeOK, Planning, ChunkType, Span
        <3> QED BY <3>1, <3>2 DEF Pieces, ChunkType
    <2>3. p \in Pieces'
        BY DEF NewPiece
    <2> QED BY <2>2, <2>3
<1>4. MaxClip \in Nat
    BY SegmentAssumption
<1>5. ~(d.e - d.b > MaxClip)
    BY DEF Odd
<1>6. d.e <= seg[d.s].start /\ Used(d.s)
    BY <1>2, <1>4, <1>5 DEF ChunkInv, PieceSound
<1>7. seg[p.s].start \in Nat /\ seg[d.s].start \in Nat
    BY <1>1, <1>2, SegFields DEF Types, TypeOK
<1>8. CASE p.s = d.s
    BY <1>1, <1>2, <1>3, <1>6, <1>7, <1>8
<1>9. CASE p.s # d.s
    <2>1. segmenters_' = segmenters_ /\ overtook' = overtook /\ unadjusted' = unadjusted
        BY DEF NewPiece
    <2>2. /\ p.s \in ToSet(segmenters_) /\ d.s \in ToSet(segmenters_)
          /\ p.s \notin overtook /\ p.s \notin unadjusted /\ ~seg'[d.s].canceled
        BY <2>1 DEF Odd
    <2>3. ~seg[d.s].canceled
        BY <1>2, <1>6, <2>2, Onward DEF Grows
    <2>4. Used(p.s)
        BY <2>2, ListUsed
    <2>5. intersects(seg[p.s], seg[d.s])
        BY <1>1, <1>2, <1>6, <1>9, <2>4, IntersectsLess
    <2>6. ~Before(segmenters_, p.s, d.s)
        BY <1>1, <1>2, <2>2 DEF OrderInv, Passed
    <2>7. Before(segmenters_, d.s, p.s)
        <3>1. segmenters_ \in Seq(Seg)
            BY DEF Types, TypeOK
        <3> QED BY <1>9, <2>2, <2>6, <3>1, MembersOrdered
    <2>8. seg[d.s].processed
        BY <1>1, <1>2, <2>3, <2>7 DEF TurnInv, First
    <2>9. seg[p.s].start >= seg[d.s].start
        BY <1>1, <1>9, <2>2, <2>3, <2>5, <2>8 DEF TurnInv, Ahead
    <2> QED BY <1>1, <1>2, <1>3, <1>6, <1>7, <2>9
<1> QED BY <1>8, <1>9

\* So PairInv is inductive: only a new chunk can meet another.
LEMMA PairStep ==
    /\ Types /\ EndInv /\ SortedInv /\ ChunkInv /\ TurnInv /\ OrderInv /\ PairInv
    /\ [Next]_vars
    => PairInv'
<1> SUFFICES ASSUME Types, EndInv, SortedInv, ChunkInv, TurnInv, OrderInv, PairInv,
                    [Next]_vars, NEW c \in Pieces', NEW d \in Pieces',
                    Overlap(c, d), c.s = d.s \/ intersects(seg'[c.s], seg'[d.s]),
                    ~Odd(c)', ~Odd(d)'
             PROVE  FALSE
    BY DEF PairInv
<1>1. CASE c \in Pieces /\ d \in Pieces
    <2>1. /\ c.s \in Seg /\ Used(c.s) /\ d.s \in Seg /\ Used(d.s)
        BY <1>1, PiecesType DEF ChunkInv, PieceSound
    <2>2. c.s = d.s \/ intersects(seg[c.s], seg[d.s])
        BY <2>1, IntersectsLess
    <2>3. Odd(c) \/ Odd(d)
        BY <1>1, <2>2 DEF PairInv
    <2> QED BY <1>1, <2>3, OddStays
<1>2. CASE ~(c \in Pieces /\ d \in Pieces)
    <2>1. PICK p : NewPiece(p)
        BY <1>2, PiecesStep
    <2>2. Pieces' = planned \cup {p} /\ planned \subseteq Pieces
        BY <2>1 DEF NewPiece, Pieces
    <2>3. c # d /\ c.b < d.e /\ d.b < c.e
        BY DEF Overlap, Meets
    <2>4. /\ c.b \in Nat /\ c.e \in Nat /\ d.b \in Nat /\ d.e \in Nat
        <3>1. Types'
            BY TypesStep
        <3>2. planned' \subseteq ChunkType
            BY <3>1 DEF Types, TypeOK
        <3>3. Planning' \subseteq ChunkType
            BY <3>1 DEF Types, TypeOK, Planning, ChunkType, Span
        <3> QED BY <3>2, <3>3 DEF Pieces, ChunkType
    <2>5. CASE c = p /\ d \in planned
        <3>1. d.e <= c.b
            BY <2>1, <2>5, NewApart
        <3> QED BY <2>3, <2>4, <3>1
    <2>6. CASE d = p /\ c \in planned
        <3>1. c.s = d.s \/ intersects(seg'[d.s], seg'[c.s])
            BY DEF intersects
        <3>2. c.e <= d.b
            BY <2>1, <2>6, <3>1, NewApart
        <3> QED BY <2>3, <2>4, <3>2
    <2> QED BY <1>2, <2>2, <2>3, <2>5, <2>6
<1> QED BY <1>1, <1>2

\* There are no chunks and the list is empty at the start.
LEMMA OnceInit == Init => SortedInv /\ ChunkInv /\ TurnInv /\ OrderInv /\ PairInv
<1> SUFFICES ASSUME Init PROVE SortedInv /\ ChunkInv /\ TurnInv /\ OrderInv /\ PairInv
    OBVIOUS
<1>1. Pieces = {} /\ planned = {} /\ loop.at = "idle"
    BY DEF Init, Pieces, Planning, LoopIdle
<1>2. SortedInv
    <2>1. \A a, b : ~Before(segmenters_, a, b)
        BY DEF Init, Before
    <2>2. \A s \in Seg : seg[s].begin = 0
        BY DEF Init, Blank, Null
    <2>3. Far \in Nat
        BY SegmentAssumption
    <2> QED BY <2>1, <2>2, <2>3 DEF SortedInv
<1> QED BY <1>1, <1>2 DEF ChunkInv, TurnUsed, TurnInv, OrderInv, PairInv

\* No time is planned twice, by one segmenter or by two whose periods meet, whatever the
\* Cloud's list says and whether or not it is available: the windows alone keep the chunks
\* of __segment_step() apart. Excepted are what PlannedOnce excepts (Odd).
THEOREM PlannedOnceCorrect == Spec => []PlannedOnce
<1>1. PairInv => PlannedOnce
    BY DEF PairInv, PlannedOnce, Pieces
<1>2. Init => EndInv
    BY SkippedInit
<1> QED BY <1>1, <1>2, OnceInit, EndStep, SortedStep, ChunkStep, TurnStep, OrderStep, PairStep,
        TypesCorrect, PTL DEF Spec
===============================================================================
