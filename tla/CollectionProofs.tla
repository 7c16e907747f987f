-------------------------- MODULE CollectionProofs --------------------------
(***************************************************************************)
(* What a part of a list holds, and where, and how a sum over a set        *)
(* changes: the lemmas the proofs about merged CA bundles, list flags,     *)
(* requests and counters share.                                            *)
(***************************************************************************)
EXTENDS Collections, FiniteSetTheorems, TLAPS

\* Some place is the first of any set of them.
LEMMA FirstPlace ==
  ASSUME NEW T, T \subseteq Nat, T # {}
  PROVE  \E x \in T : \A y \in T : x <= y
<1> DEFINE R == OpToRel(<, Nat)
<1>1. IsWellFoundedOn(R, Nat)
  BY NatLessThanWellFounded
<1>2. \A x, y \in Nat : y < x => <<y, x>> \in R
  BY DEF OpToRel
<1> HIDE DEF R
<1>3. PICK x \in T : \A y \in T : ~(<<y, x>> \in R)
  BY <1>1, WFMin
<1>4. ASSUME NEW y \in T PROVE x <= y
  <2>1. x \in Nat /\ y \in Nat
    OBVIOUS
  <2>2. ~(y < x)
    BY <1>2, <1>3, <2>1
  <2> QED
    BY <2>1, <2>2
<1> QED
  BY <1>4

\* The places of a set are counted 1, 2, and so on to the last.
LEMMA RankCounts ==
  ASSUME NEW n \in Nat, NEW K \in SUBSET (1..n)
  PROVE  /\ IsFiniteSet(K) /\ Cardinality(K) \in Nat
         /\ \A i \in K : Rank(K, i) \in 1..Cardinality(K)
         /\ \A i, j \in K : Rank(K, i) = Rank(K, j) => i = j
         /\ \A k \in 1..Cardinality(K) : \E i \in K : Rank(K, i) = k
<1> DEFINE Upto(i) == {j \in K : j <= i}
<1>1. IsFiniteSet(K) /\ Cardinality(K) \in Nat
  <2>1. IsFiniteSet(1..n)
    BY FS_Interval
  <2> QED
    BY <2>1, FS_Subset, FS_CardinalityType
<1>2. \A i : Upto(i) \in SUBSET K /\ Rank(K, i) = Cardinality(Upto(i))
  BY DEF Rank
<1> HIDE DEF Upto
<1>3. ASSUME NEW i
      PROVE  IsFiniteSet(Upto(i)) /\ Rank(K, i) \in Nat /\ Rank(K, i) <= Cardinality(K)
  <2>1. IsFiniteSet(Upto(i)) /\ Cardinality(Upto(i)) <= Cardinality(K)
    BY <1>1, <1>2, FS_Subset
  <2>2. Cardinality(Upto(i)) \in Nat
    BY <2>1, FS_CardinalityType
  <2> QED
    BY <1>2, <2>1, <2>2
<1>4. ASSUME NEW i \in K PROVE Rank(K, i) \in 1..Cardinality(K)
  <2>1. i \in Upto(i)
    BY DEF Upto
  <2>2. Rank(K, i) # 0
    BY <2>1, <1>2, <1>3, FS_EmptySet
  <2> QED
    BY <1>1, <1>3, <2>2
<1>5. ASSUME NEW i \in K, NEW j \in K, Rank(K, i) = Rank(K, j) PROVE ~(i < j)
  <2>1. SUFFICES ASSUME i < j PROVE FALSE
    OBVIOUS
  <2>2. Upto(i) \in SUBSET Upto(j) /\ j \in Upto(j) /\ j \notin Upto(i)
    <3>1. i \in Int /\ \A k \in K : k \in Int
      OBVIOUS
    <3>2. \A k \in K : k <= i => k <= j
      BY <2>1, <3>1
    <3>3. Upto(i) \subseteq Upto(j)
      BY <3>2 DEF Upto
    <3>4. j <= j /\ ~(j <= i)
      BY <2>1, <3>1
    <3>5. j \in Upto(j) /\ j \notin Upto(i)
      BY <3>4 DEF Upto
    <3> QED
      BY <3>3, <3>5
  <2>3. Upto(i) = Upto(j)
    BY <1>2, <1>3, <1>5, <2>2, FS_Subset
  <2> QED
    BY <2>2, <2>3
<1>6. \A i, j \in K : Rank(K, i) = Rank(K, j) => i = j
  <2>1. \A i, j \in K : i < j \/ j < i \/ i = j
    OBVIOUS
  <2> QED
    BY <1>5, <2>1
<1> DEFINE f == [i \in K |-> Rank(K, i)]
<1>7. f \in Injection(K, 1..Cardinality(K))
  BY <1>4, <1>6 DEF Injection, IsInjective
<1>8. IsFiniteSet(1..Cardinality(K)) /\ Cardinality(1..Cardinality(K)) = Cardinality(K)
  BY <1>1, FS_Interval
<1> HIDE DEF f
<1>9. f \in Surjection(K, 1..Cardinality(K))
  BY <1>7, <1>8, FS_Injection
<1>10. ASSUME NEW k \in 1..Cardinality(K) PROVE \E i \in K : Rank(K, i) = k
  BY <1>9 DEF Surjection, f
<1> QED
  BY <1>1, <1>4, <1>6, <1>10

\* The k-th element picked is the one at the k-th place.
LEMMA PickedAt ==
  ASSUME NEW s, NEW n \in Nat, NEW K \in SUBSET (1..n)
  PROVE  /\ Cardinality(K) \in Nat /\ DOMAIN Picked(s, K) = 1..Cardinality(K)
         /\ \A k \in 1..Cardinality(K) :
              \E i \in K : Rank(K, i) = k /\ Picked(s, K)[k] = s[i]
         /\ \A i \in K : /\ Rank(K, i) \in 1..Cardinality(K)
                         /\ Picked(s, K)[Rank(K, i)] = s[i]
<1>1. /\ Cardinality(K) \in Nat
      /\ \A i \in K : Rank(K, i) \in 1..Cardinality(K)
      /\ \A i, j \in K : Rank(K, i) = Rank(K, j) => i = j
      /\ \A k \in 1..Cardinality(K) : \E i \in K : Rank(K, i) = k
  BY RankCounts
<1>2. /\ DOMAIN Picked(s, K) = 1..Cardinality(K)
      /\ \A k \in 1..Cardinality(K) : Picked(s, K)[k] = s[CHOOSE i \in K : Rank(K, i) = k]
  BY DEF Picked
<1>3. ASSUME NEW k \in 1..Cardinality(K)
      PROVE  \E i \in K : Rank(K, i) = k /\ Picked(s, K)[k] = s[i]
  <2>1. \E i \in K : Rank(K, i) = k
    BY <1>1
  <2> QED
    BY <1>2, <2>1
<1>4. ASSUME NEW i \in K PROVE Picked(s, K)[Rank(K, i)] = s[i]
  BY <1>1, <1>3
<1> QED
  BY <1>1, <1>2, <1>3, <1>4

\* What is picked from a list over S is a list over S, of the elements picked.
LEMMA PickedSeq ==
  ASSUME NEW S, NEW s \in Seq(S), NEW K \in SUBSET DOMAIN s
  PROVE  /\ Picked(s, K) \in Seq(S) /\ Len(Picked(s, K)) = Cardinality(K)
         /\ \A j \in DOMAIN Picked(s, K) : \E i \in K : Picked(s, K)[j] = s[i]
         /\ \A i \in K : \E j \in DOMAIN Picked(s, K) : Picked(s, K)[j] = s[i]
<1> DEFINE n == Cardinality(K)
           t == Picked(s, K)
<1>1. /\ Len(s) \in Nat /\ K \in SUBSET (1..Len(s))
      /\ DOMAIN s = 1..Len(s) /\ \A i \in DOMAIN s : s[i] \in S
  OBVIOUS
<1> HIDE DEF n, t
<1>2. /\ n \in Nat /\ DOMAIN t = 1..n
      /\ \A k \in 1..n : \E i \in K : t[k] = s[i]
      /\ \A i \in K : Rank(K, i) \in 1..n /\ t[Rank(K, i)] = s[i]
  BY <1>1, PickedAt DEF n, t
<1>3. t = [k \in 1..n |-> t[k]]
  BY DEF Picked, n, t
<1>4. \A k \in 1..n : t[k] \in S
  BY <1>1, <1>2
<1>5. t \in [1..n -> S]
  BY <1>3, <1>4
<1>6. t \in Seq(S) /\ Len(t) = n
  BY <1>2, <1>5
<1> QED
  BY <1>2, <1>6 DEF n, t

\* An element is picked as often as it is at a place of K.
LEMMA PickedAlike ==
  ASSUME NEW S, NEW s \in Seq(S), NEW K \in SUBSET DOMAIN s, NEW v
  PROVE  LET from == {i \in K : s[i] = v}
             to   == PlacesOf(v, Picked(s, K))
         IN  IsFiniteSet(from) /\ IsFiniteSet(to) /\ Cardinality(from) = Cardinality(to)
<1> DEFINE from == {i \in K : s[i] = v}
           to == {j \in DOMAIN Picked(s, K) : Picked(s, K)[j] = v}
           f == [i \in from |-> Rank(K, i)]
<1>1. Len(s) \in Nat /\ K \in SUBSET (1..Len(s))
  OBVIOUS
<1>2. /\ IsFiniteSet(K)
      /\ \A i, j \in K : Rank(K, i) = Rank(K, j) => i = j
      /\ \A i \in K : Rank(K, i) \in DOMAIN Picked(s, K) /\ Picked(s, K)[Rank(K, i)] = s[i]
      /\ \A k \in DOMAIN Picked(s, K) :
           \E i \in K : Rank(K, i) = k /\ Picked(s, K)[k] = s[i]
  <2> DEFINE t == Picked(s, K)
  <2> HIDE DEF t
  <2>1. IsFiniteSet(K) /\ \A i, j \in K : Rank(K, i) = Rank(K, j) => i = j
    BY <1>1, RankCounts
  <2>2. /\ DOMAIN t = 1..Cardinality(K)
        /\ \A i \in K : Rank(K, i) \in 1..Cardinality(K) /\ t[Rank(K, i)] = s[i]
        /\ \A k \in 1..Cardinality(K) : \E i \in K : Rank(K, i) = k /\ t[k] = s[i]
    BY <1>1, PickedAt DEF t
  <2> QED
    BY <2>1, <2>2 DEF t
<1>3. IsFiniteSet(from)
  BY <1>2, FS_Subset
<1>4. f \in [from -> to]
  BY <1>2
<1>5. f \in Injection(from, to)
  BY <1>2, <1>4 DEF Injection, IsInjective
<1>6. f \in Surjection(from, to)
  <2>1. ASSUME NEW k \in to PROVE \E i \in from : f[i] = k
    BY <1>2
  <2> QED
    BY <1>4, <2>1 DEF Surjection
<1>7. ExistsBijection(from, to)
  BY <1>5, <1>6 DEF ExistsBijection, Bijection
<1>8. to = PlacesOf(v, Picked(s, K))
  BY DEF PlacesOf
<1> HIDE DEF from, to
<1>9. IsFiniteSet(to) /\ Cardinality(to) = Cardinality(from)
  BY <1>3, <1>7, FS_Bijection
<1> QED
  BY <1>3, <1>8, <1>9 DEF from

LEMMA PlacesFinite ==
  ASSUME NEW S, NEW s \in Seq(S), NEW v
  PROVE  IsFiniteSet(PlacesOf(v, s)) /\ Cardinality(PlacesOf(v, s)) \in Nat
<1>1. IsFiniteSet(1..Len(s))
  BY FS_Interval
<1>2. PlacesOf(v, s) \in SUBSET (1..Len(s))
  BY DEF PlacesOf
<1> QED
  BY <1>1, <1>2, FS_Subset, FS_CardinalityType

-----------------------------------------------------------------------------
(***************************************************************************)
(* Sums over a finite set.                                                 *)
(***************************************************************************)
FiniteParts(A, F) == IsFiniteSet(A) /\ \A a \in A : IsFiniteSet(F[a])

LEMMA DisjointCount ==
  ASSUME NEW S, NEW T, IsFiniteSet(S), IsFiniteSet(T), S \cap T = {}
  PROVE  /\ IsFiniteSet(S \cup T) /\ Cardinality(S) \in Nat /\ Cardinality(T) \in Nat
         /\ Cardinality(S \cup T) = Cardinality(S) + Cardinality(T)
<1>1. /\ IsFiniteSet(S \cup T)
      /\ Cardinality(S \cup T) = Cardinality(S) + Cardinality(T) - Cardinality(S \cap T)
  BY FS_Union
<1>2. Cardinality(S) \in Nat /\ Cardinality(T) \in Nat
  BY FS_CardinalityType
<1>3. Cardinality(S \cap T) = 0
  BY FS_EmptySet
<1> QED
  BY <1>1, <1>2, <1>3

LEMMA TagCount ==
  ASSUME NEW a, NEW B, IsFiniteSet(B)
  PROVE  /\ IsFiniteSet({a} \X B) /\ Cardinality(B) \in Nat
         /\ Cardinality({a} \X B) = Cardinality(B)
<1>1. Cardinality(B) \in Nat
  BY FS_CardinalityType
<1>2. IsFiniteSet({a}) /\ Cardinality({a}) = 1
  BY FS_Singleton
<1>3. IsFiniteSet({a} \X B) /\ Cardinality({a} \X B) = Cardinality({a}) * Cardinality(B)
  BY <1>2, FS_Product
<1> QED
  BY <1>1, <1>2, <1>3

LEMMA TaggedFinite ==
  ASSUME NEW A, NEW F, FiniteParts(A, F)
  PROVE  IsFiniteSet(Tagged(A, F)) /\ Total(A, F) \in Nat
<1> DEFINE f == [a \in A |-> {a} \X F[a]]
           T == {{a} \X F[a] : a \in A}
<1>1. f \in Surjection(A, T)
  BY DEF Surjection
<1>2. IsFiniteSet(T)
  BY <1>1, FS_Surjection DEF FiniteParts
<1>3. \A B \in T : IsFiniteSet(B)
  <2>1. \A a \in A : IsFiniteSet({a} \X F[a])
    BY TagCount DEF FiniteParts
  <2> QED
    BY <2>1
<1> HIDE DEF T
<1>4. IsFiniteSet(UNION T)
  BY <1>2, <1>3, FS_UNION
<1>5. IsFiniteSet(Tagged(A, F))
  BY <1>4 DEF T, Tagged
<1> QED
  BY <1>5, FS_CardinalityType DEF Total

LEMMA TotalWithin ==
  ASSUME NEW A, NEW F, NEW G, FiniteParts(A, F), \A a \in A : G[a] \subseteq F[a]
  PROVE  FiniteParts(A, G) /\ Total(A, G) <= Total(A, F)
<1>1. FiniteParts(A, G)
  BY FS_Subset DEF FiniteParts
<1>2. Tagged(A, G) \subseteq Tagged(A, F)
  BY DEF Tagged
<1> QED
  BY <1>1, <1>2, TaggedFinite, FS_Subset DEF Total

LEMMA TotalOne ==
  ASSUME NEW A, NEW F, FiniteParts(A, F), NEW a \in A
  PROVE  LET Rest == {x \in Tagged(A, F) : x[1] # a}
         IN  /\ IsFiniteSet(Rest) /\ Cardinality(Rest) \in Nat
             /\ Cardinality(F[a]) \in Nat
             /\ Total(A, F) = Cardinality(Rest) + Cardinality(F[a])
<1> DEFINE Rest == {x \in Tagged(A, F) : x[1] # a}
           Own == {a} \X F[a]
<1>1. Tagged(A, F) = Rest \cup Own /\ Rest \cap Own = {}
  <2>1. ASSUME NEW x \in Tagged(A, F), x[1] = a PROVE x \in Own
    BY <2>1 DEF Tagged
  <2>2. \A x \in Own : x \in Tagged(A, F) /\ x[1] = a
    BY DEF Tagged
  <2> HIDE DEF Own
  <2> QED
    BY <2>1, <2>2
<1>2. IsFiniteSet(Rest)
  <2>1. Rest \in SUBSET Tagged(A, F)
    OBVIOUS
  <2> HIDE DEF Rest
  <2> QED
    BY <2>1, TaggedFinite, FS_Subset
<1>3. IsFiniteSet(Own) /\ Cardinality(Own) = Cardinality(F[a]) /\ Cardinality(F[a]) \in Nat
  BY TagCount DEF FiniteParts
<1> HIDE DEF Own, Rest
<1>4. /\ Cardinality(Rest) \in Nat
      /\ Cardinality(Rest \cup Own) = Cardinality(Rest) + Cardinality(Own)
  BY <1>1, <1>2, <1>3, DisjointCount
<1> QED
  BY <1>1, <1>2, <1>3, <1>4 DEF Total, Rest

\* If one part changes, the sum changes by as much.
LEMMA TotalChange ==
  ASSUME NEW A, NEW F, NEW G, FiniteParts(A, F), FiniteParts(A, G), NEW a \in A,
         \A b \in A : b # a => G[b] = F[b]
  PROVE  /\ Cardinality(F[a]) \in Nat /\ Cardinality(G[a]) \in Nat
         /\ Total(A, F) \in Nat /\ Total(A, G) \in Nat
         /\ Total(A, G) + Cardinality(F[a]) = Total(A, F) + Cardinality(G[a])
<1>1. {x \in Tagged(A, F) : x[1] # a} = {x \in Tagged(A, G) : x[1] # a}
  <2>1. ASSUME NEW x, x[1] # a PROVE x \in Tagged(A, F) <=> x \in Tagged(A, G)
    <3>1. \A b \in A : x \in {b} \X F[b] => b # a
      BY <2>1
    <3>2. \A b \in A : x \in {b} \X G[b] => b # a
      BY <2>1
    <3>3. \A b \in A : x \in {b} \X F[b] <=> x \in {b} \X G[b]
      BY <3>1, <3>2
    <3> QED
      BY <3>3 DEF Tagged
  <2> QED
    BY <2>1
<1> DEFINE Rest == {x \in Tagged(A, F) : x[1] # a}
<1>2. /\ Cardinality(Rest) \in Nat /\ Cardinality(F[a]) \in Nat
      /\ Total(A, F) = Cardinality(Rest) + Cardinality(F[a])
  BY TotalOne
<1>3. /\ Cardinality(G[a]) \in Nat
      /\ Total(A, G) = Cardinality(Rest) + Cardinality(G[a])
  BY <1>1, TotalOne
<1> HIDE DEF Rest
<1> QED
  BY <1>2, <1>3
=============================================================================
