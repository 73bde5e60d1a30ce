------------------------- MODULE StableOrderProofs -------------------------
(***************************************************************************)
(* Facts about numbers and orders that the proofs about the components     *)
(* share: induction over an interval, and that sorting loses nothing and   *)
(* adds nothing, for any keys.                                             *)
(***************************************************************************)
EXTENDS StableOrder, FiniteSetTheorems, SequenceTheorems, TLAPS

-----------------------------------------------------------------------------
(* Induction over an interval, as a fact about sets: a non-empty set of      *)
(* numbers has a least element, because the intervals from 0 to its elements *)
(* are finite sets and strict inclusion is well founded on those.            *)
LEMMA LeastElement ==
    ASSUME NEW S \in SUBSET Nat, S # {}
    PROVE  \E m \in S : \A k \in S : m <= k
  <1> DEFINE Below == {0..m : m \in S}
  <1>1. Below \subseteq FiniteSubsetsOf(Nat) /\ Below # {}
    <2>1. \A m \in S : 0..m \in SUBSET Nat /\ IsFiniteSet(0..m)
      BY FS_Interval
    <2> QED BY <2>1 DEF FiniteSubsetsOf
  <1>2. IsWellFoundedOn(StrictSubsetOrdering(Nat), FiniteSubsetsOf(Nat))
    BY FS_StrictSubsetOrderingWellFounded
  <1>3. \E x \in Below : \A y \in Below : ~(<<y, x>> \in StrictSubsetOrdering(Nat))
    <2> HIDE DEF Below
    <2> QED BY <1>1, <1>2, WFMin
  <1>4. PICK m \in S : \A k \in S : ~(<<0..k, 0..m>> \in StrictSubsetOrdering(Nat))
    BY <1>3
  <1>5. ASSUME NEW k \in S, k < m PROVE FALSE
    <2>1. 0..k \subseteq 0..m /\ 0..k # 0..m /\ 0..k \in SUBSET Nat /\ 0..m \in SUBSET Nat
      BY <1>5
    <2> QED BY <1>4, <2>1 DEF StrictSubsetOrdering
  <1> QED BY <1>5

LEMMA IntervalInduction ==
    ASSUME NEW n \in Nat, NEW S, 1 \in S, \A i \in 1..(n - 1) : i \in S => i + 1 \in S
    PROVE  1..n \subseteq S
  <1> SUFFICES ASSUME (1..n) \ S # {} PROVE FALSE
    OBVIOUS
  <1>1. PICK m \in (1..n) \ S : \A k \in (1..n) \ S : m <= k
    <2>1. (1..n) \ S \in SUBSET Nat
      OBVIOUS
    <2> QED BY <2>1, LeastElement
  <1>2. m # 1 /\ m - 1 \in 1..(n - 1) /\ m - 1 \in 1..n /\ (m - 1) + 1 = m
    BY <1>1
  <1>3. m - 1 \in S
    BY <1>1, <1>2
  <1> QED BY <1>1, <1>2, <1>3

-----------------------------------------------------------------------------
(* Sorting: the rank of a place is the number of those before it; no two     *)
(* have the same rank, so that every rank is taken.                          *)
Earlier(keys, P, j) == {i \in P : Precedes(keys, i, j)}

LEMMA RanksDiffer ==
    ASSUME NEW keys, NEW P \in SUBSET Int, IsFiniteSet(P), \A i \in P : keys[i] \in Int
    PROVE  /\ Cardinality(P) \in Nat
           /\ \A j \in P : Rank(keys, P, j) \in 0..(Cardinality(P) - 1)
           /\ \A i, j \in P : i # j => Rank(keys, P, i) # Rank(keys, P, j)
           /\ \A i, j \in P : Precedes(keys, i, j) => Rank(keys, P, i) < Rank(keys, P, j)
  <1>1. Cardinality(P) \in Nat
    BY FS_CardinalityType
  <1>2. \A j \in P : j \notin Earlier(keys, P, j) /\ Earlier(keys, P, j) \subseteq P
    BY DEF Earlier, Precedes
  <1>3. \A j \in P : /\ IsFiniteSet(Earlier(keys, P, j)) /\ Rank(keys, P, j) \in Nat
                     /\ Rank(keys, P, j) = Cardinality(Earlier(keys, P, j))
    <2>1. \A j \in P : /\ IsFiniteSet(Earlier(keys, P, j))
                       /\ Cardinality(Earlier(keys, P, j)) \in Nat
      BY <1>2, FS_Subset, FS_CardinalityType
    <2> QED BY <2>1 DEF Rank, Earlier
  <1>4. ASSUME NEW j \in P PROVE Rank(keys, P, j) < Cardinality(P)
    <2>1. Earlier(keys, P, j) # P /\ Earlier(keys, P, j) \subseteq P
      BY <1>2
    <2>2. Cardinality(Earlier(keys, P, j)) < Cardinality(P)
      BY <1>1, <1>3, <2>1, FS_Subset
    <2> QED BY <2>2, <1>3
  <1>5. ASSUME NEW i \in P, NEW j \in P, Precedes(keys, i, j)
        PROVE  Rank(keys, P, i) < Rank(keys, P, j)
    <2>1. i \in Earlier(keys, P, j) /\ i \notin Earlier(keys, P, i)
      BY <1>5, <1>2 DEF Earlier
    <2>2. ASSUME NEW k \in Earlier(keys, P, i) PROVE k \in Earlier(keys, P, j)
      BY <1>5, <2>2 DEF Earlier, Precedes
    <2>3. /\ Earlier(keys, P, i) \subseteq Earlier(keys, P, j)
          /\ Earlier(keys, P, i) # Earlier(keys, P, j)
      BY <2>1, <2>2
    <2>4. Cardinality(Earlier(keys, P, i)) < Cardinality(Earlier(keys, P, j))
      BY <2>3, <1>3, FS_Subset
    <2> QED BY <2>4, <1>3
  <1>6. ASSUME NEW i \in P, NEW j \in P, i # j
        PROVE  Precedes(keys, i, j) \/ Precedes(keys, j, i)
    BY <1>6 DEF Precedes
  <1>7. \A j \in P : Rank(keys, P, j) \in 0..(Cardinality(P) - 1)
    BY <1>1, <1>3, <1>4
  <1>8. ASSUME NEW i \in P, NEW j \in P, i # j
        PROVE  Rank(keys, P, i) # Rank(keys, P, j)
    BY <1>3, <1>5, <1>6, <1>8
  <1> QED BY <1>1, <1>5, <1>7, <1>8

(* Every place of P has one position in the order, and nothing else has.     *)
LEMMA InOrderIsPermutation ==
    ASSUME NEW keys, NEW P \in SUBSET Int, IsFiniteSet(P), \A i \in P : keys[i] \in Int
    PROVE  /\ Cardinality(P) \in Nat
           /\ InOrder(keys, P) \in [1..Cardinality(P) -> P]
           /\ \A j \in P : \E k \in 1..Cardinality(P) : InOrder(keys, P)[k] = j
           /\ \A k \in 1..Cardinality(P) : Rank(keys, P, InOrder(keys, P)[k]) = k - 1
  <1> DEFINE n == Cardinality(P)
             rank == [j \in P |-> Rank(keys, P, j)]
             At(k) == CHOOSE j \in P : Rank(keys, P, j) = k - 1
  <1>1. n \in Nat
    BY RanksDiffer
  <1>2. rank \in [P -> 0..(n - 1)] /\ \A i, j \in P : i # j => rank[i] # rank[j]
    BY RanksDiffer
  <1>3. IsFiniteSet(0..(n - 1)) /\ Cardinality(0..(n - 1)) = n
    <2>1. IsFiniteSet(0..(n - 1))
          /\ Cardinality(0..(n - 1)) = IF 0 > n - 1 THEN 0 ELSE (n - 1) - 0 + 1
      BY <1>1, FS_Interval, SMTT(30)
    <2> HIDE DEF n
    <2> QED BY <2>1, <1>1
  <1>4. \A k \in 0..(n - 1) : \E j \in P : rank[j] = k
    <2>1. Cardinality(P) = n
      OBVIOUS
    <2> HIDE DEF rank, n
    <2>2. rank \in Injection(P, 0..(n - 1))
      BY <1>2 DEF Injection, IsInjective
    <2>3. rank \in Surjection(P, 0..(n - 1))
      BY <2>1, <2>2, <1>3, FS_Injection
    <2> QED BY <2>3 DEF Surjection
  <1>5. \A k \in 1..n : \E j \in P : Rank(keys, P, j) = k - 1
    BY <1>1, <1>4
  <1>6. \A k \in 1..n : /\ At(k) \in P /\ Rank(keys, P, At(k)) = k - 1
                        /\ InOrder(keys, P)[k] = At(k)
    BY <1>5 DEF InOrder
  <1>7. InOrder(keys, P) \in [1..n -> P]
    BY <1>6 DEF InOrder
  <1> HIDE DEF At
  <1>8. ASSUME NEW j \in P PROVE \E k \in 1..n : InOrder(keys, P)[k] = j
    <2>1. PICK k \in 1..n : k - 1 = Rank(keys, P, j)
      <3>1. Rank(keys, P, j) \in 0..(n - 1)
        BY RanksDiffer
      <3>2. Rank(keys, P, j) + 1 \in 1..n /\ (Rank(keys, P, j) + 1) - 1 = Rank(keys, P, j)
        BY <1>1, <3>1
      <3> QED BY <3>2
    <2>2. At(k) = j
      BY <2>1, <1>6, RanksDiffer
    <2> QED BY <2>2, <1>6
  <1> QED BY <1>1, <1>6, <1>7, <1>8

(* What is arranged is what stands at the places, all of it and no more.     *)
LEMMA ArrangedIsPermutation ==
    ASSUME NEW s, NEW keys, NEW P \in SUBSET Int, IsFiniteSet(P), \A i \in P : keys[i] \in Int
    PROVE  /\ Cardinality(P) \in Nat /\ DOMAIN Arranged(s, keys, P) = 1..Cardinality(P)
           /\ \A k \in 1..Cardinality(P) : \E j \in P : Arranged(s, keys, P)[k] = s[j]
           /\ \A j \in P : \E k \in 1..Cardinality(P) : Arranged(s, keys, P)[k] = s[j]
  <1>1. /\ Cardinality(P) \in Nat
        /\ InOrder(keys, P) \in [1..Cardinality(P) -> P]
        /\ \A j \in P : \E k \in 1..Cardinality(P) : InOrder(keys, P)[k] = j
    BY InOrderIsPermutation
  <1>2. /\ DOMAIN Arranged(s, keys, P) = 1..Cardinality(P)
        /\ \A k \in 1..Cardinality(P) : Arranged(s, keys, P)[k] = s[InOrder(keys, P)[k]]
    BY DEF Arranged
  <1>3. ASSUME NEW k \in 1..Cardinality(P)
        PROVE  \E j \in P : Arranged(s, keys, P)[k] = s[j]
    <2>1. InOrder(keys, P)[k] \in P /\ Arranged(s, keys, P)[k] = s[InOrder(keys, P)[k]]
      BY <1>1, <1>2
    <2> QED BY <2>1
  <1>4. ASSUME NEW j \in P
        PROVE  \E k \in 1..Cardinality(P) : Arranged(s, keys, P)[k] = s[j]
    <2>1. PICK k \in 1..Cardinality(P) : InOrder(keys, P)[k] = j
      BY <1>1
    <2>2. Arranged(s, keys, P)[k] = s[j]
      BY <1>2, <2>1
    <2> QED BY <2>2
  <1> QED BY <1>1, <1>2, <1>3, <1>4

(* A whole sequence: its places are an interval.                             *)
LEMMA SortedKeepsAll ==
    ASSUME NEW S, NEW s \in Seq(S), NEW keys, \A i \in 1..Len(s) : keys[i] \in Int
    PROVE  /\ Arranged(s, keys, 1..Len(s)) \in Seq(S)
           /\ Len(Arranged(s, keys, 1..Len(s))) = Len(s)
           /\ \A k \in 1..Len(s) : \E j \in 1..Len(s) : Arranged(s, keys, 1..Len(s))[k] = s[j]
           /\ \A j \in 1..Len(s) : \E k \in 1..Len(s) : Arranged(s, keys, 1..Len(s))[k] = s[j]
  <1> DEFINE n == Len(s)
             A == Arranged(s, keys, 1..Len(s))
  <1>1. n \in Nat /\ \A j \in 1..n : s[j] \in S
    OBVIOUS
  <1>2. IsFiniteSet(1..n) /\ Cardinality(1..n) = n
    <2>1. IsFiniteSet(1..n) /\ Cardinality(1..n) = IF 1 > n THEN 0 ELSE n - 1 + 1
      BY <1>1, FS_Interval, SMTT(30)
    <2> HIDE DEF n
    <2> QED BY <2>1, <1>1
  <1>3. 1..n \in SUBSET Int
    OBVIOUS
  <1>4. /\ DOMAIN A = 1..n
        /\ \A k \in 1..n : \E j \in 1..n : A[k] = s[j]
        /\ \A j \in 1..n : \E k \in 1..n : A[k] = s[j]
    <2>1. \A i \in 1..n : keys[i] \in Int
      OBVIOUS
    <2> DEFINE P == 1..n
    <2>2. P \in SUBSET Int /\ IsFiniteSet(P) /\ (\A i \in P : keys[i] \in Int) /\ Cardinality(P) = n
      BY <1>2, <1>3, <2>1
    <2> HIDE DEF n, P
    <2>3. /\ DOMAIN Arranged(s, keys, P) = 1..Cardinality(P)
          /\ \A k \in 1..Cardinality(P) : \E j \in P : Arranged(s, keys, P)[k] = s[j]
          /\ \A j \in P : \E k \in 1..Cardinality(P) : Arranged(s, keys, P)[k] = s[j]
      BY <2>2, ArrangedIsPermutation
    <2> QED BY <2>2, <2>3 DEF n, P
  <1>5. \A k \in 1..n : A[k] \in S
    BY <1>1, <1>4
  <1>6. A = [k \in 1..n |-> A[k]]
    BY <1>2, <1>4 DEF Arranged
  <1>7. A \in Seq(S) /\ Len(A) = n
    <2>1. A \in [1..n -> S]
      BY <1>5, <1>6
    <2> HIDE DEF A, n
    <2> QED BY <1>1, <1>4, <2>1
  <1> QED BY <1>4, <1>7

(* What is arranged earlier has no greater key, and is of another place.     *)
LEMMA SortedInOrder ==
    ASSUME NEW S, NEW s \in Seq(S), NEW keys, \A i \in 1..Len(s) : keys[i] \in Int,
           NEW k \in 1..Len(s), NEW l \in 1..Len(s), k < l
    PROVE  \E i, j \in 1..Len(s) :
              /\ i # j /\ keys[i] <= keys[j]
              /\ Arranged(s, keys, 1..Len(s))[k] = s[i]
              /\ Arranged(s, keys, 1..Len(s))[l] = s[j]
  <1> DEFINE n == Len(s)
             P == 1..Len(s)
             i == InOrder(keys, P)[k]
             j == InOrder(keys, P)[l]
  <1>1. n \in Nat /\ P \in SUBSET Int /\ k \in P /\ l \in P
    OBVIOUS
  <1>2. IsFiniteSet(P) /\ Cardinality(P) = n
    <2>1. IsFiniteSet(1..n) /\ Cardinality(1..n) = IF 1 > n THEN 0 ELSE n - 1 + 1
      BY <1>1, FS_Interval
    <2>2. P = 1..n
      OBVIOUS
    <2> HIDE DEF n, P
    <2> QED BY <1>1, <2>1, <2>2
  <1>3. \A m \in P : keys[m] \in Int
    OBVIOUS
  <1>4. P = 1..n /\ Arranged(s, keys, P) = [m \in 1..n |-> s[InOrder(keys, P)[m]]]
    BY <1>2 DEF Arranged
  <1> HIDE DEF n, P
  <1>5. /\ \A m \in 1..n : InOrder(keys, P)[m] \in P
        /\ \A m \in 1..n : Rank(keys, P, InOrder(keys, P)[m]) = m - 1
    <2>1. PICK Q : Q = P
      OBVIOUS
    <2>2. /\ InOrder(keys, Q) \in [1..n -> Q]
          /\ \A m \in 1..n : Rank(keys, Q, InOrder(keys, Q)[m]) = m - 1
      BY <1>1, <1>2, <1>3, <2>1, InOrderIsPermutation
    <2> QED BY <2>1, <2>2
  <1>6. i \in P /\ j \in P /\ Rank(keys, P, i) = k - 1 /\ Rank(keys, P, j) = l - 1
    BY <1>1, <1>4, <1>5
  <1>7. Arranged(s, keys, P)[k] = s[i] /\ Arranged(s, keys, P)[l] = s[j]
    BY <1>1, <1>4
  <1> HIDE DEF i, j
  <1>8. k \in Int /\ l \in Int
    BY <1>1
  <1>9. i # j
    BY <1>6, <1>8
  <1>10. ~Precedes(keys, j, i)
    <2>1. Precedes(keys, j, i) => Rank(keys, P, j) < Rank(keys, P, i)
      BY <1>1, <1>2, <1>3, <1>6, RanksDiffer
    <2> QED BY <1>6, <1>8, <2>1
  <1>11. keys[i] <= keys[j]
    <2>1. i \in Int /\ j \in Int /\ keys[i] \in Int /\ keys[j] \in Int
      BY <1>1, <1>3, <1>6
    <2> QED BY <1>10, <2>1 DEF Precedes
  <1> QED BY <1>6, <1>7, <1>9, <1>11 DEF P
=============================================================================
