--------------------------- MODULE AscendingProofs ---------------------------
(***************************************************************************)
(* InOrder(S) has each element of S once, at its rank, in increasing       *)
(* order; and sets of numbers have least and greatest elements.            *)
(***************************************************************************)
EXTENDS Ascending, Sequences, FiniteSetTheorems, WellFoundedInduction, TLAPS

\* Induction, as a fact about sets: the natural numbers are well-founded.
LEMMA LeastNat ==
  ASSUME NEW T \in SUBSET Nat, T # {}
  PROVE  \E m \in T : \A k \in T : m <= k
<1> DEFINE R == OpToRel(<, Nat)
<1>1. IsWellFoundedOn(R, Nat)
  BY NatLessThanWellFounded
<1>2. \A y, x \in Nat : y < x => <<y, x>> \in R
  BY DEF OpToRel
<1> HIDE DEF R
<1>3. PICK x \in T : \A y \in T : ~ (<<y, x>> \in R)
  BY <1>1, WFMin
<1>4. \A y \in T : ~ (y < x)
  BY <1>2, <1>3, Zenon
<1>5. QED
  BY <1>4

LEMMA GreatestNat ==
  ASSUME NEW n \in Nat, NEW T \in SUBSET (0 .. n), T # {}
  PROVE  \E m \in T : \A k \in T : k <= m
<1> DEFINE D == {d \in Nat : n - d \in T}
<1>1. D \in SUBSET Nat
  OBVIOUS
<1>2. D # {}
  <2>1. PICK k \in T : TRUE
    OBVIOUS
  <2>2. n - k \in Nat /\ n - (n - k) = k
    OBVIOUS
  <2>3. n - k \in D
    BY <2>2
  <2>4. QED
    BY <2>3
<1>3. PICK d \in D : \A e \in D : d <= e
  <2> HIDE DEF D
  <2>1. QED
    BY <1>1, <1>2, LeastNat
<1>4. ASSUME NEW k \in T PROVE k <= n - d
  <2>1. n - k \in Nat /\ n - (n - k) = k
    OBVIOUS
  <2>2. n - k \in D
    BY <2>1
  <2>3. d <= n - k
    BY <2>2, <1>3
  <2>4. QED
    BY <2>3
<1>5. QED
  BY <1>3, <1>4

LEMMA PlacesFinite ==
  ASSUME NEW n \in Nat, NEW P \in SUBSET (1 .. n)
  PROVE  IsFiniteSet(P) /\ Cardinality(P) \in Nat
<1>1. IsFiniteSet(1 .. n)
  BY FS_Interval
<1>2. IsFiniteSet(P)
  BY <1>1, FS_Subset
<1>3. QED
  BY <1>2, FS_CardinalityType

\* Some place in a set of places is the k-th.
LEMMA KthPlace ==
  ASSUME NEW n \in Nat, NEW P \in SUBSET (1 .. n), NEW k \in 1 .. Cardinality(P)
  PROVE  \E i \in P : Rank(P, i) = k
<1> DEFINE U(i) == {j \in P : j <= i}
           T == {i \in Nat : Cardinality(U(i)) >= k}
<1>1. Cardinality(P) \in Nat
  BY PlacesFinite
<1>2. \A i : IsFiniteSet(U(i)) /\ Cardinality(U(i)) \in Nat
  <2> TAKE i
  <2>1. U(i) \in SUBSET (1 .. n)
    OBVIOUS
  <2>2. QED
    BY <2>1, PlacesFinite
<1>3. U(n) = P
  <2>1. \A j \in P : j <= n
    OBVIOUS
  <2>2. QED
    BY <2>1
<1>4. n \in T
  BY <1>1, <1>3
<1>5. PICK m \in T : \A i \in T : m <= i
  <2>1. T \in SUBSET Nat /\ T # {}
    BY <1>4
  <2> HIDE DEF T
  <2>2. QED
    BY <2>1, LeastNat
<1>6. m # 0
  <2>1. U(0) = {}
    <3>1. \A j \in P : ~ (j <= 0)
      OBVIOUS
    <3>2. QED
      BY <3>1
  <2>2. Cardinality(U(0)) = 0
    BY <2>1, FS_EmptySet
  <2>3. QED
    BY <1>1, <2>2
<1>7. m - 1 \in Nat /\ Cardinality(U(m - 1)) < k
  <2>1. m \in Nat /\ m - 1 \in Nat /\ ~ (m <= m - 1)
    BY <1>6
  <2>2. m - 1 \notin T
    BY <1>5, <2>1
  <2>3. ~ (Cardinality(U(m - 1)) >= k)
    BY <2>1, <2>2
  <2>4. Cardinality(U(m - 1)) \in Nat
    BY <1>2
  <2> HIDE DEF U
  <2>5. QED
    BY <1>1, <2>1, <2>3, <2>4
<1>8. m \notin U(m - 1) /\ U(m) = IF m \in P THEN U(m - 1) \cup {m} ELSE U(m - 1)
  <2>1. \A j \in P : (j <= m) <=> (j <= m - 1 \/ j = m)
    OBVIOUS
  <2>2. ~ (m <= m - 1)
    OBVIOUS
  <2>3. QED
    BY <2>1, <2>2
<1>9. Cardinality(U(m)) >= k
  BY <1>5
<1> HIDE DEF U
<1>10. m \in P
  BY <1>1, <1>2, <1>7, <1>8, <1>9
<1>11. Cardinality(U(m)) = Cardinality(U(m - 1)) + 1
  BY <1>2, <1>8, <1>10, FS_AddElement
<1>12. Cardinality(U(m)) = k
  BY <1>1, <1>2, <1>7, <1>9, <1>11
<1>13. QED
  BY <1>10, <1>12 DEF U, Rank

\* Later places have higher ranks.
LEMMA RankGrows ==
  ASSUME NEW n \in Nat, NEW P \in SUBSET (1 .. n), NEW i \in P, NEW j \in P, i < j
  PROVE  Rank(P, i) < Rank(P, j)
<1> DEFINE U(k) == {l \in P : l <= k}
<1>1. \A k : IsFiniteSet(U(k)) /\ Cardinality(U(k)) \in Nat
  <2> TAKE k
  <2>1. U(k) \in SUBSET (1 .. n)
    OBVIOUS
  <2>2. QED
    BY <2>1, PlacesFinite
<1>2. U(i) \subseteq U(j) /\ j \in U(j) /\ j \notin U(i)
  <2>1. \A l \in P : l <= i => l <= j
    OBVIOUS
  <2>2. ~ (j <= i) /\ j <= j
    OBVIOUS
  <2>3. QED
    BY <2>1, <2>2
<1> HIDE DEF U
<1>3. Cardinality(U(i)) <= Cardinality(U(j)) /\ Cardinality(U(i)) # Cardinality(U(j))
  BY <1>1, <1>2, FS_Subset
<1>4. Cardinality(U(i)) < Cardinality(U(j))
  BY <1>1, <1>3
<1>5. QED
  BY <1>4 DEF U, Rank

LEMMA RankType ==
  ASSUME NEW n \in Nat, NEW P \in SUBSET (1 .. n), NEW i \in P
  PROVE  Rank(P, i) \in 1 .. Cardinality(P)
<1> DEFINE U == {j \in P : j <= i}
<1>1. IsFiniteSet(P) /\ Cardinality(P) \in Nat
  BY PlacesFinite
<1>2. U \subseteq P /\ i \in U
  OBVIOUS
<1> HIDE DEF U
<1>3. IsFiniteSet(U) /\ Cardinality(U) <= Cardinality(P) /\ Cardinality(U) \in Nat
  BY <1>1, <1>2, FS_Subset, FS_CardinalityType
<1>4. Cardinality(U) # 0
  BY <1>2, <1>3, FS_EmptySet
<1>5. Cardinality(U) \in 1 .. Cardinality(P)
  BY <1>1, <1>3, <1>4
<1>6. QED
  BY <1>5 DEF U, Rank

\* InOrder is the inverse of Rank.
LEMMA InOrderProperties ==
  ASSUME NEW n \in Nat, NEW P \in SUBSET (1 .. n)
  PROVE  /\ InOrder(P) \in Seq(P) /\ Len(InOrder(P)) = Cardinality(P)
         /\ Cardinality(P) \in Nat
         /\ \A k \in 1 .. Cardinality(P) : Rank(P, InOrder(P)[k]) = k
         /\ \A i \in P : Rank(P, i) \in 1 .. Cardinality(P) /\ InOrder(P)[Rank(P, i)] = i
         /\ \A k, l \in 1 .. Cardinality(P) : k < l => InOrder(P)[k] < InOrder(P)[l]
<1> DEFINE m == Cardinality(P)
           at(k) == CHOOSE i \in P : Rank(P, i) = k
<1>1. m \in Nat
  BY PlacesFinite
<1>2. ASSUME NEW k \in 1 .. m PROVE at(k) \in P /\ Rank(P, at(k)) = k
  <2>1. \E i \in P : Rank(P, i) = k
    BY KthPlace
  <2>2. QED
    BY <2>1
<1>3. InOrder(P) = [k \in 1 .. m |-> at(k)]
  BY DEF InOrder
<1> HIDE DEF at, m
<1>4. InOrder(P) \in Seq(P) /\ Len(InOrder(P)) = m
  <2>1. [k \in 1 .. m |-> at(k)] \in [1 .. m -> P]
    BY <1>2
  <2>2. QED
    BY <1>1, <1>3, <2>1
<1>5. \A k \in 1 .. m : InOrder(P)[k] \in P /\ Rank(P, InOrder(P)[k]) = k
  BY <1>2, <1>3
<1>6. \A i \in P : Rank(P, i) \in 1 .. m
  BY RankType DEF m
<1>7. \A i, j \in P : Rank(P, i) = Rank(P, j) => i = j
  <2> SUFFICES ASSUME NEW i \in P, NEW j \in P, Rank(P, i) = Rank(P, j), i # j PROVE FALSE
    OBVIOUS
  <2>1. i < j \/ j < i
    OBVIOUS
  <2>2. Rank(P, i) < Rank(P, j) \/ Rank(P, j) < Rank(P, i)
    BY <2>1, RankGrows
  <2>3. Rank(P, i) \in Nat
    BY <1>1, <1>6
  <2>4. QED
    BY <2>2, <2>3
<1>8. \A i \in P : InOrder(P)[Rank(P, i)] = i
  BY <1>5, <1>6, <1>7
<1>9. ASSUME NEW k \in 1 .. m, NEW l \in 1 .. m, k < l PROVE InOrder(P)[k] < InOrder(P)[l]
  <2>1. InOrder(P)[k] \in 1 .. n /\ InOrder(P)[l] \in 1 .. n
    BY <1>5
  <2>2. InOrder(P)[k] # InOrder(P)[l]
    BY <1>1, <1>5, <1>9
  <2>3. ~ (InOrder(P)[l] < InOrder(P)[k])
    <3> SUFFICES ASSUME InOrder(P)[l] < InOrder(P)[k] PROVE FALSE
      OBVIOUS
    <3>1. Rank(P, InOrder(P)[l]) < Rank(P, InOrder(P)[k])
      BY <1>5, RankGrows
    <3>2. QED
      BY <1>1, <1>5, <1>9, <3>1
  <2>4. QED
    BY <2>1, <2>2, <2>3
<1>10. QED
  BY <1>1, <1>4, <1>5, <1>6, <1>8, <1>9 DEF m

=============================================================================
