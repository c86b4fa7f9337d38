----------------------------- MODULE NumberSets ------------------------------
(***************************************************************************)
(* What the proofs need of sets of numbers: a smallest element, a greatest *)
(* one of a finite set, and the element with so many others above it.      *)
(***************************************************************************)
EXTENDS Naturals, FiniteSetTheorems, WellFoundedInduction, TLAPS

(* A set of numbers has a smallest one.                                    *)
LEMMA SmallestExists ==
  ASSUME NEW S \in SUBSET Nat, S # {}
  PROVE  \E m \in S : \A x \in S : m <= x
<1> DEFINE R == {ss \in Nat \X Nat : ss[1] < ss[2]}
<1>1. IsWellFoundedOn(R, Nat)
  <2>1. R = OpToRel(<, Nat)
    BY Zenon DEF OpToRel
  <2>2. QED
    BY Zenon, <2>1, NatLessThanWellFounded
<1>2. \E m \in S : \A x \in S : <<x, m>> \notin R
  <2>1. S \subseteq Nat
    OBVIOUS
  <2> HIDE DEF R
  <2>2. QED
    BY ONLY <1>1, <2>1, S # {}, WFMin, Zenon
<1>3. \A m, x \in S : ~(x < m) => m <= x
  OBVIOUS
<1>4. \A m, x \in S : <<x, m>> \notin R => ~(x < m)
  OBVIOUS
<1>5. QED
  BY ONLY <1>2, <1>3, <1>4, Zenon

(* What is numbered and finite has an element with the greatest number:    *)
(* one of those with the fewest above them.                                *)
LEMMA GreatestExists ==
  ASSUME NEW S, IsFiniteSet(S), S # {}, NEW f \in [S -> Nat]
  PROVE  \E m \in S : \A x \in S : f[x] <= f[m]
<1> DEFINE Above(m) == {y \in S : f[y] > f[m]}
           Sizes == {Cardinality(Above(m)) : m \in S}
<1>1. \A m \in S : IsFiniteSet(Above(m)) /\ Cardinality(Above(m)) \in Nat
  BY FS_Subset, FS_CardinalityType
<1>2. PICK m \in S : \A x \in S : Cardinality(Above(m)) <= Cardinality(Above(x))
  <2>1. Sizes # {} /\ Sizes \in SUBSET Nat
    BY <1>1
  <2>2. \E n \in Sizes : \A k \in Sizes : n <= k
    <3> HIDE DEF Sizes
    <3>1. QED
      BY <2>1, SmallestExists
  <2>3. QED
    BY <2>2
<1>3. ASSUME NEW x \in S, f[x] > f[m] PROVE FALSE
  <2>1. Above(x) \subseteq Above(m) /\ x \in Above(m) /\ x \notin Above(x)
    <3>1. \A y \in S : f[y] > f[x] => f[y] > f[m]
      BY <1>3
    <3>2. ~(f[x] > f[x])
      OBVIOUS
    <3>3. QED
      BY <3>1, <3>2, <1>3, Zenon
  <2>2. Cardinality(Above(x)) < Cardinality(Above(m))
    <3>1. Above(x) # Above(m)
      BY <2>1
    <3>2. IsFiniteSet(Above(m)) /\ Cardinality(Above(x)) \in Nat /\ Cardinality(Above(m)) \in Nat
      BY <1>1
    <3> HIDE DEF Above
    <3>3. QED
      BY <2>1, <3>1, <3>2, FS_Subset
  <2>3. /\ Cardinality(Above(m)) <= Cardinality(Above(x))
        /\ Cardinality(Above(m)) \in Nat /\ Cardinality(Above(x)) \in Nat
    BY <1>1, <1>2
  <2> HIDE DEF Above
  <2>4. QED
    BY <2>2, <2>3
<1>4. QED
  BY <1>3

(* A finite set of numbers has a largest one.                              *)
LEMMA LargestExists ==
  ASSUME NEW S \in SUBSET Nat, IsFiniteSet(S), S # {}
  PROVE  \E m \in S : \A x \in S : x <= m
<1> DEFINE f == [x \in S |-> x]
<1>1. f \in [S -> Nat] /\ \A x \in S : f[x] = x
  OBVIOUS
<1> HIDE DEF f
<1>2. PICK m \in S : \A x \in S : f[x] <= f[m]
  BY <1>1, GreatestExists
<1>3. QED
  BY <1>1, <1>2

(* In a finite set of numbers there is one with any smaller number of the  *)
(* set's elements above it.                                                *)
LEMMA RankIsTaken ==
  ASSUME NEW S \in SUBSET Nat, IsFiniteSet(S), NEW c \in Nat, c < Cardinality(S)
  PROVE  \E j \in S : Cardinality({i \in S : i > j}) = c
<1> DEFINE Above(m) == {y \in S : y > m}
           Deep == {m \in S : Cardinality(Above(m)) >= c}
<1>1. \A m \in S : IsFiniteSet(Above(m)) /\ Cardinality(Above(m)) \in Nat
  BY FS_Subset, FS_CardinalityType
<1>2. Cardinality(S) \in Nat
  BY FS_CardinalityType
<1>3. Deep # {}
  <2>1. S # {}
    BY FS_EmptySet
  <2>2. PICK m \in S : \A x \in S : m <= x
    BY <2>1, SmallestExists
  <2>3. Above(m) = S \ {m}
    <3>1. \A y \in S : y > m <=> y # m
      BY <2>2
    <3>2. QED
      BY <3>1
  <2>4. Cardinality(Above(m)) = Cardinality(S) - 1
    BY <2>3, FS_RemoveElement
  <2>5. QED
    BY <1>2, <2>4
<1>4. PICK j \in Deep : \A x \in Deep : x <= j
  <2>1. Deep \in SUBSET Nat /\ IsFiniteSet(Deep)
    BY FS_Subset
  <2>2. QED
    <3> HIDE DEF Deep
    <3>1. QED
      BY <1>3, <2>1, LargestExists
<1>5. ASSUME Cardinality(Above(j)) # c PROVE FALSE
  <2>1. Cardinality(Above(j)) > c
    BY <1>1, <1>5
  <2>2. Above(j) # {}
    <3> HIDE DEF Above
    <3>1. QED
      BY <2>1, FS_EmptySet
  <2>3. Above(j) \in SUBSET Nat
    OBVIOUS
  <2>4. PICK u \in Above(j) : \A x \in Above(j) : u <= x
    <3> HIDE DEF Above
    <3>1. QED
      BY <2>2, <2>3, SmallestExists
  <2>5. Above(u) = Above(j) \ {u}
    <3>1. u > j /\ \A x \in S : x > j => u <= x
      BY <2>4
    <3>2. \A x \in S : x > u <=> x > j /\ x # u
      BY <3>1
    <3>3. QED
      BY <3>2
  <2>6. Cardinality(Above(u)) = Cardinality(Above(j)) - 1
    <3>1. IsFiniteSet(Above(j)) /\ u \in Above(j)
      BY <1>1
    <3> HIDE DEF Above
    <3>2. Cardinality(Above(j) \ {u}) = Cardinality(Above(j)) - 1
      BY <3>1, FS_RemoveElement
    <3>3. QED
      BY <2>5, <3>2
  <2>7. u \in Deep
    BY <1>1, <2>1, <2>6
  <2>8. QED
    BY <1>4, <2>4, <2>7
<1>6. QED
  BY <1>5
=============================================================================
