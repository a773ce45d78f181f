------------------------------ MODULE Numbers ------------------------------
(***************************************************************************)
(* Facts about numbers that the proofs of several components need: the     *)
(* least and the largest of a set, and induction.  The library states      *)
(* induction for a predicate, as an operator; stated for the set of the    *)
(* numbers that satisfy it, it follows from the least one that does not.   *)
(***************************************************************************)
EXTENDS Integers, FiniteSets, TLAPS, WellFoundedInduction, FiniteSetTheorems

LEMMA LeastNumber ==
  ASSUME NEW S \in SUBSET Nat, S # {}
  PROVE  \E x \in S : \A y \in S : x <= y
<1> DEFINE Less == OpToRel(<, Nat)
<1>1. IsWellFoundedOn(Less, Nat)
  BY NatLessThanWellFounded, Zenon
<1>2. ASSUME NEW a \in Nat, NEW b \in Nat, a < b
      PROVE  <<a, b>> \in Less
  <2>1. <<a, b>> \in Nat \X Nat /\ <<a, b>>[1] < <<a, b>>[2]
    BY <1>2
  <2>2. QED
    BY <2>1, Zenon DEF OpToRel
<1> HIDE DEF Less
<1>3. PICK x \in S : \A y \in S : ~(<<y, x>> \in Less)
  BY <1>1, WFMin, Zenon
<1>4. ASSUME NEW y \in S
      PROVE  x <= y
  <2>1. x \in Nat /\ y \in Nat
    OBVIOUS
  <2>2. ~(y < x)
    BY <1>2, <1>3, <2>1, Zenon
  <2>3. QED
    BY <2>1, <2>2
<1>5. QED
  BY <1>4

\* The last of a set of positions up to i.
LEMMA LastPosition ==
  ASSUME NEW i \in Nat, NEW P \in SUBSET (1 .. i), P # {}
  PROVE  \E j \in P : \A k \in P : k <= j
<1>1. PICK x \in {i - j : j \in P} : \A y \in {i - j : j \in P} : x <= y
  <2>1. {i - j : j \in P} \in SUBSET Nat /\ {i - j : j \in P} # {}
    <3>1. \A j \in P : i - j \in Nat
      OBVIOUS
    <3>2. QED
      BY <3>1, Zenon
  <2>2. QED
    BY <2>1, LeastNumber
<1>2. PICK j \in P : x = i - j
  OBVIOUS
<1>3. ASSUME NEW k \in P
      PROVE  k <= j
  <2>1. i - j <= i - k
    BY <1>1, <1>2
  <2>2. j \in Int /\ k \in Int
    OBVIOUS
  <2>3. QED
    BY <2>1, <2>2
<1>4. QED
  BY <1>3

\* Induction: what holds of 0, and of n + 1 when of n, holds of every number.
LEMMA EveryNumber ==
  ASSUME NEW P \in SUBSET Nat, 0 \in P, \A n \in P : n + 1 \in P
  PROVE  P = Nat
<1> SUFFICES ASSUME Nat \ P # {} PROVE FALSE
  OBVIOUS
<1>1. PICK n \in Nat \ P : \A m \in Nat \ P : n <= m
  <2>1. Nat \ P \in SUBSET Nat
    OBVIOUS
  <2>2. QED
    BY <2>1, LeastNumber, Zenon
<1>2. n # 0 /\ n - 1 \in Nat /\ (n - 1) + 1 = n
  BY <1>1
<1>3. n - 1 \in P
  BY <1>1, <1>2
<1>4. n \in P
  BY <1>2, <1>3
<1>5. QED
  BY <1>4

\* A list of numbers is bounded.
LEMMA ListBounded ==
  ASSUME NEW n \in Nat, NEW f \in [1 .. n -> Nat]
  PROVE  \E b \in Nat : \A j \in 1 .. n : f[j] <= b
<1> DEFINE P == {m \in Nat : \A g \in [1 .. m -> Nat] :
                   \E b \in Nat : \A j \in 1 .. m : g[j] <= b}
<1>1. 0 \in P
  OBVIOUS
<1>2. ASSUME NEW m \in P
      PROVE  m + 1 \in P
  <2>0. m \in Nat /\ m + 1 \in Nat
    OBVIOUS
  <2> SUFFICES ASSUME NEW g \in [1 .. m + 1 -> Nat]
               PROVE  \E b \in Nat : \A j \in 1 .. m + 1 : g[j] <= b
    BY <2>0, Zenon
  <2> DEFINE h == [j \in 1 .. m |-> g[j]]
  <2>1. h \in [1 .. m -> Nat]
    OBVIOUS
  <2>2. PICK b \in Nat : \A j \in 1 .. m : h[j] <= b
    BY <2>1, Zenon
  <2>3. \A j \in 1 .. m : g[j] <= b
    BY <2>2
  <2>4. g[m + 1] \in Nat /\ m \in Nat
    OBVIOUS
  <2>5. b + g[m + 1] \in Nat /\ b <= b + g[m + 1] /\ g[m + 1] <= b + g[m + 1]
    BY <2>4
  <2>6. ASSUME NEW j \in 1 .. m + 1
        PROVE  g[j] <= b + g[m + 1]
    <3>1. CASE j = m + 1
      BY <2>5, <3>1
    <3>2. CASE j \in 1 .. m
      BY <2>3, <2>4, <3>2
    <3>3. QED
      BY <2>4, <3>1, <3>2
  <2>7. QED
    BY <2>5, <2>6
<1>3. P \in SUBSET Nat
  OBVIOUS
<1> HIDE DEF P
<1>4. P = Nat
  BY <1>1, <1>2, <1>3, EveryNumber, Zenon
<1>5. n \in P
  BY <1>4
<1>6. QED
  BY <1>5 DEF P

\* The largest of a finite set of numbers.
LEMMA LargestNumber ==
  ASSUME NEW S \in SUBSET Nat, IsFiniteSet(S), S # {}
  PROVE  \E x \in S : \A y \in S : y <= x
<1>1. Cardinality(S) \in Nat /\ ExistsBijection(1 .. Cardinality(S), S)
  BY FS_CardinalityType
<1>2. PICK f \in Bijection(1 .. Cardinality(S), S) : TRUE
  BY <1>1 DEF ExistsBijection
<1>3. f \in [1 .. Cardinality(S) -> Nat] /\ \A y \in S : \E j \in 1 .. Cardinality(S) : f[j] = y
  BY <1>2 DEF Bijection, Injection, Surjection
<1>4. PICK b \in Nat : \A j \in 1 .. Cardinality(S) : f[j] <= b
  BY <1>1, <1>3, ListBounded, Zenon
<1>5. \A y \in S : y <= b /\ b - y \in Nat
  BY <1>3, <1>4
<1>6. PICK d \in {b - y : y \in S} : \A e \in {b - y : y \in S} : d <= e
  <2>1. {b - y : y \in S} \in SUBSET Nat /\ {b - y : y \in S} # {}
    BY <1>5
  <2>2. QED
    BY <2>1, LeastNumber, Zenon
<1>7. PICK x \in S : d = b - x
  BY <1>6
<1>8. ASSUME NEW y \in S
      PROVE  y <= x
  <2>1. b - x <= b - y
    BY <1>6, <1>7
  <2>2. x \in Nat /\ y \in Nat
    OBVIOUS
  <2>3. QED
    BY <2>1, <2>2
<1>9. QED
  BY <1>8

\* A part of a finite set that is not all of it has fewer elements.
LEMMA FewerInPart ==
  ASSUME NEW S, IsFiniteSet(S), NEW T \in SUBSET S
  PROVE  /\ Cardinality(S) \in Nat /\ Cardinality(T) \in Nat
         /\ Cardinality(T) <= Cardinality(S)
         /\ T # S => Cardinality(T) < Cardinality(S)
<1>1. Cardinality(T) <= Cardinality(S) /\ (Cardinality(S) = Cardinality(T) => S = T)
  BY FS_Subset
<1>2. IsFiniteSet(T)
  BY FS_Subset
<1>3. Cardinality(S) \in Nat /\ Cardinality(T) \in Nat
  BY <1>2, FS_CardinalityType
<1>4. QED
  BY <1>1, <1>3

\* What counts steps as so many rounds of c steps and some more: a round less makes
\* up for fewer than c steps more.
LEMMA RoundLess ==
  ASSUME NEW a \in Nat, NEW b \in Nat, a < b, NEW c \in Nat
  PROVE  a * c \in Nat /\ b * c \in Nat /\ a * c + c <= b * c
<1> DEFINE d == b - a - 1
<1>1. d \in Nat /\ b = a + 1 + d
  OBVIOUS
<1>2. (a + 1 + d) * c = a * c + c + d * c
  BY <1>1
<1>3. a * c \in Nat /\ d * c \in Nat /\ b * c \in Nat
  BY <1>1
<1> HIDE DEF d
<1>4. QED
  BY <1>1, <1>2, <1>3

LEMMA PairFinite ==
  ASSUME NEW a, NEW b
  PROVE  IsFiniteSet({a, b})
<1> DEFINE one == {} \cup {a}
           two == one \cup {b}
<1>1. IsFiniteSet(one)
  BY FS_EmptySet, FS_AddElement, Zenon
<1> HIDE DEF one
<1>2. IsFiniteSet(two)
  BY <1>1, FS_AddElement, Zenon
<1>3. two = {a, b}
  BY DEF one
<1>4. QED
  BY <1>2, <1>3
=============================================================================
