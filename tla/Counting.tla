------------------------------ MODULE Counting ------------------------------
(***************************************************************************)
(* Facts about sizes of sets that the proofs about counters rest on: a     *)
(* set of natural numbers has a least element, a bounded one a greatest;   *)
(* and a counter that has reached k times the number of its producers has  *)
(* been raised by every producer in each of k rounds.                      *)
(***************************************************************************)
EXTENDS FiniteSetTheorems, TLAPS

\* The intervals that start at 0 are ordered as their ends are, and finite
\* sets are well founded under strict inclusion.
LEMMA Least ==
  ASSUME NEW T, T \subseteq Nat, T # {}
  PROVE  \E m \in T : \A n \in T : m <= n
<1> DEFINE R == StrictSubsetOrdering(Nat)
           I == { 0 .. n : n \in T }
<1>1. IsWellFoundedOn(R, FiniteSubsetsOf(Nat))
  BY FS_StrictSubsetOrderingWellFounded
<1>2. I \subseteq FiniteSubsetsOf(Nat) /\ I # {}
  <2>1. ASSUME NEW n \in T PROVE 0 .. n \in FiniteSubsetsOf(Nat)
    <3>1. IsFiniteSet(0 .. n)
      BY FS_Interval
    <3>2. 0 .. n \in SUBSET Nat
      OBVIOUS
    <3> QED
      BY <3>1, <3>2 DEF FiniteSubsetsOf
  <2> QED
    BY <2>1
<1>3. PICK J \in I : \A K \in I : ~(<<K, J>> \in R)
  <2> HIDE DEF R, I
  <2> QED
    BY <1>1, <1>2, WFMin
<1>4. PICK m \in T : J = 0 .. m
  OBVIOUS
<1>5. ASSUME NEW n \in T, n < m PROVE FALSE
  <2>1. (0 .. n) \subseteq (0 .. m) /\ m \in 0 .. m /\ m \notin 0 .. n
    BY <1>5
  <2>2. 0 .. n \in SUBSET Nat /\ 0 .. m \in SUBSET Nat /\ 0 .. n # 0 .. m
    BY <2>1
  <2>3. <<0 .. n, 0 .. m>> \in R
    BY <2>1, <2>2 DEF StrictSubsetOrdering
  <2>4. 0 .. n \in I
    OBVIOUS
  <2> QED
    BY <1>3, <1>4, <2>3, <2>4
<1>6. \A n \in T : n \in Int /\ m \in Int
  OBVIOUS
<1> QED
  BY <1>5, <1>6

LEMMA Greatest ==
  ASSUME NEW N \in Nat, NEW T, T \subseteq 0 .. N, T # {}
  PROVE  \E m \in T : \A n \in T : n <= m
<1> DEFINE D == { N - n : n \in T }
<1>1. D \subseteq Nat /\ D # {}
  <2>1. ASSUME NEW n \in T PROVE N - n \in Nat
    <3>1. n \in 0 .. N
      OBVIOUS
    <3> QED
      BY <3>1
  <2> QED
    BY <2>1
<1>2. PICK d \in D : \A c \in D : d <= c
  <2> HIDE DEF D
  <2> QED
    BY <1>1, Least
<1>3. PICK m \in T : d = N - m
  OBVIOUS
<1>4. ASSUME NEW n \in T PROVE n <= m
  <2>1. n \in 0 .. N /\ m \in 0 .. N
    OBVIOUS
  <2>2. N - m <= N - n
    BY <1>2, <1>3
  <2> QED
    BY <2>1, <2>2
<1> QED
  BY <1>4

\* Sets that do not meet are counted together.
LEMMA AddDisjoint ==
  ASSUME NEW A, IsFiniteSet(A), NEW B, IsFiniteSet(B), A \cap B = {}
  PROVE  /\ IsFiniteSet(A \cup B)
         /\ Cardinality(A \cup B) = Cardinality(A) + Cardinality(B)
<1>1. Cardinality(A \cap B) = 0
  BY FS_EmptySet
<1>2. Cardinality(A) \in Nat /\ Cardinality(B) \in Nat
  BY FS_CardinalityType
<1>3. /\ IsFiniteSet(A \cup B)
      /\ Cardinality(A \cup B) = Cardinality(A) + Cardinality(B) - Cardinality(A \cap B)
  BY FS_Union
<1> QED
  BY <1>1, <1>2, <1>3

\* k rounds of the producers P.
LEMMA Rounds ==
  ASSUME NEW P, IsFiniteSet(P), NEW k \in Nat
  PROVE  /\ IsFiniteSet(P \X (1 .. k))
         /\ Cardinality(P \X (1 .. k)) = k * Cardinality(P)
<1>1. IsFiniteSet(1 .. k) /\ Cardinality(1 .. k) = k
  BY FS_Interval
<1>2. Cardinality(P) \in Nat
  BY FS_CardinalityType
<1>3. /\ IsFiniteSet(P \X (1 .. k))
      /\ Cardinality(P \X (1 .. k)) = Cardinality(P) * Cardinality(1 .. k)
  BY <1>1, FS_Product
<1> QED
  BY <1>1, <1>2, <1>3

\* A counter of arrivals of the first k rounds is at most full, and says so.
LEMMA Full ==
  ASSUME NEW P, IsFiniteSet(P), NEW k \in Nat, NEW A \in SUBSET (P \X (1 .. k))
  PROVE  /\ Cardinality(A) <= k * Cardinality(P)
         /\ Cardinality(A) >= k * Cardinality(P) => A = P \X (1 .. k)
<1> DEFINE all == P \X (1 .. k)
<1>1. IsFiniteSet(all) /\ Cardinality(all) = k * Cardinality(P)
  BY Rounds
<1>2. Cardinality(all) \in Nat
  BY <1>1, FS_CardinalityType
<1> HIDE DEF all
<1>3. /\ A \in SUBSET all
      /\ IsFiniteSet(A)
      /\ Cardinality(A) <= Cardinality(all)
      /\ Cardinality(all) = Cardinality(A) => all = A
  <2>1. A \in SUBSET all
    BY DEF all
  <2> QED
    BY <1>1, <2>1, FS_Subset
<1>4. Cardinality(A) \in Nat
  BY <1>3, FS_CardinalityType
<1> QED
  BY <1>1, <1>2, <1>3, <1>4 DEF all

=============================================================================
