--------------------------- MODULE DecodeProofs ----------------------------
(***************************************************************************)
(* For every model, prompt and choice of arguments: the tokens the         *)
(* reference run decodes with its cache are the model's greedy choices     *)
(* after the whole text, as if nothing had been cached.  First the         *)
(* dispatch: the expert layer gives every position the outputs of the      *)
(* experts its gate chose, in the gate's order, however the pairs are      *)
(* sorted.  Then a forward of one layer: on rows that are the text's own   *)
(* it gives the values of the text's next positions, and leaves rows that  *)
(* are the longer text's.  Then the run: whatever stage it is in, its      *)
(* hidden states are values and its cache holds the rows of the text so    *)
(* far, with the rotary base that was in force when each was written.      *)
(***************************************************************************)
EXTENDS SessionProofs

-----------------------------------------------------------------------------
(* The dispatch of the expert layer.                                       *)

\* Among finitely many numbers there is a largest.
LEMMA Favourite ==
  ASSUME NEW n \in Nat, NEW f, \A e \in 0 .. n - 1 : f[e] \in Int,
         NEW R \in SUBSET (0 .. n - 1), R # {}
  PROVE  \E x \in R : \A y \in R : f[y] <= f[x]
<1> DEFINE Top(Q) == \E x \in Q : \A y \in Q : f[y] <= f[x]
           T == { m \in 0 .. n : \E Q \in SUBSET (0 .. m - 1) : Q # {} /\ ~ Top(Q) }
<1>1. SUFFICES ASSUME T # {} PROVE FALSE
  <2>1. n \notin T
    BY <1>1
  <2> QED
    BY <2>1
<1>2. PICK m \in T : \A k \in T : m <= k
  <2>1. T \subseteq Nat
    OBVIOUS
  <2> HIDE DEF T
  <2> QED
    BY <1>1, <2>1, Least
<1>3. PICK Q \in SUBSET (0 .. m - 1) : Q # {} /\ ~ Top(Q)
  BY <1>2
<1>4. m \in 0 .. n /\ m # 0
  <2>1. m = 0 => Q = {}
    BY <1>3
  <2> QED
    BY <1>2, <1>3, <2>1
<1>0. m \in Nat /\ m - 1 \in 0 .. n - 1 /\ m - 1 \in 0 .. n
  BY <1>4
<1>5. m - 1 \notin T
  <2>1. m - 1 \in T => m <= m - 1
    BY <1>2, Zenon
  <2> QED
    BY <1>0, <2>1
<1> DEFINE P == Q \ {m - 1}
<1>6. P \in SUBSET (0 .. (m - 1) - 1)
  BY <1>3, <1>0
<1>7. P = {} \/ Top(P)
  BY <1>0, <1>5, <1>6
<1>8. CASE P = {}
  <2>1. Q = {m - 1}
    BY <1>3, <1>8
  <2> QED
    BY <1>3, <1>0, <2>1
<1>9. CASE Top(P)
  <2>1. PICK x \in P : \A y \in P : f[y] <= f[x]
    BY <1>9
  <2>2. x \in Q /\ f[x] \in Int /\ f[m - 1] \in Int /\ \A y \in Q : y = m - 1 \/ y \in P
    BY <1>0, <1>3, <2>1
  <2>3. CASE m - 1 \in Q /\ f[x] <= f[m - 1]
    <3>1. \A y \in Q : f[y] \in Int
      BY <1>3, <1>0
    <3>2. \A y \in Q : f[y] <= f[m - 1]
      BY <1>3, <1>0, <2>1, <2>2, <2>3, <3>1
    <3> QED
      BY <1>3, <2>3, <3>2
  <2>4. CASE ~ (m - 1 \in Q /\ f[x] <= f[m - 1])
    <3>1. \A y \in Q : f[y] <= f[x]
      BY <1>3, <1>0, <2>1, <2>2, <2>4
    <3> QED
      BY <1>3, <2>2, <3>1
  <2> QED
    BY <2>3, <2>4
<1> QED
  BY <1>7, <1>8, <1>9

\* The k best of n, one by one.
LEMMA Favourites ==
  ASSUME NEW n \in Nat, NEW f, \A e \in 0 .. n - 1 : f[e] \in Int, NEW k \in 0 .. n
  PROVE  \E ids \in [1 .. k -> 0 .. n - 1] :
           \A i \in 1 .. k, e \in 0 .. n - 1 :
             /\ \A j \in 1 .. k : ids[i] = ids[j] => i = j
             /\ (\A j \in 1 .. k : ids[j] # e) => f[e] <= f[ids[i]]
<1> DEFINE E == 0 .. n - 1
           Best(ids, m) ==
             \A i \in 1 .. m, e \in E :
               /\ \A j \in 1 .. m : ids[i] = ids[j] => i = j
               /\ (\A j \in 1 .. m : ids[j] # e) => f[e] <= f[ids[i]]
           T == { m \in 0 .. n : ~ \E ids \in [1 .. m -> E] : Best(ids, m) }
<1>1. SUFFICES ASSUME T # {} PROVE FALSE
  <2>1. k \notin T
    BY <1>1
  <2> QED
    BY <2>1
<1>2. PICK m \in T : \A j \in T : m <= j
  <2>1. T \subseteq Nat
    OBVIOUS
  <2> HIDE DEF T
  <2> QED
    BY <1>1, <2>1, Least
<1>3. m # 0
  <2> SUFFICES ASSUME m = 0 PROVE FALSE
    OBVIOUS
  <2> DEFINE none == [i \in 1 .. 0 |-> 0]
  <2>1. none \in [1 .. m -> E] /\ Best(none, m)
    OBVIOUS
  <2> QED
    BY <1>2, <2>1
<1>4. m \in Nat /\ m - 1 \in 0 .. n /\ m \in 1 .. n /\ m - 1 \notin T
  <2>1. m \in 0 .. n
    BY <1>2
  <2>2. m - 1 \in T => m <= m - 1
    BY <1>2, Zenon
  <2> QED
    BY <1>3, <2>1, <2>2
<1>5. PICK ids \in [1 .. m - 1 -> E] : Best(ids, m - 1)
  BY <1>4
<1> DEFINE R == { e \in E : \A j \in 1 .. m - 1 : ids[j] # e }
<1>6. R # {}
  <2> SUFFICES ASSUME R = {} PROVE FALSE
    OBVIOUS
  <2>1. ids \in Surjection(1 .. m - 1, E)
    BY DEF Surjection
  <2>2. Cardinality(E) <= m - 1
    BY <1>4, <2>1, FS_SurjCardinalityBound DEF ExistsSurjection
  <2>3. Cardinality(E) = n
    BY <1>4, FS_Interval
  <2> QED
    BY <1>4, <2>2, <2>3
<1>7. PICK x \in R : \A y \in R : f[y] <= f[x]
  <2>1. R \in SUBSET (0 .. n - 1)
    OBVIOUS
  <2> HIDE DEF R
  <2> QED
    BY <1>6, <2>1, Favourite
<1> DEFINE more == [i \in 1 .. m |-> IF i = m THEN x ELSE ids[i]]
<1>8. more \in [1 .. m -> E]
  BY <1>4, <1>5
<1>9. Best(more, m)
  <2> SUFFICES ASSUME NEW i \in 1 .. m, NEW e \in E
               PROVE  /\ \A j \in 1 .. m : more[i] = more[j] => i = j
                      /\ (\A j \in 1 .. m : more[j] # e) => f[e] <= f[more[i]]
    OBVIOUS
  <2>1. \A j \in 1 .. m : more[j] = IF j = m THEN x ELSE ids[j]
    OBVIOUS
  <2>2. \A j \in 1 .. m : j = m \/ j \in 1 .. m - 1
    BY <1>4
  <2>3. \A j \in 1 .. m - 1 : j \in 1 .. m /\ j # m /\ more[j] = ids[j] /\ ids[j] # x
    BY <1>4, <2>1
  <2>4. more[m] = x /\ m \in 1 .. m
    BY <1>4, <2>1
  <2> HIDE DEF more
  <2>5. \A j \in 1 .. m : more[i] = more[j] => i = j
    BY <1>5, <2>2, <2>3, <2>4
  <2>6. ASSUME \A j \in 1 .. m : more[j] # e PROVE f[e] <= f[more[i]]
    <3>1. e \in R
      BY <2>3, <2>6
    <3>2. CASE i = m
      BY <1>7, <2>4, <3>1, <3>2
    <3>3. CASE i # m
      <4>1. i \in 1 .. m - 1 /\ \A j \in 1 .. m - 1 : ids[j] # e
        BY <2>2, <3>1, <3>3
      <4> QED
        BY <1>5, <2>3, <4>1
    <3> QED
      BY <3>2, <3>3
  <2> QED
    BY <2>5, <2>6
<1> QED
  BY <1>2, <1>8, <1>9

\* The gate finds its experts, whatever order the scores are in.
LEMMA GateChooses ==
  ASSUME NEW h, \A e \in 0 .. NRouted - 1 : Affinity(h, e) \in Int
  PROVE  Gate(h) \in [1 .. TopK -> 0 .. NRouted - 1]
<1> DEFINE f == [e \in 0 .. NRouted - 1 |-> Affinity(h, e)]
<1>1. NRouted \in Nat /\ TopK \in 0 .. NRouted
  BY LayoutAssumption, ModelAssumption
<1>2. \A e \in 0 .. NRouted - 1 : f[e] = Affinity(h, e) /\ f[e] \in Int
  OBVIOUS
<1> HIDE DEF f
<1>3. PICK ids \in [1 .. TopK -> 0 .. NRouted - 1] :
        \A i \in 1 .. TopK, e \in 0 .. NRouted - 1 :
          /\ \A j \in 1 .. TopK : ids[i] = ids[j] => i = j
          /\ (\A j \in 1 .. TopK : ids[j] # e) => f[e] <= f[ids[i]]
  BY <1>1, <1>2, Favourites
<1>4. \A i \in 1 .. TopK, e \in 0 .. NRouted - 1 :
        /\ \A j \in 1 .. TopK : ids[i] = ids[j] => i = j
        /\ (\A j \in 1 .. TopK : ids[j] # e) => Affinity(h, e) <= Affinity(h, ids[i])
  BY <1>2, <1>3
<1> QED
  BY <1>3, <1>4 DEF Gate

\* Where the run of an expert starts among the sorted choices, as moe_infer
\* adds the counts up: it is the number of choices of smaller experts.
Starts(flat) ==
  LET count == [e \in 0 .. NRouted - 1 |-> Cardinality({ i \in DOMAIN flat : flat[i] = e })]
      first[e \in 0 .. NRouted] == IF e = 0 THEN 0 ELSE first[e - 1] + count[e - 1]
  IN first

LEMMA StartsCount ==
  ASSUME NEW N \in Nat, NEW flat \in [1 .. N -> 0 .. NRouted - 1]
  PROVE  \A e \in 0 .. NRouted : Starts(flat)[e] = Cardinality({ i \in 1 .. N : flat[i] < e })
<1> DEFINE count == [e \in 0 .. NRouted - 1 |-> Cardinality({ i \in DOMAIN flat : flat[i] = e })]
           g == [e \in 0 .. NRouted |-> Cardinality({ i \in 1 .. N : flat[i] < e })]
           S == Starts(flat)
<1>0. NRouted \in Nat /\ DOMAIN flat = 1 .. N
  BY LayoutAssumption
<1>1. \A e \in 0 .. NRouted : e # 0 => g[e] = g[e - 1] + count[e - 1]
  <2> SUFFICES ASSUME NEW e \in 0 .. NRouted, e # 0 PROVE g[e] = g[e - 1] + count[e - 1]
    OBVIOUS
  <2> DEFINE A == { i \in 1 .. N : flat[i] < e - 1 }
             B == { i \in 1 .. N : flat[i] = e - 1 }
  <2>1. IsFiniteSet(1 .. N)
    BY FS_Interval
  <2>2. IsFiniteSet(A) /\ IsFiniteSet(B)
    <3>1. A \in SUBSET (1 .. N) /\ B \in SUBSET (1 .. N)
      OBVIOUS
    <3> HIDE DEF A, B
    <3> QED
      BY <2>1, <3>1, FS_Subset
  <2>3. A \cap B = {} /\ A \cup B = { i \in 1 .. N : flat[i] < e }
    BY <1>0
  <2>4. Cardinality(A \cup B) = Cardinality(A) + Cardinality(B)
    BY <2>2, <2>3, AddDisjoint
  <2>5. e - 1 \in 0 .. NRouted - 1 /\ e - 1 \in 0 .. NRouted /\ e \in 0 .. NRouted
    BY <1>0
  <2>6. count[e - 1] = Cardinality(B)
    BY <1>0, <2>5
  <2>7. g[e] = Cardinality(A \cup B) /\ g[e - 1] = Cardinality(A)
    BY <2>3, <2>5
  <2> QED
    BY <2>4, <2>6, <2>7
<1>2. g[0] = 0
  <2>1. { i \in 1 .. N : flat[i] < 0 } = {}
    BY <1>0
  <2> QED
    BY <1>0, <2>1, FS_EmptySet
<1>3. S = CHOOSE s : s = [e \in 0 .. NRouted |-> IF e = 0 THEN 0 ELSE s[e - 1] + count[e - 1]]
  BY DEF Starts
<1>4. g = [e \in 0 .. NRouted |-> g[e]]
  OBVIOUS
<1> HIDE DEF g, count, S
<1>5. g = [e \in 0 .. NRouted |-> IF e = 0 THEN 0 ELSE g[e - 1] + count[e - 1]]
  BY <1>1, <1>2, <1>4
<1>6. S = [e \in 0 .. NRouted |-> IF e = 0 THEN 0 ELSE S[e - 1] + count[e - 1]]
  BY <1>3, <1>5, Zenon
<1>7. S[0] = 0 /\ \A e \in 0 .. NRouted : e # 0 => S[e] = S[e - 1] + count[e - 1]
  <2>1. \A e \in 0 .. NRouted : S[e] = IF e = 0 THEN 0 ELSE S[e - 1] + count[e - 1]
    BY <1>6, Zenon
  <2> QED
    BY <1>0, <2>1
<1>8. \A e \in 0 .. NRouted : S[e] = g[e]
  <2> DEFINE T == { e \in 0 .. NRouted : S[e] # g[e] }
  <2>1. SUFFICES ASSUME T # {} PROVE FALSE
    OBVIOUS
  <2>2. PICK m \in T : \A e \in T : m <= e
    <3>1. T \subseteq Nat
      OBVIOUS
    <3> HIDE DEF T
    <3> QED
      BY <2>1, <3>1, Least
  <2>3. m \in 0 .. NRouted /\ S[m] # g[m] /\ m # 0
    BY <1>2, <1>7, <2>2
  <2>4. m - 1 \in 0 .. NRouted /\ ~ (m <= m - 1)
    BY <1>0, <2>3
  <2>5. S[m - 1] = g[m - 1]
    BY <2>2, <2>4
  <2> QED
    BY <1>1, <1>7, <2>3, <2>5
<1> QED
  BY <1>8 DEF g, S

\* A sorted order is a permutation along which experts do not decrease.
LEMMA SortedOrder ==
  ASSUME NEW N \in Nat, NEW flat \in [1 .. N -> 0 .. NRouted - 1], NEW p \in Sorts(flat)
  PROVE  /\ p \in [1 .. N -> 1 .. N]
         /\ \A i, j \in 1 .. N : p[i] = p[j] => i = j
         /\ \A i \in 1 .. N : \E j \in 1 .. N : p[j] = i
         /\ \A i, j \in 1 .. N : i <= j => flat[p[i]] <= flat[p[j]]
<1>0. NRouted \in Nat /\ DOMAIN flat = 1 .. N /\ IsFiniteSet(1 .. N) /\ Cardinality(1 .. N) = N
  <2>1. IsFiniteSet(1 .. N) /\ Cardinality(1 .. N) = N
    BY FS_Interval
  <2> QED
    BY <2>1, LayoutAssumption
<1>1. p \in [1 .. N -> 1 .. N] /\ \A i, j \in 1 .. N : i # j => p[i] # p[j]
  BY <1>0 DEF Sorts, SetToSeqs
<1>2. p \in Injection(1 .. N, 1 .. N)
  BY <1>1 DEF Injection, IsInjective
<1>3. p \in Surjection(1 .. N, 1 .. N)
  BY <1>0, <1>2, FS_Injection
<1>4. Len(p) = N
  BY <1>1
<1>5. \A i \in 1 .. N - 1 : flat[p[i]] <= flat[p[i + 1]]
  BY <1>4 DEF Sorts
<1>6. ASSUME NEW i \in 1 .. N, NEW k \in 1 .. N, i <= k PROVE flat[p[i]] <= flat[p[k]]
  <2> DEFINE T == { j \in 1 .. N : i <= j /\ ~ (flat[p[i]] <= flat[p[j]]) }
  <2>1. SUFFICES ASSUME T # {} PROVE FALSE
    BY <1>6
  <2>2. PICK m \in T : \A j \in T : m <= j
    <3>1. T \subseteq Nat
      OBVIOUS
    <3> HIDE DEF T
    <3> QED
      BY <2>1, <3>1, Least
  <2>3. m \in 1 .. N /\ i <= m /\ ~ (flat[p[i]] <= flat[p[m]])
    BY <2>2
  <2>4. \A j \in 1 .. N : flat[p[j]] \in 0 .. NRouted - 1
    BY <1>1
  <2>5. i # m
    BY <1>0, <2>3, <2>4
  <2>6. m - 1 \in 1 .. N /\ i <= m - 1 /\ ~ (m <= m - 1) /\ m - 1 \in 1 .. N - 1 /\ (m - 1) + 1 = m
    BY <2>3, <2>5
  <2>7. m - 1 \notin T
    BY <2>2, <2>6
  <2>8. flat[p[i]] <= flat[p[m - 1]]
    BY <2>6, <2>7
  <2>9. flat[p[m - 1]] <= flat[p[m]]
    BY <1>5, <2>6
  <2> QED
    BY <1>0, <2>3, <2>4, <2>6, <2>8, <2>9
<1>7. \A i \in 1 .. N : \E j \in 1 .. N : p[j] = i
  BY <1>3 DEF Surjection
<1> QED
  BY <1>1, <1>6, <1>7

\* The run a sorted place falls into is its expert's.
LEMMA RunOfPlace ==
  ASSUME NEW N \in Nat, NEW flat \in [1 .. N -> 0 .. NRouted - 1], NEW p \in Sorts(flat), NEW j \in 1 .. N
  PROVE  (CHOOSE e \in 0 .. NRouted - 1 : Starts(flat)[e] < j /\ j <= Starts(flat)[e + 1]) = flat[p[j]]
<1> DEFINE S == Starts(flat)
           Before(e) == { i \in 1 .. N : flat[i] < e }
           d == flat[p[j]]
<1>0. NRouted \in Nat /\ IsFiniteSet(1 .. N)
  BY LayoutAssumption, FS_Interval
<1>1. /\ p \in [1 .. N -> 1 .. N]
      /\ \A i, k \in 1 .. N : p[i] = p[k] => i = k
      /\ \A i \in 1 .. N : \E k \in 1 .. N : p[k] = i
      /\ \A i, k \in 1 .. N : i <= k => flat[p[i]] <= flat[p[k]]
  BY SortedOrder, Zenon
<1>8. \A i \in 1 .. N : p[i] \in 1 .. N /\ flat[p[i]] \in 0 .. NRouted - 1
  BY <1>1
<1>2. d \in 0 .. NRouted - 1 /\ d \in 0 .. NRouted /\ d + 1 \in 0 .. NRouted
  <2>1. d \in 0 .. NRouted - 1
    BY <1>8
  <2> HIDE DEF d
  <2> QED
    BY <1>0, <2>1
<1>3. ASSUME NEW e \in 0 .. NRouted
      PROVE  /\ S[e] = Cardinality(Before(e)) /\ S[e] \in Nat /\ IsFiniteSet(Before(e))
             /\ \A f \in 0 .. NRouted : e <= f => S[e] <= S[f]
  <2>1. \A f \in 0 .. NRouted : S[f] = Cardinality(Before(f))
    BY StartsCount
  <2>2. ASSUME NEW f \in 0 .. NRouted PROVE IsFiniteSet(Before(f)) /\ S[f] \in Nat
    <3>1. Before(f) \in SUBSET (1 .. N)
      OBVIOUS
    <3> HIDE DEF Before, S
    <3> QED
      BY <1>0, <2>1, <3>1, FS_Subset, FS_CardinalityType
  <2>3. ASSUME NEW f \in 0 .. NRouted, e <= f PROVE S[e] <= S[f]
    <3>1. Before(e) \in SUBSET Before(f)
      BY <1>0, <2>3
    <3> HIDE DEF Before, S
    <3> QED
      BY <2>1, <2>2, <3>1, FS_Subset
  <2> QED
    BY <2>1, <2>2, <2>3
<1>4. S[d] < j
  <2> DEFINE q == [i \in 1 .. j - 1 |-> p[i]]
  <2>1. Before(d) \subseteq { p[i] : i \in 1 .. j - 1 }
    <3> SUFFICES ASSUME NEW i \in 1 .. N, flat[i] < d PROVE \E k \in 1 .. j - 1 : p[k] = i
      OBVIOUS
    <3>1. PICK k \in 1 .. N : p[k] = i
      BY <1>1
    <3>2. ~ (j <= k)
      <4>1. j <= k => d <= flat[i]
        BY <1>1, <3>1
      <4>2. flat[i] \in 0 .. NRouted - 1
        OBVIOUS
      <4> HIDE DEF d
      <4> QED
        BY <1>0, <1>2, <4>1, <4>2
    <3> QED
      BY <3>1, <3>2
  <2> DEFINE I == { p[i] : i \in 1 .. j - 1 }
  <2>2. q \in Surjection(1 .. j - 1, I)
    BY DEF Surjection
  <2>3. IsFiniteSet(1 .. j - 1) /\ Cardinality(1 .. j - 1) = j - 1
    BY FS_Interval
  <2>4. IsFiniteSet(I) /\ Cardinality(I) <= j - 1
    <3> HIDE DEF I, q
    <3> QED
      BY <2>2, <2>3, FS_Surjection
  <2>5. Cardinality(Before(d)) <= Cardinality(I) /\ Cardinality(I) \in Nat
    <3>1. Before(d) \in SUBSET I
      BY <2>1
    <3> HIDE DEF I, Before
    <3> QED
      BY <2>4, <3>1, FS_Subset, FS_CardinalityType
  <2> HIDE DEF I, S, Before, d
  <2> QED
    BY <1>2, <1>3, <2>4, <2>5
<1>5. j <= S[d + 1]
  <2> DEFINE q == [i \in 1 .. j |-> p[i]]
  <2>1. q \in Injection(1 .. j, Before(d + 1))
    <3>1. \A i \in 1 .. j : i \in 1 .. N /\ p[i] \in 1 .. N /\ flat[p[i]] \in 0 .. NRouted - 1 /\ flat[p[i]] <= d
      <4> SUFFICES ASSUME NEW i \in 1 .. j
                   PROVE  /\ i \in 1 .. N /\ p[i] \in 1 .. N
                          /\ flat[p[i]] \in 0 .. NRouted - 1 /\ flat[p[i]] <= d
        OBVIOUS
      <4>1. i \in 1 .. N /\ i <= j
        OBVIOUS
      <4>2. p[i] \in 1 .. N /\ flat[p[i]] \in 0 .. NRouted - 1
        BY <1>8, <4>1
      <4>3. flat[p[i]] <= d
        BY <1>1, <4>1
      <4> QED
        BY <4>1, <4>2, <4>3
    <3>2. \A i \in 1 .. j : p[i] \in Before(d + 1)
      <4> HIDE DEF d
      <4> QED
        BY <1>0, <1>2, <3>1
    <3> HIDE DEF Before
    <3>3. q \in [1 .. j -> Before(d + 1)]
      BY <3>2
    <3> QED
      BY <1>1, <3>1, <3>3 DEF Injection, IsInjective
  <2>2. Cardinality(1 .. j) = j
    BY FS_Interval
  <2> HIDE DEF q, Before, S, d
  <2>3. Cardinality(1 .. j) <= Cardinality(Before(d + 1))
    BY <1>2, <1>3, <2>1, FS_Injection
  <2> QED
    BY <1>2, <1>3, <2>2, <2>3
<1>6. ASSUME NEW e \in 0 .. NRouted - 1, S[e] < j, j <= S[e + 1] PROVE e = d
  <2> HIDE DEF S, d, Before
  <2>1. e \in 0 .. NRouted /\ e + 1 \in 0 .. NRouted
    BY <1>0
  <2>2. S[e] \in Nat /\ S[e + 1] \in Nat /\ S[d] \in Nat /\ S[d + 1] \in Nat
    BY <1>2, <1>3, <2>1
  <2>3. ~ (e + 1 <= d)
    <3>1. e + 1 <= d => S[e + 1] <= S[d]
      BY <1>2, <1>3, <2>1
    <3> QED
      BY <1>4, <1>6, <2>2, <3>1
  <2>4. ~ (d + 1 <= e)
    <3>1. d + 1 <= e => S[d + 1] <= S[e]
      BY <1>2, <1>3, <2>1
    <3> QED
      BY <1>5, <1>6, <2>2, <3>1
  <2> QED
    BY <1>0, <1>2, <2>3, <2>4
<1> HIDE DEF S, d
<1>7. (CHOOSE e \in 0 .. NRouted - 1 : S[e] < j /\ j <= S[e + 1]) = d
  BY <1>2, <1>4, <1>5, <1>6
<1> QED
  BY <1>7 DEF S, d

\* Place (t - 1) * K + k of a list with K entries per position, and back.
LEMMA EntryPlace ==
  ASSUME NEW K \in Nat \ {0}, NEW n \in Nat, NEW t \in 1 .. n, NEW k \in 1 .. K
  PROVE  /\ (t - 1) * K + k \in 1 .. n * K /\ n * K \in Nat
         /\ ((t - 1) * K + k - 1) \div K = t - 1
         /\ ((t - 1) * K + k - 1) % K = k - 1
<1>1. k - 1 \in 0 .. K - 1
  OBVIOUS
<1>2. t - 1 \in Nat
  OBVIOUS
<1>3. t - 1 \in 0 .. n - 1
  OBVIOUS
<1> QED
  BY <1>1, <1>2, <1>3, RowIndex

\* The same for the choices of the gate.
LEMMA ChoicePlace ==
  ASSUME NEW n \in Nat, NEW t \in 1 .. n, NEW k \in 1 .. TopK
  PROVE  /\ (t - 1) * TopK + k \in 1 .. n * TopK /\ n * TopK \in Nat
         /\ ((t - 1) * TopK + k - 1) \div TopK = t - 1
         /\ ((t - 1) * TopK + k - 1) % TopK = k - 1
<1>1. TopK \in Nat \ {0}
  BY LayoutAssumption, ModelAssumption
<1> QED
  BY <1>1, EntryPlace

LEMMA PlaceEntry ==
  ASSUME NEW K \in Nat \ {0}, NEW n \in Nat, NEW i \in 1 .. n * K
  PROVE  (i - 1) \div K + 1 \in 1 .. n /\ ((i - 1) % K) + 1 \in 1 .. K
<1> DEFINE q == (i - 1) \div K
           r == (i - 1) % K
<1>1. i - 1 \in Nat /\ n * K \in Nat /\ i - 1 < n * K
  OBVIOUS
<1>2. q \in Nat /\ r \in 0 .. K - 1 /\ i - 1 = K * q + r
  BY <1>1
<1> HIDE DEF q, r
<1>3. ~ (n <= q)
  <2> SUFFICES ASSUME n <= q PROVE FALSE
    OBVIOUS
  <2>1. PICK d \in Nat : q = n + d
    <3>1. q - n \in Nat /\ q = n + (q - n)
      BY <1>2
    <3> QED
      BY <3>1
  <2>2. K * q = n * K + d * K /\ d * K \in Nat
    BY <2>1
  <2> QED
    BY <1>1, <1>2, <2>2
<1>4. q + 1 \in 1 .. n /\ r + 1 \in 1 .. K
  BY <1>2, <1>3
<1> QED
  BY <1>4 DEF q, r

\* However the choices are sorted, each position gets the outputs of its own
\* experts on its own value back, in the order its gate chose them.
LEMMA DispatchReturns ==
  ASSUME NEW n \in Nat, NEW x, DOMAIN x = 1 .. n, Len(x) = n,
         \A t \in 1 .. n : Gate(x[t]) \in [1 .. TopK -> 0 .. NRouted - 1],
         NEW p \in Sorts(FlatTopk(x)), NEW t \in 1 .. n, NEW k \in 1 .. TopK
  PROVE  MoeInfer(x, p, FlatTopk(x))[t][k] = [expert |-> Gate(x[t])[k], of |-> x[t]]
<1>3. TopK \in Nat \ {0} /\ NRouted \in Nat
  BY LayoutAssumption, ModelAssumption
<1>0. /\ (t - 1) * TopK + k \in 1 .. n * TopK /\ n * TopK \in Nat
      /\ ((t - 1) * TopK + k - 1) \div TopK = t - 1
      /\ ((t - 1) * TopK + k - 1) % TopK = k - 1
  BY ChoicePlace, Zenon
<1> DEFINE flat == FlatTopk(x)
           sorted == [j \in DOMAIN p |-> x[(p[j] - 1) \div TopK + 1]]
           count == [e \in 0 .. NRouted - 1 |-> Cardinality({ i \in DOMAIN flat : flat[i] = e })]
           first[e \in 0 .. NRouted] == IF e = 0 THEN 0 ELSE first[e - 1] + count[e - 1]
           expert(j) == CHOOSE e \in 0 .. NRouted - 1 : first[e] < j /\ j <= first[e + 1]
           outs == [j \in DOMAIN p |-> [expert |-> expert(j), of |-> sorted[j]]]
           new_x == Scatter(p, outs)
           N == n * TopK
<1>1. MoeInfer(x, p, flat) = [u \in DOMAIN x |-> [m \in 1 .. TopK |-> new_x[(u - 1) * TopK + m]]]
  BY DEF MoeInfer
<1>2. first = Starts(flat)
  BY DEF Starts
<1> DEFINE i == (t - 1) * TopK + k
<1>4. N \in Nat /\ i \in 1 .. N /\ (i - 1) \div TopK = t - 1 /\ (i - 1) % TopK = k - 1
  <2>1. N \in Nat
    BY <1>0, Zenon
  <2>2. i \in 1 .. N
    BY <1>0, Zenon
  <2>3. (i - 1) \div TopK = t - 1
    <3>1. ((t - 1) * TopK + k) - 1 = (t - 1) * TopK + (k - 1)
      <4>1. (t - 1) * TopK \in Int /\ k \in Int
        BY <1>3
      <4> QED
        BY <4>1
    <3> QED
      BY <1>0, <3>1, Zenon
  <2>4. (i - 1) % TopK = k - 1
    <3>1. ((t - 1) * TopK + k) - 1 = (t - 1) * TopK + (k - 1)
      <4>1. (t - 1) * TopK \in Int /\ k \in Int
        BY <1>3
      <4> QED
        BY <4>1
    <3> QED
      BY <1>0, <3>1, Zenon
  <2> QED
    BY <2>1, <2>2, <2>3, <2>4, Zenon
<1>5. \A m \in 1 .. N : (m - 1) \div TopK + 1 \in 1 .. n /\ ((m - 1) % TopK) + 1 \in 1 .. TopK
  BY <1>3, PlaceEntry
<1>12. MoeInfer(x, p, flat)[t][k] = new_x[i]
  BY <1>1
<1> HIDE DEF i
<1> HIDE DEF N
<1>6. flat = [m \in 1 .. N |-> Gate(x[(m - 1) \div TopK + 1])[((m - 1) % TopK) + 1]]
  BY DEF FlatTopk, N
<1> HIDE DEF first, flat
<1>7. flat \in [1 .. N -> 0 .. NRouted - 1]
  BY <1>5, <1>6
<1>8. p \in Sorts(flat)
  BY DEF flat
<1>9. /\ p \in [1 .. N -> 1 .. N]
      /\ \A a, b \in 1 .. N : p[a] = p[b] => a = b
      /\ \A a \in 1 .. N : \E b \in 1 .. N : p[b] = a
  <2>1. N \in Nat
    BY <1>4
  <2>2. /\ p \in [1 .. N -> 1 .. N]
        /\ \A a, b \in 1 .. N : p[a] = p[b] => a = b
        /\ \A a \in 1 .. N : \E b \in 1 .. N : p[b] = a
        /\ \A a, b \in 1 .. N : a <= b => flat[p[a]] <= flat[p[b]]
    BY <1>7, <1>8, <2>1, SortedOrder, Zenon
  <2> QED
    BY <2>2
<1>10. \A j \in 1 .. N : expert(j) = flat[p[j]]
  <2>1. \A j \in 1 .. N :
          (CHOOSE e \in 0 .. NRouted - 1 : Starts(flat)[e] < j /\ j <= Starts(flat)[e + 1]) = flat[p[j]]
    BY <1>4, <1>7, <1>8, RunOfPlace
  <2> QED
    BY <1>2, <2>1, Zenon
<1>11. i \in 1 .. N /\ (i - 1) \div TopK + 1 = t /\ ((i - 1) % TopK) + 1 = k
  BY <1>4
<1> DEFINE j == CHOOSE m \in DOMAIN p : p[m] = i
<1>13. j \in 1 .. N /\ p[j] = i /\ DOMAIN p = 1 .. N
  BY <1>9, <1>11
<1>14. new_x[i] = outs[j]
  BY <1>11, <1>13 DEF Scatter
<1>15. outs[j] = [expert |-> expert(j), of |-> x[(p[j] - 1) \div TopK + 1]]
  BY <1>13
<1> HIDE DEF j, outs, new_x, sorted
<1>16. expert(j) = flat[i] /\ x[(p[j] - 1) \div TopK + 1] = x[t]
  BY <1>10, <1>11, <1>13
<1>17. flat[i] = Gate(x[t])[k]
  BY <1>6, <1>11
<1> HIDE DEF expert
<1> QED
  BY <1>12, <1>14, <1>15, <1>16, <1>17 DEF flat

\* A batch of n values the gate can route; an order to dispatch them in; and
\* the batch one MLP later.
Routed(x, n) ==
  n \in Nat /\ DOMAIN x = 1 .. n /\ Len(x) = n
  /\ \A t \in 1 .. n : Gate(x[t]) \in [1 .. TopK -> 0 .. NRouted - 1]
Dispatched(l, x, p) == IsMoe(l) => p \in Sorts(FlatTopk(x))
Moved(out, x, n) == out = [t \in 1 .. n |-> AfterMlp(x[t])]

\* So an MLP, sparse or dense, takes each position's value one layer on.
LEMMA MlpAdvances ==
  ASSUME NEW n, NEW x, Routed(x, n), NEW l, NEW p, Dispatched(l, x, p)
  PROVE  Moved(MlpLayer(l, x, p, FlatTopk(x)), x, n)
<1> DEFINE out == MlpLayer(l, x, p, FlatTopk(x))
<1>0. n \in Nat /\ DOMAIN x = 1 .. n /\ Len(x) = n
  BY DEF Routed
<1>1. CASE ~ IsMoe(l)
  <2>1. out = [t \in 1 .. n |-> AfterMlp(x[t])]
    BY <1>0, <1>1 DEF MlpLayer
  <2> QED
    BY <2>1 DEF Moved
<1>2. CASE IsMoe(l)
  <2> DEFINE y == MoeInfer(x, p, FlatTopk(x))
  <2>1. \A t \in 1 .. n, k \in 1 .. TopK : y[t][k] = [expert |-> Gate(x[t])[k], of |-> x[t]]
    BY <1>2, DispatchReturns DEF Routed, Dispatched
  <2> HIDE DEF y
  <2>2. \A t \in 1 .. n : Mixed(x[t], y[t]) = AfterMlp(x[t])
    BY <2>1 DEF Mixed
  <2>3. out = [t \in 1 .. n |-> Mixed(x[t], y[t])]
    BY <1>0, <1>2 DEF MlpLayer, y
  <2>4. out = [t \in 1 .. n |-> AfterMlp(x[t])]
    BY <2>2, <2>3
  <2> QED
    BY <2>4 DEF Moved
<1> QED
  BY <1>1, <1>2

-----------------------------------------------------------------------------
(* What a forward computes.                                                *)

\* Prompts and answers are of one vocabulary, and the router's scores of
\* whatever a layer's attention may give are numbers.
SpeaksIn(Vocabulary) ==
  /\ Prompt \in Seq(Vocabulary)
  /\ \A t \in Seq(Vocabulary) : Greedy(t) \in Vocabulary
  /\ \A l \in Layers, t \in Seq(Vocabulary), e \in 0 .. NRouted - 1 :
       Affinity([at |-> l, seen |-> t], e) \in Int

\* The value of position i of a text before layer l, and its row of a cache.
Value(l, text, i) == [at |-> l, seen |-> IF l = 0 THEN <<text[i]>> ELSE SubSeq(text, 1, i)]
FreshRow(h, i) == Row(h, [pos |-> i - 1, base |-> 0])

LEMMA Fields ==
  /\ \A l, text, i : /\ Value(l, text, i).at = l
                     /\ Value(l, text, i).seen = IF l = 0 THEN <<text[i]>> ELSE SubSeq(text, 1, i)
  /\ \A h, i : /\ FreshRow(h, i).of = h
               /\ FreshRow(h, i).rot = [pos |-> i - 1, base |-> 0]
               /\ FreshRow(h, i).rot.pos = i - 1
               /\ FreshRow(h, i).rot.base = 0
BY DEF Value, FreshRow, Row

LEMMA Reseen ==
  ASSUME NEW l, NEW text, NEW i, NEW p
  PROVE  [Value(l, text, i) EXCEPT !.seen = p] = [at |-> l, seen |-> p]
BY DEF Value

\* Text written after a position does not matter to it.
LEMMA ValueOfPrefix ==
  ASSUME NEW V, NEW s \in Seq(V), NEW t \in Seq(V), NEW n \in 0 .. Len(s),
         n <= Len(t), \A k \in 1 .. n : t[k] = s[k], NEW l, NEW i \in 1 .. n
  PROVE  Value(l, t, i) = Value(l, s, i)
<1>1. SubSeq(t, 1, i) = SubSeq(s, 1, i)
  <2>1. SubSeq(t, 1, i) = [k \in 1 .. i |-> t[k]] /\ SubSeq(s, 1, i) = [k \in 1 .. i |-> s[k]]
    OBVIOUS
  <2>2. \A k \in 1 .. i : t[k] = s[k]
    OBVIOUS
  <2> QED
    BY <2>1, <2>2
<1> QED
  BY <1>1 DEF Value

\* A query that sees a fresh row of every position up to its own, in order,
\* and asks with the last one's value, knows the text afterwards.
LEMMA AttendReads ==
  ASSUME NEW V, NEW T \in Seq(V), NEW n \in 1 .. Len(T), NEW l \in Layers, NEW seen,
         Sized(seen, n), \A i \in 1 .. n : seen[i] = FreshRow(Value(l, T, i), i)
  PROVE  Attend(Value(l, T, n), [pos |-> n - 1, base |-> 0], seen) = [at |-> l, seen |-> SubSeq(T, 1, n)]
<1> DEFINE h == Value(l, T, n)
           rot == [pos |-> n - 1, base |-> 0]
           dist(i) == rot.pos - seen[i].rot.pos
           at(k) == CHOOSE i \in 1 .. n : dist(i) = n - k
           proper ==
             /\ h # Garbage
             /\ { dist(i) : i \in 1 .. n } = 0 .. n - 1
             /\ \A i \in 1 .. n : seen[i].of.at = h.at /\ seen[i].rot.base = rot.base
           prefix == [k \in 1 .. n |-> Last(seen[at(k)].of.seen)]
           carried(k) == IF h.at = 0 THEN <<prefix[k]>> ELSE SubSeq(prefix, 1, k)
           text == [k \in 1 .. n |-> T[k]]
<1>0. n \in Nat /\ Len(seen) = n /\ n \in 1 .. n /\ l \in Nat
  BY SizedDomain, Shape
<1>1. Attend(h, rot, seen) =
        IF proper /\ h = seen[at(n)].of /\ \A k \in 1 .. n : seen[at(k)].of.seen = carried(k)
        THEN [h EXCEPT !.seen = prefix]
        ELSE Garbage
  BY <1>0 DEF Attend
<1>2. \A i \in 1 .. n : /\ seen[i].of = Value(l, T, i) /\ seen[i].rot.pos = i - 1
                        /\ seen[i].rot.base = 0 /\ seen[i].of.at = l
  BY Fields
<1>3. \A i \in 1 .. n : dist(i) = n - i
  BY <1>0, <1>2
<1>4. \A k \in 1 .. n : at(k) = k
  BY <1>0, <1>3
<1>5. { dist(i) : i \in 1 .. n } = 0 .. n - 1
  <2>1. \A i \in 1 .. n : dist(i) \in 0 .. n - 1
    BY <1>0, <1>3
  <2>2. \A d \in 0 .. n - 1 : n - d \in 1 .. n /\ dist(n - d) = d
    BY <1>0, <1>3
  <2> HIDE DEF dist
  <2> QED
    BY <2>1, <2>2
<1>6. h.at = l /\ h # Garbage
  <2>1. h.at = l /\ Garbage.at = -1
    BY DEF Value, Garbage
  <2> QED
    BY <1>0, <2>1
<1>7. proper
  BY <1>2, <1>5, <1>6
<1>8. \A k \in 1 .. n : Last(Value(l, T, k).seen) = T[k]
  <2> SUFFICES ASSUME NEW k \in 1 .. n PROVE Last(Value(l, T, k).seen) = T[k]
    OBVIOUS
  <2>1. Last(<<T[k]>>) = T[k]
    BY DEF Last
  <2>2. Last(SubSeq(T, 1, k)) = T[k]
    BY DEF Last
  <2> QED
    BY <2>1, <2>2 DEF Value
<1>9. prefix = text
  BY <1>2, <1>4, <1>8
<1>10. text = SubSeq(T, 1, n) /\ \A k \in 1 .. n : SubSeq(text, 1, k) = SubSeq(T, 1, k) /\ text[k] = T[k]
  <2>1. text = SubSeq(T, 1, n) /\ text \in Seq(V) /\ Len(text) = n
    OBVIOUS
  <2>2. ASSUME NEW k \in 1 .. n PROVE SubSeq(text, 1, k) = SubSeq(T, 1, k) /\ text[k] = T[k]
    <3>1. SubSeq(text, 1, k) = [j \in 1 .. k |-> text[j]] /\ SubSeq(T, 1, k) = [j \in 1 .. k |-> T[j]]
      <4> HIDE DEF text
      <4> QED
        BY <2>1
    <3>2. \A j \in 1 .. k : j \in 1 .. n
      OBVIOUS
    <3> QED
      BY <3>1, <3>2
  <2> QED
    BY <2>1, <2>2
<1> HIDE DEF proper, prefix, at, dist, text
<1>11. \A k \in 1 .. n : seen[at(k)].of.seen = carried(k)
  <2> SUFFICES ASSUME NEW k \in 1 .. n PROVE seen[k].of.seen = carried(k)
    BY <1>4
  <2>1. seen[k].of.seen = IF l = 0 THEN <<T[k]>> ELSE SubSeq(T, 1, k)
    BY <1>2, Fields
  <2>2. carried(k) = IF l = 0 THEN <<T[k]>> ELSE SubSeq(T, 1, k)
    BY <1>6, <1>9, <1>10
  <2> QED
    BY <2>1, <2>2
<1>12. h = seen[at(n)].of
  BY <1>0, <1>2, <1>4
<1>13. Attend(h, rot, seen) = [h EXCEPT !.seen = prefix]
  BY <1>1, <1>7, <1>11, <1>12
<1>14. [h EXCEPT !.seen = prefix] = [at |-> l, seen |-> SubSeq(T, 1, n)]
  <2>1. prefix = SubSeq(T, 1, n)
    BY <1>9, <1>10
  <2> QED
    <3>1. [h EXCEPT !.seen = prefix] = [at |-> l, seen |-> prefix]
      BY Reseen
    <3> QED
      BY <2>1, <3>1, Zenon
<1> QED
  BY <1>13, <1>14

\* What the attention gives, the gate can route and the MLP takes a layer on.
LEMMA AttendedMoves ==
  ASSUME NEW V, SpeaksIn(V), NEW T \in Seq(V), NEW n \in 1 .. Len(T), NEW l \in Layers
  PROVE  LET a == [at |-> l, seen |-> SubSeq(T, 1, n)] IN
         /\ Gate(a) \in [1 .. TopK -> 0 .. NRouted - 1]
         /\ AfterMlp(a) = Value(l + 1, T, n)
<1> DEFINE s == SubSeq(T, 1, n)
           a == [at |-> l, seen |-> s]
<1>1. s \in Seq(V) /\ l \in Nat
  BY Shape
<1> HIDE DEF s
<1>2. \A e \in 0 .. NRouted - 1 : Affinity(a, e) \in Int
  BY <1>1 DEF SpeaksIn
<1>3. a # Garbage
  <2>1. a.at = l /\ Garbage.at = -1
    BY DEF Garbage
  <2> HIDE DEF a
  <2> QED
    BY <1>1, <2>1
<1>4. AfterMlp(a) = [a EXCEPT !.at = @ + 1]
  BY <1>3 DEF AfterMlp
<1>5. AfterMlp(a) = Value(l + 1, T, n)
  <2>1. Value(l + 1, T, n) = [at |-> l + 1, seen |-> s]
    <3>1. l + 1 # 0
      BY <1>1
    <3> QED
      BY <3>1 DEF Value, s
  <2>2. [a EXCEPT !.at = @ + 1] = [at |-> l + 1, seen |-> s]
    OBVIOUS
  <2> QED
    BY <1>4, <2>1, <2>2, Zenon
<1>6. Gate(a) \in [1 .. TopK -> 0 .. NRouted - 1]
  BY <1>2, GateChooses
<1> QED
  BY <1>5, <1>6 DEF s

\* c is s followed by t.
Joins(c, s, t) == c = s \o t
Pieces(c, s, m, t, n) == (\A i \in 1 .. m : c[i] = s[i]) /\ (\A i \in 1 .. n : c[m + i] = t[i])

LEMMA ConcatAt ==
  ASSUME NEW m, NEW n, NEW s, NEW t, Sized(s, m), Sized(t, n), NEW c, Joins(c, s, t)
  PROVE  Pieces(c, s, m, t, n)
<1>1. PICK S : s \in Seq(S) /\ t \in Seq(S) /\ Len(s) = m /\ Len(t) = n /\ m \in Nat /\ n \in Nat
  BY SizedInSeq
<1> QED
  BY <1>1 DEF Joins, Pieces

\* x is the values of positions s + 1 to s + W before layer l.
Values(x, l, T, s, W) == x = [i \in 1 .. W |-> Value(l, T, s + i)]

\* The text that positions s + 1, s + 2, ... know after the attention of layer l.
Attended(att, l, T, s, W) == att = [i \in 1 .. W |-> [at |-> l, seen |-> SubSeq(T, 1, s + i)]]

\* The MLP after it.
LEMMA BatchMoves ==
  ASSUME NEW V, SpeaksIn(V), NEW T \in Seq(V), NEW l \in Layers,
         NEW s \in Nat, NEW W \in Nat, s + W <= Len(T),
         NEW att, Attended(att, l, T, s, W), NEW idxs, Dispatched(l, att, idxs)
  PROVE  Values(MlpLayer(l, att, idxs, FlatTopk(att)), l + 1, T, s, W)
<1> DEFINE a(i) == [at |-> l, seen |-> SubSeq(T, 1, s + i)]
           out == MlpLayer(l, att, idxs, FlatTopk(att))
<1>1. ASSUME NEW i \in 1 .. W
      PROVE  /\ Gate(a(i)) \in [1 .. TopK -> 0 .. NRouted - 1]
             /\ AfterMlp(a(i)) = Value(l + 1, T, s + i)
  <2>1. s + i \in 1 .. Len(T)
    OBVIOUS
  <2> QED
    BY <2>1, AttendedMoves
<1>2. DOMAIN att = 1 .. W /\ Len(att) = W /\ \A i \in 1 .. W : att[i] = a(i)
  BY DEF Attended
<1> HIDE DEF a, out
<1>3. Routed(att, W)
  BY <1>1, <1>2 DEF Routed
<1>4. Moved(out, att, W)
  BY <1>3, MlpAdvances, Zenon DEF out
<1>5. out = [i \in 1 .. W |-> AfterMlp(att[i])]
  BY <1>4 DEF Moved
<1>6. out = [i \in 1 .. W |-> Value(l + 1, T, s + i)]
  BY <1>1, <1>2, <1>5
<1> QED
  BY <1>6 DEF out, Values

\* A cache's rows of the first n positions, and the rotations of a batch.
FreshRows(kept, l, T, n) == \A i \in 1 .. n : kept[i] = FreshRow(Value(l, T, i), i)
Rotated(rots, s, W) == \A i \in 1 .. W : rots[i] = [pos |-> s + i - 1, base |-> 0]

\* A layer takes the values of a batch of positions one layer on, over the
\* rows of all positions before, in whatever order its dispatch sorts.
LEMMA LayerAdvances ==
  ASSUME NEW V, SpeaksIn(V), NEW T \in Seq(V), NEW l \in Layers,
         NEW s \in Nat, NEW W \in Nat \ {0}, s + W <= Len(T),
         NEW x, Values(x, l, T, s, W),
         NEW kept, Sized(kept, s), FreshRows(kept, l, T, s), NEW rots, Rotated(rots, s, W),
         NEW idxs, Dispatched(l, SelfAttention(x, rots, kept), idxs)
  PROVE  LET att == SelfAttention(x, rots, kept)
             out == MlpLayer(l, att, idxs, FlatTopk(att)) IN
         /\ Values(out, l + 1, T, s, W)
         /\ FreshRows(kept \o NewRows(x, rots), l, T, s + W)
<1> DEFINE new == NewRows(x, rots)
           all == kept \o new
           att == SelfAttention(x, rots, kept)
           out == MlpLayer(l, att, idxs, FlatTopk(att))
           a(i) == [at |-> l, seen |-> SubSeq(T, 1, s + i)]
<1>1. DOMAIN x = 1 .. W /\ Len(kept) = s /\ \A i \in 1 .. W : x[i] = Value(l, T, s + i)
  BY SizedDomain DEF Values
<1>2. Sized(new, W)
  <2>1. new = [i \in 1 .. W |-> new[i]]
    BY <1>1 DEF NewRows
  <2> HIDE DEF new
  <2> QED
    BY <2>1, SizedFunction
<1>3. \A i \in 1 .. W : new[i] = FreshRow(Value(l, T, s + i), s + i)
  BY <1>1 DEF NewRows, FreshRow, Rotated
<1> HIDE DEF new
<1>4. Sized(all, s + W)
  BY <1>2, SizedConcat
<1>5. ASSUME NEW i \in 1 .. s + W PROVE all[i] = FreshRow(Value(l, T, i), i)
  <2>0. Pieces(all, kept, s, new, W)
    <3>1. Joins(all, kept, new)
      BY DEF Joins
    <3> QED
      BY <1>2, <3>1, ConcatAt, Zenon
  <2>1. (\A j \in 1 .. s : all[j] = kept[j]) /\ (\A j \in 1 .. W : all[s + j] = new[j])
    BY <2>0, Zenon DEF Pieces
  <2> HIDE DEF all
  <2>2. CASE i <= s
    <3>1. all[i] = kept[i]
      BY <2>1, <2>2
    <3>2. i \in 1 .. s
      BY <2>2
    <3> QED
      BY <3>1, <3>2, Zenon DEF FreshRows
  <2>3. CASE s < i
    <3>1. PICK j \in 1 .. W : s + j = i
      <4>1. i - s \in 1 .. W /\ s + (i - s) = i
        BY <2>3
      <4> QED
        BY <4>1
    <3>2. all[s + j] = new[j]
      BY <2>1
    <3> QED
      BY <1>3, <3>1, <3>2, Zenon
  <2> QED
    BY <2>2, <2>3
<1>6. ASSUME NEW i \in 1 .. W PROVE att[i] = a(i)
  <2> DEFINE n == s + i
             seen == SubSeq(all, 1, n)
  <2>1. n \in 1 .. Len(T) /\ n \in 0 .. s + W /\ n \in Nat /\ n - 1 = s + i - 1
    OBVIOUS
  <2>2. Sized(seen, n)
    <3> HIDE DEF all, n
    <3> QED
      BY <1>4, <2>1, SizedSub
  <2>3. \A k \in 1 .. n : seen[k] = all[k] /\ k \in 1 .. s + W
    <3> HIDE DEF all, n
    <3>1. Len(all) = s + W
      BY <1>4, SizedDomain
    <3> QED
      BY <2>1
  <2>4. \A k \in 1 .. n : seen[k] = FreshRow(Value(l, T, k), k)
    BY <1>5, <2>3
  <2>5. att[i] = Attend(x[i], rots[i], seen)
    BY <1>1 DEF SelfAttention, new
  <2>6. x[i] = Value(l, T, n) /\ rots[i] = [pos |-> n - 1, base |-> 0]
    BY <1>1, <2>1 DEF Rotated
  <2> HIDE DEF seen, n, att
  <2>7. Attend(Value(l, T, n), [pos |-> n - 1, base |-> 0], seen) = [at |-> l, seen |-> SubSeq(T, 1, n)]
    BY <2>1, <2>2, <2>4, AttendReads
  <2> QED
    BY <2>5, <2>6, <2>7 DEF n
<1>7. att = [i \in 1 .. W |-> a(i)]
  <2>1. DOMAIN att = 1 .. W /\ att = [i \in 1 .. W |-> att[i]]
    BY <1>1 DEF SelfAttention
  <2> HIDE DEF att, a
  <2> QED
    BY <1>6, <2>1
<1>8. Values(out, l + 1, T, s, W)
  <2>1. Attended(att, l, T, s, W)
    BY <1>7 DEF Attended
  <2>2. W \in Nat /\ Dispatched(l, att, idxs)
    OBVIOUS
  <2> HIDE DEF att
  <2> QED
    BY <2>1, <2>2, BatchMoves
<1>9. FreshRows(all, l, T, s + W)
  BY <1>5, Zenon DEF FreshRows
<1> QED
  BY <1>8, <1>9 DEF out, att, all, new

-----------------------------------------------------------------------------
(* The reference decode.                                                   *)

PromptText(c) == SubSeq(Prompt, 1, c)

\* Every token is the model's choice after the prompt and the tokens before it.
IsGreedy(c, ids) ==
  \A k \in 1 .. Len(ids) : ids[k] = Greedy(PromptText(c) \o SubSeq(ids, 1, k - 1))

\* What the hidden states are stored of: the prompt and one token.
FirstText(c) == Append(PromptText(c), Greedy(PromptText(c)))

\* Every value of a run is the one its position has in the text, however the
\* text was cut into forwards.
ValueInv(V) ==
  /\ gen_ids \in Seq(V)
  /\ IsGreedy(context, gen_ids)
  /\ stage # "idle" => \A l \in Layers : FreshRows(past[l], l, RefText, RowsOf(l))
  /\ stage \in {"prefill", "decode"} => Values(hs, layer, RefText, start, Width)
  /\ stage # "prefill" =>
       \A m \in DOMAIN hidden : hidden[m] = Value(m + 1, FirstText(context), context + 1)

LEMMA PromptIn ==
  ASSUME NEW V, SpeaksIn(V), NEW c \in Contexts
  PROVE  PromptText(c) \in Seq(V) /\ Len(PromptText(c)) = c /\ c \in Nat \ {0}
         /\ Greedy(PromptText(c)) \in V
<1>1. Prompt \in Seq(V) /\ c \in Nat \ {0} /\ c \in 0 .. Len(Prompt)
  BY Shape DEF SpeaksIn
<1>2. PromptText(c) \in Seq(V) /\ Len(PromptText(c)) = c
  BY <1>1 DEF PromptText
<1> QED
  BY <1>1, <1>2 DEF SpeaksIn

LEMMA JoinedLength ==
  ASSUME NEW V, NEW s \in Seq(V), NEW t \in Seq(V), NEW u, u = s \o t
  PROVE  u \in Seq(V) /\ Len(u) = Len(s) + Len(t)
OBVIOUS

LEMMA TextOf ==
  ASSUME NEW V, SpeaksIn(V), RefInv, ValueInv(V)
  PROVE  /\ RefText \in Seq(V) /\ RefText = PromptText(context) \o gen_ids
         /\ Len(RefText) = context + Len(gen_ids)
         /\ stage \in {"prefill", "decode"} => Len(RefText) = start + Width
         /\ stage = "prefill" => RefText = PromptText(context)
         /\ stage \in {"cache", "tokens", "hidden"} => Len(RefText) = start + 2
<1>1. /\ PromptText(context) \in Seq(V) /\ Len(PromptText(context)) = context
      /\ context \in Nat \ {0} /\ decode \in Nat \ {0}
  BY PromptIn, Shape DEF RefInv, RefTypeOK
<1>2. gen_ids \in Seq(V)
  BY DEF ValueInv
<1>3. RefText = PromptText(context) \o gen_ids
  BY DEF RefText, PromptText
<1>4. RefText \in Seq(V) /\ Len(RefText) = context + Len(gen_ids)
  <2>1. RefText \in Seq(V)
    BY <1>1, <1>2, <1>3, JoinedLength
  <2>2. Len(RefText) = Len(PromptText(context)) + Len(gen_ids)
    <3> DEFINE p == PromptText(context)
               text == RefText
               g == gen_ids
    <3>1. p \in Seq(V) /\ g \in Seq(V) /\ text = p \o g
      BY <1>1, <1>2, <1>3
    <3> HIDE DEF p, text, g
    <3>2. Len(text) = Len(p) + Len(g)
      BY <3>1
    <3> QED
      BY <3>2 DEF p, text, g
  <2> QED
    BY <1>1, <2>1, <2>2
<1>5. CASE stage = "prefill"
  <2>1. gen_ids = << >> /\ start = 0 /\ Width = context
    BY <1>5 DEF RefInv, PhaseOK, Width
  <2>2. Len(RefText) = start + Width /\ RefText = PromptText(context)
    BY <1>1, <1>3, <2>1
  <2> QED
    BY <1>3, <1>4, <1>5, <2>2
<1>6. CASE stage = "decode"
  <2>1. Sized(gen_ids, Given) /\ Width = 1 /\ start \in Nat
    BY <1>6 DEF RefInv, PhaseOK, Width
  <2>2. Len(gen_ids) = Given
    BY <2>1, SizedDomain
  <2>3. Len(RefText) = start + Width
    BY <1>1, <1>4, <2>1, <2>2 DEF Given
  <2> QED
    BY <1>3, <1>4, <1>6, <2>3
<1>7. CASE stage \in {"cache", "tokens", "hidden"}
  <2>1. Sized(gen_ids, decode + 1) /\ Given = decode /\ start \in Nat
    BY <1>7 DEF RefInv, PhaseOK
  <2>2. Len(gen_ids) = decode + 1
    BY <2>1, SizedDomain
  <2>3. Len(RefText) = start + 2
    BY <1>1, <1>4, <2>1, <2>2 DEF Given
  <2> QED
    BY <1>3, <1>4, <1>7, <2>3
<1> QED
  BY <1>3, <1>4, <1>5, <1>6, <1>7

\* After the last layer the last position names the model's choice.
LEMMA NextIsGreedy ==
  ASSUME NEW V, SpeaksIn(V), RefInv, ValueInv(V), stage \in {"prefill", "decode"}, layer = NLayers
  PROVE  NextToken(Last(hs)) = Greedy(RefText) /\ Greedy(RefText) \in V
<1> DEFINE n == start + Width
<1>1. RefText \in Seq(V) /\ Len(RefText) = n
  BY TextOf
<1>2. Values(hs, NLayers, RefText, start, Width)
  BY DEF ValueInv
<1>3. start \in Nat /\ Width \in Nat \ {0} /\ Sized(hs, Width)
  BY Shape DEF RefInv, PhaseOK, RefTypeOK, Width
<1>4. Last(hs) = hs[Width]
  BY <1>3, SizedDomain DEF Last
<1>5. hs[Width] = Value(NLayers, RefText, n)
  BY <1>2, <1>3 DEF Values
<1>6. Last(hs) = Value(NLayers, RefText, n)
  BY <1>4, <1>5
<1>7. Value(NLayers, RefText, n).at = NLayers /\ Value(NLayers, RefText, n).seen = RefText
  <2>1. NLayers # 0
    BY Shape
  <2>2. SubSeq(RefText, 1, n) = RefText
    BY <1>1, <1>3
  <2> HIDE DEF n
  <2>3. /\ Value(NLayers, RefText, n).at = NLayers
        /\ Value(NLayers, RefText, n).seen =
             IF NLayers = 0 THEN <<RefText[n]>> ELSE SubSeq(RefText, 1, n)
    BY Fields
  <2> QED
    BY <2>1, <2>2, <2>3, Zenon
<1>8. NextToken(Last(hs)) = Greedy(RefText)
  <2> DEFINE h == Last(hs)
  <2>1. h.at = NLayers /\ h.seen = RefText
    BY <1>6, <1>7
  <2> HIDE DEF h
  <2> QED
    BY <2>1 DEF NextToken, h
<1> QED
  BY <1>1, <1>8 DEF SpeaksIn

\* One token more.
Answers(t, c, ids) == t = Greedy(PromptText(c) \o ids)

LEMMA JoinAppend ==
  ASSUME NEW V, NEW p \in Seq(V), NEW g \in Seq(V), NEW t \in V
  PROVE  p \o Append(g, t) = Append(p \o g, t)
OBVIOUS

LEMMA GreedyGrows ==
  ASSUME NEW V, NEW c, NEW ids \in Seq(V), IsGreedy(c, ids), NEW t \in V, Answers(t, c, ids),
         NEW more, more = Append(ids, t)
  PROVE  more \in Seq(V) /\ IsGreedy(c, more)
<1>1. more \in Seq(V) /\ Len(more) = Len(ids) + 1 /\ Len(ids) \in Nat
  OBVIOUS
<1>2. ASSUME NEW k \in 1 .. Len(ids)
      PROVE  more[k] = ids[k] /\ SubSeq(more, 1, k - 1) = SubSeq(ids, 1, k - 1)
  <2>1. more[k] = ids[k]
    BY <1>1
  <2>2. SubSeq(more, 1, k - 1) = [j \in 1 .. k - 1 |-> more[j]]
    BY <1>1
  <2>3. SubSeq(ids, 1, k - 1) = [j \in 1 .. k - 1 |-> ids[j]]
    OBVIOUS
  <2>4. \A j \in 1 .. k - 1 : more[j] = ids[j]
    OBVIOUS
  <2> QED
    BY <2>1, <2>2, <2>3, <2>4
<1>3. more[Len(ids) + 1] = t /\ SubSeq(more, 1, Len(ids)) = ids
  <2>1. SubSeq(more, 1, Len(ids)) = [j \in 1 .. Len(ids) |-> more[j]]
    BY <1>1
  <2>2. ids = [j \in 1 .. Len(ids) |-> ids[j]]
    OBVIOUS
  <2>3. \A j \in 1 .. Len(ids) : more[j] = ids[j]
    BY <1>2
  <2>4. SubSeq(more, 1, Len(ids)) = ids
    BY <2>1, <2>2, <2>3
  <2>5. more[Len(ids) + 1] = t
    OBVIOUS
  <2> QED
    BY <2>4, <2>5
<1>4. IsGreedy(c, more)
  <2> SUFFICES ASSUME NEW k \in 1 .. Len(more)
               PROVE  more[k] = Greedy(PromptText(c) \o SubSeq(more, 1, k - 1))
    BY DEF IsGreedy
  <2>1. CASE k \in 1 .. Len(ids)
    <3>1. ids[k] = Greedy(PromptText(c) \o SubSeq(ids, 1, k - 1))
      BY <2>1 DEF IsGreedy
    <3> QED
      BY <1>2, <2>1, <3>1, Zenon
  <2>2. CASE k = Len(ids) + 1
    <3>1. SubSeq(more, 1, k - 1) = ids /\ more[k] = t
      <4>1. k - 1 = Len(ids)
        BY <1>1, <2>2
      <4> QED
        BY <1>3, <2>2, <4>1
    <3> QED
      BY <3>1, Zenon DEF Answers
  <2> QED
    BY <1>1, <2>1, <2>2
<1> QED
  BY <1>1, <1>4

\* Rows of a text are rows of its continuation.
LEMMA RowsOfPrefix ==
  ASSUME NEW V, NEW T \in Seq(V), NEW t \in V, NEW n \in 0 .. Len(T), NEW kept, NEW l,
         FreshRows(kept, l, T, n), NEW U, U = Append(T, t)
  PROVE  FreshRows(kept, l, U, n)
<1>1. ASSUME NEW i \in 1 .. n PROVE Value(l, U, i) = Value(l, T, i)
  <2>1. U \in Seq(V) /\ n <= Len(U) /\ \A k \in 1 .. n : U[k] = T[k]
    OBVIOUS
  <2> QED
    BY <2>1, ValueOfPrefix
<1> QED
  BY <1>1 DEF FreshRows

\* The text is left as it is, grows by the model's choice, or begins anew.
TextStep ==
  \/ RefText' = RefText
  \/ RefText' = Append(RefText, Greedy(RefText))
  \/ \E c \in Contexts : RefText' = PromptText(c)

LEMMA NothingIn == ASSUME NEW V PROVE << >> \in Seq(V) /\ Len(<< >>) = 0 /\ DOMAIN << >> = {}
OBVIOUS

LEMMA NoTokens == \A c : IsGreedy(c, << >>)
BY NothingIn DEF IsGreedy

LEMMA BareText ==
  ASSUME NEW V, NEW p \in Seq(V)
  PROVE  p \o << >> = p
OBVIOUS

LEMMA JoinOne ==
  ASSUME NEW V, NEW p \in Seq(V), NEW g \in Seq(V), Len(g) = 1
  PROVE  p \o g = Append(p, g[1])
<1>1. g = <<g[1]>> /\ g[1] \in V
  OBVIOUS
<1>2. ASSUME NEW x \in V PROVE p \o <<x>> = Append(p, x)
  OBVIOUS
<1> QED
  BY <1>1, <1>2

LEMMA ValueInit ==
  ASSUME NEW V, SpeaksIn(V), RefInit
  PROVE  ValueInv(V) /\ \E c \in Contexts : RefText = PromptText(c)
<1>1. stage = "idle" /\ gen_ids = << >> /\ hidden = << >> /\ context \in Contexts
  BY DEF RefInit
<1>2. ValueInv(V)
  BY <1>1, NothingIn, NoTokens DEF ValueInv
<1>3. RefText = PromptText(context)
  <2>1. RefText = PromptText(context) \o << >>
    BY <1>1 DEF RefText, PromptText
  <2> QED
    BY <1>1, <2>1, PromptIn, BareText
<1> QED
  BY <1>1, <1>2, <1>3

LEMMA GoneValues ==
  ASSUME NEW V, SpeaksIn(V), RefInv, Gone
  PROVE  ValueInv(V)' /\ TextStep
<1>1. stage' = "idle" /\ gen_ids' = << >> /\ hidden' = << >> /\ context' = context /\ context \in Contexts
  BY DEF Gone, RefInv, RefTypeOK
<1>2. ValueInv(V)'
  BY <1>1, NothingIn, NoTokens DEF ValueInv
<1>3. RefText' = PromptText(context)
  <2>1. RefText' = PromptText(context) \o << >>
    BY <1>1 DEF RefText, PromptText
  <2> QED
    BY <1>1, <2>1, PromptIn, BareText
<1> QED
  BY <1>1, <1>2, <1>3 DEF TextStep

LEMMA StartValues ==
  ASSUME NEW V, SpeaksIn(V), RefInv, NEW c \in Contexts, NEW d \in Decodes, StartReference(c, d)
  PROVE  ValueInv(V)' /\ TextStep
<1>1. /\ stage' = "prefill" /\ gen_ids' = << >> /\ context' = c /\ layer' = 0 /\ start' = 0
      /\ hs' = [i \in DOMAIN PromptText(c) |-> Embed(PromptText(c)[i])]
  BY DEF StartReference, Forward, PromptText
<1>2. RefText' = PromptText(c)
  <2>1. RefText' = PromptText(c) \o << >>
    BY <1>1 DEF RefText, PromptText
  <2> QED
    BY <1>1, <2>1, PromptIn, BareText
<1>3. Width' = c /\ c \in Nat
  BY <1>1, Shape DEF Width
<1>4. Values(hs', 0, RefText', 0, c)
  <2> DEFINE p == PromptText(c)
  <2>1. DOMAIN p = 1 .. c
    BY PromptIn
  <2> HIDE DEF p
  <2>2. hs' = [i \in 1 .. c |-> Embed(p[i])]
    BY <1>1, <2>1 DEF p
  <2>3. \A i \in 1 .. c : Embed(p[i]) = Value(0, p, 0 + i)
    BY <1>3 DEF Embed, Value
  <2>4. hs' = [i \in 1 .. c |-> Value(0, p, 0 + i)]
    BY <2>2, <2>3
  <2> QED
    BY <1>2, <2>4 DEF Values, p
<1>5. \A l \in Layers : FreshRows(past'[l], l, RefText', RowsOf(l)')
  <2>1. \A l \in Layers : RowsOf(l)' = 0
    BY <1>1, Shape DEF RowsOf
  <2> QED
    BY <2>1 DEF FreshRows
<1>6. ValueInv(V)'
  BY <1>1, <1>3, <1>4, <1>5, NothingIn, NoTokens DEF ValueInv
<1> QED
  BY <1>2, <1>6 DEF TextStep

LEMMA RunLayerValues ==
  ASSUME NEW V, SpeaksIn(V), RefInv, ValueInv(V), RunLayer
  PROVE  ValueInv(V)' /\ TextStep
<1> DEFINE l == layer
           W == Width
           T == RefText
           table == RotaryForward(cached[l], Len(hs) + Len(past[l]))
           rots == [i \in DOMAIN hs |-> Rotation(table, start + i - 1)]
           att == SelfAttention(hs, rots, past[l])
           flat == FlatTopk(att)
<1>1. /\ stage \in {"prefill", "decode"} /\ l \in Layers /\ l \in Nat /\ l < NLayers
      /\ UNCHANGED <<stage, context, decode, start, masked, hooks, gen_ids, files, runs>>
      /\ past' = [past EXCEPT ![l] = @ \o NewRows(hs, rots)]
      /\ layer' = l + 1
  BY Shape DEF RunLayer, RefInv, RefTypeOK
<1>2. PICK idxs \in IF IsMoe(l) THEN Sorts(flat) ELSE {flat} :
        /\ hs' = MlpLayer(l, att, idxs, flat)
        /\ hidden' = Hooked(hidden, "layer", l, Last(MlpLayer(l, att, idxs, flat)))
  BY DEF RunLayer
<1>3. Dispatched(l, att, idxs)
  BY <1>2 DEF Dispatched
<1>4. /\ Sized(hs, W) /\ start \in Nat /\ Sized(past[l], start) /\ RowsOf(l) = start
      /\ W \in Nat \ {0} /\ W = (IF stage = "prefill" THEN context ELSE 1)
  <2>1. Sized(hs, W) /\ start \in Nat /\ Sized(past[l], RowsOf(l)) /\ RowsOf(l) = start
    BY <1>1, Shape DEF RefInv, PhaseOK, RowsOf
  <2>2. W \in Nat \ {0} /\ W = (IF stage = "prefill" THEN context ELSE 1)
    BY Shape DEF RefInv, RefTypeOK, Width
  <2> QED
    BY <2>1, <2>2
<1>5. T \in Seq(V) /\ start + W <= Len(T)
  <2>1. RefText \in Seq(V) /\ (stage \in {"prefill", "decode"} => Len(RefText) = start + Width)
    BY TextOf
  <2> QED
    BY <1>1, <1>4, <2>1
<1>6. Values(hs, l, T, start, W) /\ FreshRows(past[l], l, T, start)
  <2>1. FreshRows(past[l], l, T, RowsOf(l))
    BY <1>1 DEF ValueInv
  <2> QED
    BY <1>1, <1>4, <2>1 DEF ValueInv
<1>7. Rotated(rots, start, W)
  <2>1. DOMAIN hs = 1 .. W
    BY <1>4, SizedDomain
  <2> HIDE DEF table, W
  <2> QED
    BY <2>1, Shape DEF Rotated, Rotation
<1> HIDE DEF rots
<1>8. RefText' = T /\ Width' = W
  BY <1>1 DEF RefText, Width
<1> HIDE DEF T, W
<1>9. /\ Values(hs', l + 1, T, start, W)
      /\ FreshRows(past[l] \o NewRows(hs, rots), l, T, start + W)
  <2> DEFINE out == MlpLayer(l, att, idxs, FlatTopk(att))
             all == past[l] \o NewRows(hs, rots)
  <2>1. Values(out, l + 1, T, start, W) /\ FreshRows(all, l, T, start + W)
    BY <1>1, <1>3, <1>4, <1>5, <1>6, <1>7, LayerAdvances
  <2>2. hs' = out
    BY <1>2
  <2> QED
    BY <2>1, <2>2
<1>10. ASSUME NEW m \in Layers PROVE FreshRows(past'[m], m, T, RowsOf(m)')
  <2>1. CASE m = l
    <3>1. past'[m] = past[l] \o NewRows(hs, rots)
      BY <1>1, <2>1 DEF RefInv, RefTypeOK
    <3>2. RowsOf(m)' = start + W
      BY <1>1, <1>8, <2>1 DEF RowsOf
    <3> QED
      BY <1>9, <2>1, <3>1, <3>2
  <2>2. CASE m # l
    <3>1. past'[m] = past[m]
      BY <1>1, <2>2 DEF RefInv, RefTypeOK
    <3>2. RowsOf(m)' = RowsOf(m)
      BY <1>1, <1>8, <2>2, Shape DEF RowsOf, W
    <3>3. FreshRows(past[m], m, T, RowsOf(m))
      BY <1>1 DEF ValueInv, T
    <3> QED
      BY <3>1, <3>2, <3>3
  <2> QED
    BY <2>1, <2>2
<1>11. ASSUME stage = "decode"
       PROVE  \A m \in DOMAIN hidden' : hidden'[m] = Value(m + 1, FirstText(context), context + 1)
  <2>1. \A m \in DOMAIN hidden : hidden[m] = Value(m + 1, FirstText(context), context + 1)
    BY <1>11 DEF ValueInv
  <2>2. CASE Given # 1
    <3>1. hooks = {}
      BY <1>11, <2>2 DEF RefInv, PhaseOK
    <3>2. hidden' = hidden
      BY <1>2, <3>1 DEF Hooked
    <3> QED
      BY <2>1, <3>2
  <2>3. CASE Given = 1
    <3>1. start = context /\ W = 1 /\ context \in Nat
      <4>1. context \in Nat
        BY Shape DEF RefInv, RefTypeOK
      <4> QED
        BY <1>4, <1>11, <2>3, <4>1 DEF Given
    <3>2. T = FirstText(context)
      <4>1. Sized(gen_ids, 1) /\ gen_ids \in Seq(V) /\ IsGreedy(context, gen_ids)
        BY <1>11, <2>3 DEF RefInv, PhaseOK, ValueInv
      <4>2. Len(gen_ids) = 1
        BY <4>1, SizedDomain
      <4>4. PromptText(context) \in Seq(V)
        BY PromptIn DEF RefInv, RefTypeOK
      <4>5. gen_ids[1] = Greedy(PromptText(context))
        <5>1. gen_ids[1] = Greedy(PromptText(context) \o SubSeq(gen_ids, 1, 1 - 1))
          BY <4>1, <4>2 DEF IsGreedy
        <5>2. SubSeq(gen_ids, 1, 1 - 1) = << >>
          BY <4>1
        <5>3. PromptText(context) \o << >> = PromptText(context)
          BY <4>4, BareText
        <5> QED
          BY <5>1, <5>2, <5>3
      <4>6. RefText = PromptText(context) \o gen_ids
        BY DEF RefText, PromptText
      <4>7. PromptText(context) \o gen_ids = Append(PromptText(context), gen_ids[1])
        BY <4>1, <4>2, <4>4, JoinOne
      <4> QED
        BY <4>4, <4>5, <4>6, <4>7 DEF T, FirstText
    <3>3. Last(hs') = Value(l + 1, T, start + 1)
      <4>1. hs' = [i \in 1 .. 1 |-> Value(l + 1, T, start + i)]
        BY <1>9, <3>1 DEF Values
      <4> DEFINE g(i) == Value(l + 1, T, start + i)
                 x == hs'
      <4>2. x = [i \in 1 .. 1 |-> g(i)]
        BY <4>1
      <4> HIDE DEF x, g
      <4>3. Last(x) = g(1)
        BY <4>2 DEF Last
      <4> QED
        BY <4>3 DEF x, g
    <3>4. hidden' = Hooked(hidden, "layer", l, Last(hs'))
      BY <1>2
    <3> DEFINE z == Last(hs')
    <3>5. z = Value(l + 1, FirstText(context), context + 1)
      BY <3>1, <3>2, <3>3
    <3> HIDE DEF z
    <3>6. \A m \in DOMAIN hidden' : (m = l /\ hidden'[m] = z) \/ (m \in DOMAIN hidden /\ hidden'[m] = hidden[m])
      BY <3>4 DEF Hooked, z
    <3> QED
      BY <2>1, <3>5, <3>6
  <2> QED
    BY <2>2, <2>3
<1>12. ValueInv(V)'
  <2>1. gen_ids' \in Seq(V) /\ IsGreedy(context', gen_ids')
    BY <1>1 DEF ValueInv
  <2>2. \A m \in Layers : FreshRows(past'[m], m, RefText', RowsOf(m)')
    BY <1>8, <1>10
  <2>3. Values(hs', layer', RefText', start', Width')
    BY <1>1, <1>8, <1>9
  <2>4. stage' # "prefill" =>
          \A m \in DOMAIN hidden' : hidden'[m] = Value(m + 1, FirstText(context'), context' + 1)
    BY <1>1, <1>11
  <2> QED
    BY <2>1, <2>2, <2>3, <2>4 DEF ValueInv
<1> QED
  BY <1>8, <1>12 DEF TextStep, T

\* Between two forwards the text grows by the model's choice, and every row of
\* the cache is one of the longer text.
LEMMA TokenValues ==
  ASSUME NEW V, SpeaksIn(V), RefInv, ValueInv(V), stage \in {"prefill", "decode"}, layer = NLayers,
         gen_ids' = Append(gen_ids, NextToken(Last(hs))), context' = context, past' = past
  PROVE  /\ RefText' = Append(RefText, Greedy(RefText)) /\ RefText' \in Seq(V)
         /\ Len(RefText') = start + Width + 1 /\ RefText'[start + Width + 1] = Greedy(RefText)
         /\ gen_ids' \in Seq(V) /\ IsGreedy(context', gen_ids')
         /\ \A l \in Layers : FreshRows(past'[l], l, RefText', start + Width)
<1> DEFINE T == RefText
           t == Greedy(RefText)
           n == start + Width
<1>1. T \in Seq(V) /\ Len(T) = n /\ T = PromptText(context) \o gen_ids
  BY TextOf
<1>2. t \in V /\ NextToken(Last(hs)) = t
  BY NextIsGreedy
<1>3. PromptText(context) \in Seq(V) /\ gen_ids \in Seq(V) /\ IsGreedy(context, gen_ids)
  BY PromptIn DEF ValueInv, RefInv, RefTypeOK
<1>4. gen_ids' = Append(gen_ids, t)
  BY <1>2
<1>5. RefText' = PromptText(context) \o gen_ids'
  BY DEF RefText, PromptText
<1>6. Answers(t, context, gen_ids)
  BY <1>1, Zenon DEF Answers
<1> HIDE DEF t, n
<1>7. /\ gen_ids' \in Seq(V) /\ IsGreedy(context, gen_ids')
      /\ PromptText(context) \o gen_ids' = Append(PromptText(context) \o gen_ids, t)
  <2> DEFINE more == gen_ids'
  <2>1. more = Append(gen_ids, t)
    BY <1>4
  <2> HIDE DEF more
  <2>2. more \in Seq(V) /\ IsGreedy(context, more)
    BY <1>2, <1>3, <1>6, <2>1, GreedyGrows
  <2>3. PromptText(context) \o more = Append(PromptText(context) \o gen_ids, t)
    BY <1>2, <1>3, <2>1, JoinAppend
  <2> QED
    BY <2>2, <2>3 DEF more
<1>8. RefText' = Append(T, t)
  BY <1>1, <1>5, <1>7
<1> HIDE DEF T
<1>9. \A l \in Layers : FreshRows(past[l], l, T, n)
  <2>1. \A l \in Layers : RowsOf(l) = n
    BY AfterLayers DEF n
  <2> QED
    BY <2>1 DEF ValueInv, T
<1>10. n \in Nat /\ n \in 0 .. Len(T)
  BY <1>1
<1>11. \A l \in Layers : FreshRows(past[l], l, RefText', n)
  BY <1>1, <1>2, <1>8, <1>9, <1>10, RowsOfPrefix
<1>12. RefText' \in Seq(V) /\ Len(RefText') = n + 1 /\ RefText'[n + 1] = t
  BY <1>1, <1>2, <1>8
<1> QED
  BY <1>7, <1>8, <1>11, <1>12 DEF T, t, n

\* The next forward begins with the embedding of that token.
LEMMA NextValues ==
  ASSUME NEW T, NEW n \in Nat, NEW t, T[n + 1] = t, NEW mask, Forward(<<t>>, mask, n)
  PROVE  Values(hs', 0, T, n, 1)
<1>1. hs' = [i \in DOMAIN <<t>> |-> Embed(<<t>>[i])] /\ DOMAIN <<t>> = 1 .. 1 /\ <<t>>[1] = t
  BY DEF Forward
<1> DEFINE x == hs'
<1>2. x = [i \in 1 .. 1 |-> Embed(t)]
  BY <1>1
<1>3. \A i \in 1 .. 1 : Embed(t) = Value(0, T, n + i)
  BY DEF Embed, Value
<1> HIDE DEF x
<1>4. x = [i \in 1 .. 1 |-> Value(0, T, n + i)]
  BY <1>2, <1>3
<1> QED
  BY <1>4 DEF Values, x

LEMMA EndPrefillValues ==
  ASSUME NEW V, SpeaksIn(V), RefInv, ValueInv(V), EndPrefill
  PROVE  ValueInv(V)' /\ TextStep
<1> DEFINE t == NextToken(Last(hs))
<1>1. /\ stage = "prefill" /\ layer = NLayers /\ start = 0 /\ Width = context /\ gen_ids = << >>
      /\ stage' = "decode" /\ hidden' = << >> /\ gen_ids' = <<t>>
      /\ Forward(<<t>>, MaskLength(context, 0), Len(past[0]))
      /\ UNCHANGED <<context, past>>
  BY DEF EndPrefill, RefInv, PhaseOK, Width
<1>2. /\ context \in Nat \ {0} /\ Len(past[0]) = context
  BY <1>1, AfterLayers
<1>3. gen_ids' = Append(gen_ids, t)
  BY <1>1
<1>4. /\ RefText' = Append(RefText, Greedy(RefText)) /\ RefText'[context + 1] = t
      /\ gen_ids' \in Seq(V) /\ IsGreedy(context', gen_ids')
      /\ \A l \in Layers : FreshRows(past'[l], l, RefText', context)
  <2>1. start + Width = context
    BY <1>1, <1>2
  <2>2. t = Greedy(RefText)
    BY <1>1, NextIsGreedy
  <2> QED
    BY <1>1, <1>3, <2>1, <2>2, TokenValues
<1> HIDE DEF t
<1>5. layer' = 0 /\ start' = context /\ Width' = 1
  BY <1>1, <1>2 DEF Forward, Width
<1>6. Values(hs', layer', RefText', start', Width')
  <2>1. Values(hs', 0, RefText', context, 1)
    BY <1>1, <1>2, <1>4, NextValues
  <2> QED
    BY <1>5, <2>1
<1>7. \A l \in Layers : RowsOf(l)' = context
  BY <1>2, <1>5, Shape DEF RowsOf
<1>8. ValueInv(V)'
  BY <1>1, <1>4, <1>6, <1>7, NothingIn DEF ValueInv
<1> QED
  BY <1>4, <1>8 DEF TextStep

LEMMA EndStepValues ==
  ASSUME NEW V, SpeaksIn(V), RefInv, ValueInv(V), EndStep
  PROVE  ValueInv(V)' /\ TextStep
<1> DEFINE t == NextToken(Last(hs))
           g == Len(gen_ids)
<1>1. /\ stage = "decode" /\ layer = NLayers /\ Width = 1
      /\ gen_ids' = Append(gen_ids, t)
      /\ UNCHANGED <<context, past, hidden>>
      /\ \/ /\ Forward(<<t>>, MaskLength(context, (g - 1) + 1), Len(past[0])) /\ stage' = stage
         \/ /\ stage' = "cache" /\ UNCHANGED <<layer, start, masked, hs>>
  BY DEF EndStep, Width
<1>2. start \in Nat /\ Len(past[0]) = start + 1 /\ context \in Nat
  BY <1>1, AfterLayers
<1>3. /\ RefText' = Append(RefText, Greedy(RefText)) /\ RefText'[start + 1 + 1] = t
      /\ gen_ids' \in Seq(V) /\ IsGreedy(context', gen_ids')
      /\ \A l \in Layers : FreshRows(past'[l], l, RefText', start + 1)
  <2>1. t = Greedy(RefText)
    BY <1>1, NextIsGreedy
  <2> QED
    BY <1>1, <2>1, TokenValues
<1>4. \A m \in DOMAIN hidden' : hidden'[m] = Value(m + 1, FirstText(context'), context' + 1)
  BY <1>1 DEF ValueInv
<1> HIDE DEF t
<1>5. CASE stage' = stage /\ Forward(<<t>>, MaskLength(context, (g - 1) + 1), Len(past[0]))
  <2>1. layer' = 0 /\ start' = start + 1 /\ Width' = 1
    BY <1>1, <1>2, <1>5 DEF Forward, Width
  <2>2. Values(hs', layer', RefText', start', Width')
    <3> DEFINE n == Len(past[0])
    <3>1. n \in Nat /\ n = start + 1 /\ RefText'[n + 1] = t
      BY <1>2, <1>3
    <3>2. Forward(<<t>>, MaskLength(context, (g - 1) + 1), n)
      BY <1>5
    <3> HIDE DEF n
    <3>3. Values(hs', 0, RefText', n, 1)
      BY <3>1, <3>2, NextValues
    <3> QED
      BY <2>1, <3>1, <3>3
  <2>3. \A l \in Layers : RowsOf(l)' = start + 1
    BY <1>2, <2>1, Shape DEF RowsOf
  <2> QED
    BY <1>1, <1>3, <1>4, <1>5, <2>2, <2>3 DEF ValueInv, TextStep
<1>6. CASE stage' = "cache" /\ UNCHANGED <<layer, start, masked, hs>>
  <2>1. \A l \in Layers : RowsOf(l)' = start + 1
    BY <1>1, <1>2, <1>6, Shape DEF RowsOf, Width
  <2> QED
    BY <1>1, <1>3, <1>4, <1>6, <2>1 DEF ValueInv, TextStep
<1> QED
  BY <1>1, <1>5, <1>6

\* Nothing but the stage, the tables and the files change.
LEMMA ValuesStay ==
  ASSUME NEW V, SpeaksIn(V), ValueInv(V),
         UNCHANGED <<context, decode, layer, start, hs, past, hidden, gen_ids>>,
         \/ stage' = stage
         \/ stage \in {"cache", "tokens", "hidden"} /\ stage' \in {"cache", "tokens", "hidden"}
  PROVE  ValueInv(V)' /\ TextStep
<1>1. RefText' = RefText /\ Width' = Width /\ \A l \in Layers : RowsOf(l)' = RowsOf(l)
  BY DEF RefText, Width, RowsOf
<1> QED
  BY <1>1 DEF ValueInv, TextStep

LEMMA RefStepValues ==
  ASSUME NEW V, SpeaksIn(V), RefInv, ValueInv(V), RefStep
  PROVE  ValueInv(V)' /\ TextStep
<1>1. CASE RunLayer
  BY <1>1, RunLayerValues
<1>2. CASE EndPrefill
  BY <1>2, EndPrefillValues
<1>3. CASE EndStep
  BY <1>3, EndStepValues
<1>4. CASE Gone
  BY <1>4, GoneValues
<1>5. CASE WriteCache /\ ~ Gone
  <2>1. /\ stage = "cache" /\ stage' = "tokens"
        /\ UNCHANGED <<context, decode, layer, start, hs, past, hidden, gen_ids>>
    BY <1>5 DEF WriteCache
  <2> QED
    BY <2>1, ValuesStay
<1>6. CASE WriteTokens /\ ~ Gone
  <2>1. /\ stage = "tokens" /\ stage' = "hidden"
        /\ UNCHANGED <<context, decode, layer, start, hs, past, hidden, gen_ids>>
    BY <1>6 DEF WriteTokens, process
  <2> QED
    BY <2>1, ValuesStay
<1> QED
  BY <1>1, <1>2, <1>3, <1>4, <1>5, <1>6 DEF RefStep, WriteHidden, ReferenceDies

LEMMA SessionValues ==
  ASSUME NEW V, SpeaksIn(V), SessionInv, ValueInv(V), [Next]_vars
  PROVE  ValueInv(V)' /\ TextStep
<1>0. RefInv
  BY DEF SessionInv
<1>1. CASE UNCHANGED refVars
  BY <1>1, ValuesStay DEF refVars
<1>2. CASE StartRef
  BY <1>0, <1>2, StartValues DEF StartRef
<1>3. CASE RefStep
  BY <1>0, <1>3, RefStepValues
<1> QED
  BY <1>1, <1>2, <1>3 DEF Next, vars

\* The reference run's decode, through its key/value cache, a layer and a
\* position at a time, with its tables growing and its dispatch sorted in any
\* order, gives the tokens of a model that reads the whole text for every token
\* (reference_run.py main, Attention.forward, moe_infer), for every model that
\* answers in one vocabulary: the text of the run implements GreedyDecode.
THEOREM ReferenceDecodesGreedily ==
  ASSUME NEW V, SpeaksIn(V)
  PROVE  Spec => HfDecodesGreedily
<1> DEFINE Ps == { SubSeq(Prompt, 1, c) : c \in Contexts }
<1>1. SessionInit => ValueInv(V) /\ RefText \in Ps
  BY ValueInit DEF SessionInit, PromptText
<1>2. SessionInv /\ ValueInv(V) /\ [Next]_vars => ValueInv(V)' /\ [Golden!Start \/ Golden!Decode]_RefText
  <2> SUFFICES ASSUME SessionInv, ValueInv(V), [Next]_vars
               PROVE  ValueInv(V)' /\ [Golden!Start \/ Golden!Decode]_RefText
    OBVIOUS
  <2>1. ValueInv(V)' /\ TextStep
    BY SessionValues
  <2>2. CASE RefText' = RefText
    BY <2>1, <2>2
  <2>3. CASE RefText' = Append(RefText, Greedy(RefText))
    BY <2>1, <2>3 DEF Golden!Decode
  <2>4. CASE \E c \in Contexts : RefText' = PromptText(c)
    BY <2>1, <2>4 DEF Golden!Start, PromptText
  <2> QED
    BY <2>1, <2>2, <2>3, <2>4 DEF TextStep
<1> QED
  BY <1>1, <1>2, SessionInvariant, PTL DEF Spec, HfDecodesGreedily, Golden!Spec

=============================================================================
