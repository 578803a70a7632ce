-------------------------- MODULE GeneratorsProofs --------------------------
(***************************************************************************)
(* Theorems about Generators, for any feed, lists, target and beam: what   *)
(* the list operators return, what is known of selections and their sums,  *)
(* the invariants of the two searches, and the properties they imply.      *)
(***************************************************************************)
EXTENDS Generators, FiniteSetTheorems, SequenceTheorems, TLAPS

-----------------------------------------------------------------------------
(* Induction, over sets because the provers instantiate no predicates.     *)

LEMMA LeastOf ==
    ASSUME NEW T \in SUBSET Nat, T # {}
    PROVE  \E m \in T : \A n \in T : m <= n
<1>1. PICK m \in T : \A n \in T : ~(<<n, m>> \in OpToRel(<, Nat))
  BY WFMin, NatLessThanWellFounded
<1>2. \A n \in T : ~(n < m)
  BY <1>1 DEF OpToRel
<1> QED
  BY <1>2

LEMMA Inductive ==
    ASSUME NEW T, 0 \in T, \A n \in Nat : n \in T => n + 1 \in T
    PROVE  Nat \subseteq T
<1>1. SUFFICES ASSUME Nat \ T # {} PROVE FALSE
  OBVIOUS
<1>2. PICK m \in Nat \ T : \A n \in Nat \ T : m <= n
  BY <1>1, LeastOf
<1>3. m # 0 /\ m - 1 \in Nat
  BY <1>2
<1>4. m - 1 \in T
  BY <1>2, <1>3
<1> QED
  BY <1>2, <1>3, <1>4

-----------------------------------------------------------------------------
(* InOrder, Kept and StableSort (PythonLists).                             *)

TotalOrder(R, S) ==
    /\ \A x \in S : <<x, x>> \notin R
    /\ \A x, y \in S : x # y => <<x, y>> \in R \/ <<y, x>> \in R
    /\ \A x, y, z \in S : <<x, y>> \in R /\ <<y, z>> \in R => <<x, z>> \in R

LEMMA InOrderEnumerates ==
    ASSUME NEW S, IsFiniteSet(S), NEW R, TotalOrder(R, S)
    PROVE  /\ Cardinality(S) \in Nat
           /\ InOrder(S, R) \in [1..Cardinality(S) -> S]
           /\ \A x \in S : \E n \in 1..Cardinality(S) : InOrder(S, R)[n] = x
           /\ \A m, n \in 1..Cardinality(S) :
                 m < n => <<InOrder(S, R)[m], InOrder(S, R)[n]>> \in R
           /\ \A m, n \in 1..Cardinality(S) :
                 m # n => InOrder(S, R)[m] # InOrder(S, R)[n]
<1> DEFINE Below(x) == {y \in S : <<y, x>> \in R}
           N == Cardinality(S)
<1>0. N \in Nat
  BY FS_CardinalityType
<1>1. ASSUME NEW x \in S PROVE IsFiniteSet(Below(x)) /\ Cardinality(Below(x)) \in 0..(N - 1)
  <2>1. Below(x) \in SUBSET S /\ x \notin Below(x)
    BY DEF TotalOrder
  <2> HIDE DEF Below
  <2>2. /\ IsFiniteSet(Below(x)) /\ Cardinality(Below(x)) \in Nat
        /\ Cardinality(Below(x)) <= N /\ Cardinality(Below(x)) # N
    BY <2>1, FS_Subset, FS_CardinalityType
  <2> QED
    BY <2>2, <1>0
<1>2. ASSUME NEW x \in S, NEW y \in S, <<x, y>> \in R
      PROVE  Cardinality(Below(x)) < Cardinality(Below(y))
  <2>1. x \in Below(y) /\ x \notin Below(x)
    BY <1>2 DEF TotalOrder
  <2>2. \A z \in Below(x) : z \in Below(y)
    BY <1>2 DEF TotalOrder
  <2> HIDE DEF Below
  <2>3. Below(x) \in SUBSET Below(y)
    BY <2>2
  <2>4. /\ Cardinality(Below(x)) <= Cardinality(Below(y))
        /\ Cardinality(Below(x)) # Cardinality(Below(y))
    BY <2>1, <2>3, <1>1, FS_Subset
  <2> QED
    BY <2>4, <1>1, <1>0
<1> DEFINE rank == [x \in S |-> Cardinality(Below(x))]
<1>3. \A x \in S : rank[x] = Cardinality(Below(x))
  OBVIOUS
<1>4. rank \in [S -> 0..(N - 1)]
  BY <1>1
<1> HIDE DEF Below, rank, N
<1>5. ASSUME NEW x \in S, NEW y \in S, rank[x] = rank[y] PROVE x = y
  <2> SUFFICES ASSUME x # y PROVE FALSE
    OBVIOUS
  <2>1. <<x, y>> \in R \/ <<y, x>> \in R
    BY DEF TotalOrder
  <2>2. rank[x] \in 0..(N - 1) /\ rank[y] \in 0..(N - 1)
    BY <1>4
  <2>3. rank[x] < rank[y] \/ rank[y] < rank[x]
    BY <2>1, <1>2, <1>3
  <2> QED
    BY <2>2, <2>3, <1>5, <1>0
<1>6. IsFiniteSet(0..(N - 1)) /\ Cardinality(0..(N - 1)) = N
  BY <1>0, FS_Interval
<1>7. rank \in Injection(S, 0..(N - 1))
  BY <1>4, <1>5 DEF Injection, IsInjective
<1>8. rank \in Surjection(S, 0..(N - 1))
  BY <1>6, <1>7, FS_Injection DEF N
<1>9. \A n \in 1..N : \E x \in S : Cardinality(Below(x)) = n - 1
  <2> SUFFICES ASSUME NEW n \in 1..N PROVE \E x \in S : Cardinality(Below(x)) = n - 1
    OBVIOUS
  <2>1. n - 1 \in 0..(N - 1)
    BY <1>0
  <2> QED
    BY <2>1, <1>3, <1>8 DEF Surjection
<1> DEFINE order == InOrder(S, R)
<1>10. order = [n \in 1..N |-> CHOOSE x \in S : Cardinality(Below(x)) = n - 1]
  BY DEF InOrder, Below, N
<1> HIDE DEF order
<1>11. \A n \in 1..N : order[n] \in S /\ rank[order[n]] = n - 1
  BY <1>9, <1>10, <1>3
<1>12. order \in [1..N -> S]
  BY <1>10, <1>11
<1>13. ASSUME NEW x \in S PROVE \E n \in 1..N : order[n] = x
  <2>1. rank[x] + 1 \in 1..N
    BY <1>0, <1>4
  <2>2. rank[order[rank[x] + 1]] = rank[x]
    BY <2>1, <1>4, <1>11
  <2> QED
    BY <2>1, <2>2, <1>5, <1>11
<1>14. ASSUME NEW m \in 1..N, NEW n \in 1..N, m # n PROVE order[m] # order[n]
  BY <1>14, <1>11, <1>0
<1>15. ASSUME NEW m \in 1..N, NEW n \in 1..N, m < n PROVE <<order[m], order[n]>> \in R
  <2>1. order[m] \in S /\ order[n] \in S /\ rank[order[m]] = m - 1 /\ rank[order[n]] = n - 1
    BY <1>11
  <2>2. ~(rank[order[n]] < rank[order[m]])
    BY <2>1, <1>15, <1>0
  <2>3. order[m] # order[n]
    BY <1>14, <1>15, <1>0
  <2>4. <<order[m], order[n]>> \in R \/ <<order[n], order[m]>> \in R
    BY <2>1, <2>3 DEF TotalOrder
  <2>5. <<order[n], order[m]>> \in R => rank[order[n]] < rank[order[m]]
    BY <2>1, <1>2, <1>3
  <2> QED
    BY <2>2, <2>4, <2>5
<1> QED
  BY <1>0, <1>12, <1>13, <1>14, <1>15 DEF N, order

LEMMA AscendingEnumerates ==
    ASSUME NEW S \in SUBSET Int, IsFiniteSet(S)
    PROVE  /\ Cardinality(S) \in Nat
           /\ Ascending(S) \in [1..Cardinality(S) -> S]
           /\ \A x \in S : \E n \in 1..Cardinality(S) : Ascending(S)[n] = x
           /\ \A m, n \in 1..Cardinality(S) : m < n => Ascending(S)[m] < Ascending(S)[n]
<1> DEFINE R == {p \in S \X S : p[1] < p[2]}
<1>1. \A x, y \in S : <<x, y>> \in R <=> x < y
  OBVIOUS
<1> HIDE DEF R
<1>2. TotalOrder(R, S)
  BY <1>1 DEF TotalOrder
<1>3. Ascending(S) = InOrder(S, R)
  BY DEF Ascending, R
<1> DEFINE N == Cardinality(S)
           order == Ascending(S)
<1>4. /\ N \in Nat /\ order \in [1..N -> S]
      /\ \A x \in S : \E n \in 1..N : order[n] = x
      /\ \A m, n \in 1..N : m < n => <<order[m], order[n]>> \in R
  BY <1>2, <1>3, InOrderEnumerates
<1> HIDE DEF order, N
<1>5. \A m, n \in 1..N : m < n => order[m] < order[n]
  BY <1>1, <1>4
<1> QED
  BY <1>4, <1>5 DEF order, N

(* t is s at the positions in K, in their order. *)
Selects(s, K, t) ==
    \E at \in [1..Cardinality(K) -> K] :
        /\ \A n \in 1..Cardinality(K) : t[n] = s[at[n]]
        /\ \A i \in K : \E n \in 1..Cardinality(K) : at[n] = i
        /\ \A m, n \in 1..Cardinality(K) : m < n => at[m] < at[n]

LEMMA KeptElements ==
    ASSUME NEW E, NEW s \in Seq(E), NEW K \in SUBSET DOMAIN s
    PROVE  /\ IsFiniteSet(K) /\ Cardinality(K) \in Nat
           /\ Kept(s, K) \in Seq(E) /\ Len(Kept(s, K)) = Cardinality(K)
           /\ Selects(s, K, Kept(s, K))
<1>1. Len(s) \in Nat /\ DOMAIN s = 1..Len(s) /\ s \in [1..Len(s) -> E]
  BY LenProperties
<1>2. IsFiniteSet(K) /\ K \in SUBSET Int
  <2>1. IsFiniteSet(1..Len(s))
    BY <1>1, FS_Interval
  <2> QED
    BY <1>1, <2>1, FS_Subset
<1> DEFINE N == Cardinality(K)
           order == Ascending(K)
<1>3. /\ N \in Nat /\ order \in [1..N -> K]
      /\ \A x \in K : \E n \in 1..N : order[n] = x
      /\ \A m, n \in 1..N : m < n => order[m] < order[n]
  BY <1>2, AscendingEnumerates
<1>4. Kept(s, K) = [n \in DOMAIN order |-> s[order[n]]]
  BY DEF Kept
<1> HIDE DEF order, N
<1>5. Kept(s, K) = [n \in 1..N |-> s[order[n]]]
  BY <1>3, <1>4
<1>6. \A n \in 1..N : s[order[n]] \in E
  BY <1>1, <1>3
<1>7. Kept(s, K) \in Seq(E) /\ Len(Kept(s, K)) = N
  BY <1>3, <1>5, <1>6
<1>8. \A n \in 1..N : Kept(s, K)[n] = s[order[n]]
  BY <1>5
<1>9. Selects(s, K, Kept(s, K))
  BY <1>3, <1>8 DEF Selects, N
<1> QED
  BY <1>2, <1>3, <1>7, <1>9 DEF N

LEMMA KeptRange ==
    ASSUME NEW E, NEW s \in Seq(E), NEW K \in SUBSET DOMAIN s
    PROVE  ToSet(Kept(s, K)) = {s[i] : i \in K}
<1> DEFINE t == Kept(s, K)
           N == Cardinality(K)
<1>1. N \in Nat /\ t \in Seq(E) /\ Len(t) = N
  BY KeptElements
<1>2. PICK at \in [1..N -> K] :
         /\ \A n \in 1..N : t[n] = s[at[n]]
         /\ \A i \in K : \E n \in 1..N : at[n] = i
  BY KeptElements DEF Selects
<1>3. DOMAIN t = 1..N
  BY <1>1
<1> HIDE DEF t, N
<1>4. ToSet(t) = {s[i] : i \in K}
  BY <1>2, <1>3 DEF ToSet
<1> QED
  BY <1>4 DEF t

(* t is s in the order R of its positions. *)
Permutes(s, R, t) ==
    \E at \in [DOMAIN s -> DOMAIN s] :
        /\ \A n \in DOMAIN s : t[n] = s[at[n]]
        /\ \A i \in DOMAIN s : \E n \in DOMAIN s : at[n] = i
        /\ \A m, n \in DOMAIN s : m < n => <<at[m], at[n]>> \in R
        /\ \A m, n \in DOMAIN s : m # n => at[m] # at[n]

(* StableSort of PythonLists, for the order R of the positions. *)
Arranged(s, R) == [i \in DOMAIN s |-> s[InOrder(DOMAIN s, R)[i]]]

LEMMA ArrangedElements ==
    ASSUME NEW E, NEW s \in Seq(E), NEW R, TotalOrder(R, DOMAIN s)
    PROVE  /\ Arranged(s, R) \in Seq(E) /\ Len(Arranged(s, R)) = Len(s)
           /\ ToSet(Arranged(s, R)) = ToSet(s)
           /\ Permutes(s, R, Arranged(s, R))
<1>1. Len(s) \in Nat /\ DOMAIN s = 1..Len(s) /\ s \in [1..Len(s) -> E]
  BY LenProperties
<1>2. IsFiniteSet(DOMAIN s) /\ Cardinality(DOMAIN s) = Len(s)
  <2>1. IsFiniteSet(1..Len(s)) /\ Cardinality(1..Len(s)) = Len(s)
    BY <1>1, FS_Interval
  <2> QED
    BY <1>1, <2>1
<1> DEFINE order == InOrder(DOMAIN s, R)
           D == DOMAIN s
<1>3. /\ order \in [1..Len(s) -> D]
      /\ \A i \in D : \E n \in 1..Len(s) : order[n] = i
      /\ \A m, n \in 1..Len(s) : m < n => <<order[m], order[n]>> \in R
      /\ \A m, n \in 1..Len(s) : m # n => order[m] # order[n]
  BY <1>2, InOrderEnumerates
<1>4. Arranged(s, R) = [i \in D |-> s[order[i]]]
  BY DEF Arranged
<1> HIDE DEF order, D
<1>5. D = 1..Len(s) /\ order \in [D -> D]
  BY <1>1, <1>3 DEF D
<1>6. \A n \in D : Arranged(s, R)[n] = s[order[n]] /\ s[order[n]] \in E
  BY <1>1, <1>4, <1>5
<1>7. Arranged(s, R) \in Seq(E) /\ Len(Arranged(s, R)) = Len(s)
  BY <1>1, <1>4, <1>5, <1>6
<1>9. /\ order \in [D -> D]
      /\ \A n \in D : Arranged(s, R)[n] = s[order[n]]
      /\ \A i \in D : \E n \in D : order[n] = i
      /\ \A m, n \in D : m < n => <<order[m], order[n]>> \in R
      /\ \A m, n \in D : m # n => order[m] # order[n]
  BY <1>3, <1>5, <1>6
<1>8. ToSet(Arranged(s, R)) = ToSet(s)
  <2>1. DOMAIN Arranged(s, R) = D
    BY <1>4
  <2>2. ToSet(Arranged(s, R)) = {Arranged(s, R)[n] : n \in D}
    BY <2>1 DEF ToSet
  <2>3. ToSet(s) = {s[n] : n \in D}
    BY DEF ToSet, D
  <2>4. \A n \in D : \E i \in D : Arranged(s, R)[n] = s[i]
    BY <1>9
  <2>5. \A i \in D : \E n \in D : Arranged(s, R)[n] = s[i]
    BY <1>9
  <2> QED
    BY <2>2, <2>3, <2>4, <2>5
<1>10. Permutes(s, R, Arranged(s, R))
  BY <1>9 DEF Permutes, D
<1> QED
  BY <1>7, <1>8, <1>10

(* sorted, for the pairs W of positions whose elements have different ranks. *)
Stable(s, W) ==
    {p \in (DOMAIN s) \X (DOMAIN s) :
        \/ <<p[1], p[2]>> \in W
        \/ <<p[2], p[1]>> \notin W /\ p[1] < p[2]}

WeakOrder(W, S) ==
    /\ \A x, y \in S : <<x, y>> \in W => <<y, x>> \notin W
    /\ \A x, y, z \in S : <<x, z>> \in W => <<x, y>> \in W \/ <<y, z>> \in W

LEMMA StableIsTotal ==
    ASSUME NEW E, NEW s \in Seq(E), NEW W, WeakOrder(W, DOMAIN s)
    PROVE  TotalOrder(Stable(s, W), DOMAIN s)
<1>1. DOMAIN s \in SUBSET Int
  BY LenProperties
<1>2. \A x, y \in DOMAIN s :
         <<x, y>> \in Stable(s, W) <=>
            \/ <<x, y>> \in W
            \/ <<y, x>> \notin W /\ x < y
  BY DEF Stable
<1>3. \A x \in DOMAIN s : <<x, x>> \notin Stable(s, W)
  BY <1>1, <1>2 DEF WeakOrder
<1>4. ASSUME NEW x \in DOMAIN s, NEW y \in DOMAIN s, x # y
      PROVE  <<x, y>> \in Stable(s, W) \/ <<y, x>> \in Stable(s, W)
  <2>1. x < y \/ y < x
    BY <1>1, <1>4
  <2> QED
    BY <1>2, <2>1
<1>5. ASSUME NEW x \in DOMAIN s, NEW y \in DOMAIN s, NEW z \in DOMAIN s,
             <<x, y>> \in Stable(s, W), <<y, z>> \in Stable(s, W)
      PROVE  <<x, z>> \in Stable(s, W)
  <2>1. x < y /\ y < z => x < z
    BY <1>1
  <2>2. (<<x, y>> \in W => <<y, x>> \notin W) /\ (<<y, z>> \in W => <<z, y>> \notin W)
    BY DEF WeakOrder
  <2>3. /\ <<x, y>> \in W => <<x, z>> \in W \/ <<z, y>> \in W
        /\ <<y, z>> \in W => <<y, x>> \in W \/ <<x, z>> \in W
        /\ <<z, x>> \in W => <<z, y>> \in W \/ <<y, x>> \in W
    BY DEF WeakOrder
  <2> QED
    BY <1>2, <1>5, <2>1, <2>2, <2>3
<1> QED
  BY <1>3, <1>4, <1>5 DEF TotalOrder

(* t is s, rearranged, and none of its elements has a higher rank than one *)
(* before it.                                                              *)
Reordered(s, W, t) ==
    \E at \in [DOMAIN s -> DOMAIN s] :
        /\ \A n \in DOMAIN s : t[n] = s[at[n]]
        /\ \A i \in DOMAIN s : \E n \in DOMAIN s : at[n] = i
        /\ \A m, n \in DOMAIN s : m < n => <<at[n], at[m]>> \notin W
        /\ \A m, n \in DOMAIN s : m # n => at[m] # at[n]

LEMMA SortedElements ==
    ASSUME NEW E, NEW s \in Seq(E), NEW W, WeakOrder(W, DOMAIN s)
    PROVE  /\ Arranged(s, Stable(s, W)) \in Seq(E)
           /\ Len(Arranged(s, Stable(s, W))) = Len(s)
           /\ DOMAIN Arranged(s, Stable(s, W)) = DOMAIN s
           /\ ToSet(Arranged(s, Stable(s, W))) = ToSet(s)
           /\ Reordered(s, W, Arranged(s, Stable(s, W)))
<1> DEFINE R == Stable(s, W)
           t == Arranged(s, R)
<1>1. TotalOrder(R, DOMAIN s)
  BY StableIsTotal
<1>2. \A x, y \in DOMAIN s : <<x, y>> \in R => <<y, x>> \notin W
  BY DEF Stable, WeakOrder
<1> HIDE DEF R
<1>3. t \in Seq(E) /\ Len(t) = Len(s) /\ ToSet(t) = ToSet(s)
  BY <1>1, ArrangedElements
<1>0. Permutes(s, R, t)
  BY <1>1, ArrangedElements
<1>4. PICK at \in [DOMAIN s -> DOMAIN s] :
         /\ \A n \in DOMAIN s : t[n] = s[at[n]]
         /\ \A i \in DOMAIN s : \E n \in DOMAIN s : at[n] = i
         /\ \A m, n \in DOMAIN s : m < n => <<at[m], at[n]>> \in R
         /\ \A m, n \in DOMAIN s : m # n => at[m] # at[n]
  BY <1>0 DEF Permutes
<1>5. \A m, n \in DOMAIN s : m < n => <<at[n], at[m]>> \notin W
  BY <1>2, <1>4
<1>6. Reordered(s, W, t)
  BY <1>4, <1>5 DEF Reordered
<1>7. DOMAIN t = DOMAIN s
  BY DEF Arranged
<1> QED
  BY <1>3, <1>6, <1>7 DEF R

-----------------------------------------------------------------------------
(* FirstOfKey and BestOfKey.  The keys are those of the elements.          *)

Firsts(s, key) == {i \in DOMAIN s : \A j \in 1..(i - 1) : key[s[j]] # key[s[i]]}

LEMMA FirstsCover ==
    ASSUME NEW E, NEW s \in Seq(E), NEW key
    PROVE  /\ \A i \in DOMAIN s : \E k \in Firsts(s, key) : key[s[k]] = key[s[i]] /\ k <= i
           /\ \A i, j \in Firsts(s, key) : key[s[i]] = key[s[j]] => i = j
<1>1. DOMAIN s \in SUBSET Nat /\ DOMAIN s = 1..Len(s) /\ Len(s) \in Nat
  BY LenProperties
<1>2. ASSUME NEW i \in DOMAIN s
      PROVE  \E k \in Firsts(s, key) : key[s[k]] = key[s[i]] /\ k <= i
  <2> DEFINE T == {k \in DOMAIN s : key[s[k]] = key[s[i]]}
  <2>1. T \in SUBSET Nat /\ i \in T
    BY <1>1
  <2>2. PICK m \in T : \A n \in T : m <= n
    BY <2>1, LeastOf
  <2>3. m \in DOMAIN s /\ m \in Nat /\ key[s[m]] = key[s[i]] /\ m <= i
    BY <2>1, <2>2
  <2>4. \A j \in 1..(m - 1) : key[s[j]] # key[s[m]]
    <3> SUFFICES ASSUME NEW j \in 1..(m - 1), key[s[j]] = key[s[m]] PROVE FALSE
      OBVIOUS
    <3>1. j \in DOMAIN s /\ j < m /\ j \in Nat
      BY <2>3, <1>1
    <3>2. j \in T
      BY <3>1, <2>3
    <3> QED
      BY <3>1, <3>2, <2>2, <2>3
  <2>5. m \in Firsts(s, key)
    BY <2>3, <2>4 DEF Firsts
  <2> QED
    BY <2>3, <2>5
<1>3. ASSUME NEW i \in Firsts(s, key), NEW j \in Firsts(s, key), key[s[i]] = key[s[j]]
      PROVE  i = j
  <2>1. i \in Nat /\ j \in Nat /\ i >= 1 /\ j >= 1
    BY <1>1 DEF Firsts
  <2>2. i \notin 1..(j - 1) /\ j \notin 1..(i - 1)
    BY <1>3 DEF Firsts
  <2> QED
    BY <2>1, <2>2
<1> QED
  BY <1>2, <1>3

(* The positions of the first of the best elements of key k. *)
Bests(s, key, rank, k) ==
    {b \in DOMAIN s :
        /\ key[s[b]] = k
        /\ \A i \in DOMAIN s : key[s[i]] = k =>
              /\ ~(rank[s[i]] > rank[s[b]])
              /\ i < b => rank[s[b]] > rank[s[i]]}

LEMMA BestExists ==
    ASSUME NEW E, NEW s \in Seq(E), NEW key, NEW rank \in [E -> Int], NEW i \in DOMAIN s
    PROVE  Bests(s, key, rank, key[s[i]]) # {}
<1>1. Len(s) \in Nat /\ DOMAIN s = 1..Len(s) /\ \A j \in DOMAIN s : s[j] \in E /\ rank[s[j]] \in Int
  BY LenProperties
<1> DEFINE k == key[s[i]]
           Best(m, b) == /\ b \in 1..m /\ key[s[b]] = k
                         /\ \A j \in 1..m : key[s[j]] = k =>
                               /\ ~(rank[s[j]] > rank[s[b]])
                               /\ j < b => rank[s[b]] > rank[s[j]]
           Good == {m \in Nat : m <= Len(s) =>
                       ((\E j \in 1..m : key[s[j]] = k) => \E b \in 1..m : Best(m, b))}
<1> HIDE DEF k, Best
<1>2. 0 \in Good
  OBVIOUS
<1>3. ASSUME NEW m \in Nat, m \in Good PROVE m + 1 \in Good
  <2> SUFFICES ASSUME m + 1 <= Len(s), \E j \in 1..(m + 1) : key[s[j]] = k
               PROVE  \E b \in 1..(m + 1) : Best(m + 1, b)
    OBVIOUS
  <2>0. m + 1 \in DOMAIN s /\ \A j \in 1..m : j \in DOMAIN s /\ j \in 1..(m + 1) /\ j < m + 1
    BY <1>1
  <2>00. \A j \in 1..(m + 1) : j \in 1..m \/ j = m + 1
    OBVIOUS
  <2>1. CASE ~\E j \in 1..m : key[s[j]] = k
    <3>1. key[s[m + 1]] = k
      BY <2>1, <2>00
    <3>2. Best(m + 1, m + 1)
      BY <2>1, <3>1, <2>00, <2>0, <1>1 DEF Best
    <3> QED
      BY <3>2
  <2>2. CASE \E j \in 1..m : key[s[j]] = k
    <3>1. PICK b \in 1..m : Best(m, b)
      BY <2>2, <1>3, <2>0, <1>1
    <3>2. rank[s[b]] \in Int /\ rank[s[m + 1]] \in Int /\ b \in 1..(m + 1)
      BY <2>0, <1>1
    <3>3. CASE key[s[m + 1]] = k /\ rank[s[m + 1]] > rank[s[b]]
      <4>1. ASSUME NEW j \in 1..m, key[s[j]] = k
            PROVE  rank[s[m + 1]] > rank[s[j]] /\ ~(rank[s[j]] > rank[s[m + 1]])
        <5>1. ~(rank[s[j]] > rank[s[b]])
          BY <3>1, <4>1, <2>0 DEF Best
        <5>2. rank[s[j]] \in Int
          BY <2>0, <1>1
        <5> QED
          BY <5>1, <5>2, <3>2, <3>3
      <4>2. ~(rank[s[m + 1]] > rank[s[m + 1]]) /\ ~(m + 1 < m + 1)
        BY <3>2
      <4>3. ASSUME NEW j \in 1..(m + 1), key[s[j]] = k
            PROVE  /\ ~(rank[s[j]] > rank[s[m + 1]])
                   /\ j < m + 1 => rank[s[m + 1]] > rank[s[j]]
        BY <4>1, <4>2, <4>3, <2>00
      <4>4. Best(m + 1, m + 1)
        BY <3>3, <4>3 DEF Best
      <4> QED
        BY <4>4
    <3>4. CASE ~(key[s[m + 1]] = k /\ rank[s[m + 1]] > rank[s[b]])
      <4>1. ASSUME NEW j \in 1..m, key[s[j]] = k
            PROVE  ~(rank[s[j]] > rank[s[b]]) /\ (j < b => rank[s[b]] > rank[s[j]])
        BY <3>1, <4>1 DEF Best
      <4>2. ~(m + 1 < b)
        BY <3>1
      <4>3. ASSUME NEW j \in 1..(m + 1), key[s[j]] = k
            PROVE  ~(rank[s[j]] > rank[s[b]]) /\ (j < b => rank[s[b]] > rank[s[j]])
        <5>1. CASE j \in 1..m
          BY <4>1, <4>3, <5>1
        <5>2. CASE j = m + 1
          BY <5>2, <4>2, <4>3, <3>4
        <5> QED
          BY <5>1, <5>2, <2>00
      <4>4. key[s[b]] = k
        BY <3>1 DEF Best
      <4>5. Best(m + 1, b)
        BY <4>3, <4>4, <3>2 DEF Best
      <4> QED
        BY <4>5, <3>2
    <3> QED
      BY <3>3, <3>4
  <2> QED
    BY <2>1, <2>2
<1> HIDE DEF Good
<1>4. Len(s) \in Good
  BY <1>1, <1>2, <1>3, Inductive
<1>5. PICK b \in 1..Len(s) : Best(Len(s), b)
  <2> DEFINE N == Len(s)
  <2>1. \E j \in 1..N : key[s[j]] = k
    BY <1>1 DEF k
  <2>2. N \in Good /\ N <= Len(s)
    BY <1>1, <1>4
  <2>3. (\E j \in 1..N : key[s[j]] = k) => \E b \in 1..N : Best(N, b)
    <3> HIDE DEF N, k
    <3> QED
      BY <2>2, Zenon DEF Good
  <2> QED
    BY <2>1, <2>3
<1>6. b \in Bests(s, key, rank, k)
  BY <1>1, <1>5 DEF Bests, Best
<1> QED
  BY <1>6 DEF k

(* t has the best element of each key, at the place of the key's first. *)
BestList(s, key, rank, t) ==
    LET keys == Kept(s, Firsts(s, key))
    IN  /\ t = [n \in DOMAIN keys |-> t[n]]
        /\ \A n \in DOMAIN keys : \E b \in Bests(s, key, rank, key[keys[n]]) : t[n] = s[b]

(* One element of t for each key of s, at least as good as any of that key. *)
OneOfEach(s, key, rank, t) ==
    /\ \A m, n \in DOMAIN t : m # n => key[t[m]] # key[t[n]]
    /\ \A x \in ToSet(s) : \E n \in DOMAIN t : key[t[n]] = key[x] /\ rank[t[n]] >= rank[x]

LEMMA BestElements ==
    ASSUME NEW E, NEW s \in Seq(E), NEW key, NEW rank \in [E -> Int],
           NEW t, BestList(s, key, rank, t)
    PROVE  t \in Seq(E) /\ ToSet(t) \subseteq ToSet(s) /\ OneOfEach(s, key, rank, t)
<1>1. Len(s) \in Nat /\ DOMAIN s = 1..Len(s) /\ \A j \in DOMAIN s : s[j] \in E /\ rank[s[j]] \in Int
  BY LenProperties
<1> DEFINE K == Firsts(s, key)
           keys == Kept(s, K)
           N == Cardinality(K)
<1>2. K \in SUBSET DOMAIN s
  BY DEF Firsts
<1>3. /\ \A i \in DOMAIN s : \E k \in K : key[s[k]] = key[s[i]]
      /\ \A i, j \in K : key[s[i]] = key[s[j]] => i = j
  BY FirstsCover
<1>4. t = [n \in DOMAIN keys |-> t[n]]
  BY DEF BestList
<1>5. \A n \in DOMAIN keys : \E b \in Bests(s, key, rank, key[keys[n]]) : t[n] = s[b]
  BY DEF BestList
<1> HIDE DEF K
<1>6. N \in Nat /\ keys \in Seq(E) /\ Len(keys) = N /\ Selects(s, K, keys)
  BY <1>2, KeptElements
<1>7. PICK at \in [1..N -> K] :
         /\ \A n \in 1..N : keys[n] = s[at[n]]
         /\ \A i \in K : \E n \in 1..N : at[n] = i
         /\ \A m, n \in 1..N : m < n => at[m] < at[n]
  BY <1>6 DEF Selects
<1> HIDE DEF keys, N
<1>8. DOMAIN keys = 1..N
  BY <1>6
<1>9. t = [n \in 1..N |-> t[n]]
  BY <1>4, <1>8
<1>10. ASSUME NEW n \in 1..N
       PROVE  /\ t[n] \in ToSet(s) /\ t[n] \in E
              /\ key[t[n]] = key[s[at[n]]]
              /\ \A i \in DOMAIN s : key[s[i]] = key[t[n]] => rank[t[n]] >= rank[s[i]]
  <2>1. PICK b \in Bests(s, key, rank, key[keys[n]]) : t[n] = s[b]
    BY <1>5, <1>8
  <2>2. /\ b \in DOMAIN s /\ key[s[b]] = key[keys[n]]
        /\ \A i \in DOMAIN s : key[s[i]] = key[keys[n]] => ~(rank[s[i]] > rank[s[b]])
    BY <2>1 DEF Bests
  <2>3. keys[n] = s[at[n]]
    BY <1>7
  <2>4. \A i \in DOMAIN s : key[s[i]] = key[t[n]] => rank[t[n]] >= rank[s[i]]
    BY <2>1, <2>2, <1>1
  <2>5. t[n] \in ToSet(s)
    BY <2>1, <2>2 DEF ToSet
  <2> QED
    BY <2>1, <2>2, <2>3, <2>4, <2>5, <1>1
<1>11. t \in Seq(E)
  <2>1. \A n \in 1..N : t[n] \in E
    BY <1>10
  <2>2. [n \in 1..N |-> t[n]] \in Seq(E)
    BY <1>6, <2>1
  <2> QED
    BY <1>9, <2>2
<1>12. DOMAIN t = 1..N
  BY <1>9
<1>13. ToSet(t) \subseteq ToSet(s)
  <2>1. ToSet(t) = {t[n] : n \in 1..N}
    BY <1>12 DEF ToSet
  <2> QED
    BY <2>1, <1>10
<1>14. ASSUME NEW m \in 1..N, NEW n \in 1..N, m # n PROVE key[t[m]] # key[t[n]]
  <2>1. m < n \/ n < m
    BY <1>6, <1>14
  <2>2. at[m] \in K /\ at[n] \in K /\ at[m] \in Nat /\ at[n] \in Nat
    BY <1>1, <1>2, <1>7
  <2>3. at[m] # at[n]
    BY <2>1, <2>2, <1>7
  <2>4. key[s[at[m]]] # key[s[at[n]]]
    BY <2>2, <2>3, <1>3
  <2>5. key[t[m]] = key[s[at[m]]] /\ key[t[n]] = key[s[at[n]]]
    BY <1>10
  <2> QED
    BY <2>4, <2>5
<1>15. ASSUME NEW x \in ToSet(s)
       PROVE  \E n \in 1..N : key[t[n]] = key[x] /\ rank[t[n]] >= rank[x]
  <2>1. PICK i \in DOMAIN s : x = s[i]
    BY DEF ToSet
  <2>2. PICK k \in K : key[s[k]] = key[s[i]]
    BY <1>3
  <2>3. PICK n \in 1..N : at[n] = k
    BY <1>7
  <2>4. key[t[n]] = key[x]
    BY <1>10, <2>1, <2>2, <2>3
  <2> QED
    BY <2>1, <2>4, <1>10
<1>16. OneOfEach(s, key, rank, t)
  BY <1>12, <1>14, <1>15 DEF OneOfEach
<1> QED
  BY <1>11, <1>13, <1>16

-----------------------------------------------------------------------------
(* Finite sets.                                                            *)

LEMMA RemoveOne ==
    ASSUME NEW S, IsFiniteSet(S), NEW x \in S
    PROVE  /\ IsFiniteSet(S \ {x})
           /\ Cardinality(S) \in Nat /\ Cardinality(S \ {x}) \in Nat
           /\ Cardinality(S \ {x}) = Cardinality(S) - 1
<1>1. IsFiniteSet(S \ {x}) /\ Cardinality(S \ {x}) = Cardinality(S) - 1
  BY FS_RemoveElement
<1> QED
  BY <1>1, FS_CardinalityType

LEMMA AddOne ==
    ASSUME NEW S, IsFiniteSet(S), NEW x, x \notin S
    PROVE  /\ IsFiniteSet(S \cup {x})
           /\ Cardinality(S) \in Nat
           /\ Cardinality(S \cup {x}) = Cardinality(S) + 1
<1>1. IsFiniteSet(S \cup {x}) /\ Cardinality(S \cup {x}) = Cardinality(S) + 1
  BY FS_AddElement
<1> QED
  BY <1>1, FS_CardinalityType

-----------------------------------------------------------------------------
(* SumFunction.                                                            *)

SumStep(f, g, T) == IF T = {} THEN 0 ELSE f[CHOOSE x \in T : TRUE] + g[T \ {CHOOSE x \in T : TRUE}]

Sums(f, S, g) == g = [T \in SUBSET S |-> SumStep(f, g, T)]

LEMMA SumExists ==
    ASSUME NEW S, IsFiniteSet(S), NEW f \in [S -> Int]
    PROVE  \E g \in [SUBSET S -> Int] : Sums(f, S, g)
<1> DEFINE Good == {n \in Nat : \E g \in [SUBSET S -> Int] :
                       \A T \in SUBSET S : Cardinality(T) <= n => g[T] = SumStep(f, g, T)}
<1>0. \A T \in SUBSET S : IsFiniteSet(T) /\ Cardinality(T) \in Nat
  BY FS_Subset, FS_CardinalityType
<1>1. 0 \in Good
  <2> DEFINE g == [T \in SUBSET S |-> 0]
  <2>1. \A T \in SUBSET S : Cardinality(T) <= 0 => g[T] = SumStep(f, g, T)
    BY <1>0, FS_EmptySet DEF SumStep
  <2>2. g \in [SUBSET S -> Int]
    OBVIOUS
  <2> HIDE DEF g
  <2> QED
    BY <2>1, <2>2
<1>2. ASSUME NEW n \in Nat, n \in Good PROVE n + 1 \in Good
  <2>1. PICK g \in [SUBSET S -> Int] :
           \A T \in SUBSET S : Cardinality(T) <= n => g[T] = SumStep(f, g, T)
    BY <1>2
  <2> DEFINE h == [T \in SUBSET S |-> IF Cardinality(T) <= n THEN g[T] ELSE SumStep(f, g, T)]
  <2>2. ASSUME NEW T \in SUBSET S, T # {}
        PROVE  /\ (CHOOSE x \in T : TRUE) \in T
               /\ T \ {CHOOSE x \in T : TRUE} \in SUBSET S
               /\ Cardinality(T \ {CHOOSE x \in T : TRUE}) = Cardinality(T) - 1
    <3>1. (CHOOSE x \in T : TRUE) \in T
      BY <2>2
    <3> QED
      BY <3>1, <1>0, FS_RemoveElement
  <2>3. \A T \in SUBSET S : SumStep(f, g, T) \in Int
    BY <2>2 DEF SumStep
  <2>4. h \in [SUBSET S -> Int]
    BY <2>3
  <2>5. ASSUME NEW T \in SUBSET S, Cardinality(T) <= n + 1 PROVE h[T] = SumStep(f, h, T)
    <3>1. CASE T = {}
      <4>1. Cardinality(T) <= n
        BY <3>1, FS_EmptySet
      <4> QED
        BY <3>1, <4>1, <2>1 DEF SumStep
    <3>2. CASE T # {}
      <4> DEFINE U == T \ {CHOOSE x \in T : TRUE}
      <4>1. U \in SUBSET S /\ Cardinality(U) <= n
        BY <2>2, <2>5, <3>2, <1>0
      <4>2. h[U] = g[U]
        BY <4>1
      <4>3. SumStep(f, h, T) = SumStep(f, g, T)
        BY <4>2 DEF SumStep
      <4> QED
        BY <4>3, <2>1
    <3> QED
      BY <3>1, <3>2
  <2> HIDE DEF h
  <2> QED
    BY <2>4, <2>5
<1> HIDE DEF Good
<1>3. Cardinality(S) \in Good
  BY <1>1, <1>2, Inductive, FS_CardinalityType
<1>4. PICK g \in [SUBSET S -> Int] :
         \A T \in SUBSET S : Cardinality(T) <= Cardinality(S) => g[T] = SumStep(f, g, T)
  BY <1>3 DEF Good
<1>5. \A T \in SUBSET S : g[T] = SumStep(f, g, T)
  BY <1>4, FS_Subset
<1>6. Sums(f, S, g)
  BY <1>5 DEF Sums
<1> QED
  BY <1>6

Agree(e, f, S) == \A x \in S : e[x] = f[x]

LEMMA SumsAgree ==
    ASSUME NEW S, NEW e, NEW g, Sums(e, S, g),
           NEW U, NEW f, NEW h, Sums(f, U, h),
           NEW V \in SUBSET S, V \in SUBSET U, IsFiniteSet(V), Agree(e, f, V)
    PROVE  g[V] = h[V]
<1> DEFINE Good == {n \in Nat : \A T \in SUBSET V : Cardinality(T) = n => g[T] = h[T]}
<1>0. \A T \in SUBSET V : IsFiniteSet(T) /\ Cardinality(T) \in Nat
  BY FS_Subset, FS_CardinalityType
<1>1. \A T \in SUBSET V : g[T] = SumStep(e, g, T) /\ h[T] = SumStep(f, h, T)
  BY DEF Sums
<1>2. 0 \in Good
  BY <1>0, <1>1, FS_EmptySet DEF SumStep
<1>3. ASSUME NEW n \in Nat, n \in Good PROVE n + 1 \in Good
  <2> SUFFICES ASSUME NEW T \in SUBSET V, Cardinality(T) = n + 1 PROVE g[T] = h[T]
    OBVIOUS
  <2> DEFINE x == CHOOSE x \in T : TRUE
  <2>1. T # {}
    BY <1>0, FS_EmptySet
  <2>2. x \in T
    BY <2>1
  <2>3. T \ {x} \in SUBSET V /\ Cardinality(T \ {x}) = n
    <3>1. IsFiniteSet(T)
      BY <1>0
    <3> HIDE DEF x
    <3>2. Cardinality(T \ {x}) = Cardinality(T) - 1
      BY <3>1, <2>2, RemoveOne
    <3> QED
      BY <3>2
  <2>4. g[T \ {x}] = h[T \ {x}]
    BY <2>3, <1>3
  <2>5. e[x] = f[x]
    BY <2>2 DEF Agree
  <2> QED
    BY <2>1, <2>4, <2>5, <1>1 DEF SumStep
<1> HIDE DEF Good
<1>4. Cardinality(V) \in Good
  BY <1>0, <1>2, <1>3, Inductive
<1> QED
  BY <1>4 DEF Good

Adds(f, S, g) == \A T \in SUBSET S : \A x \in S \ T : g[T \cup {x}] = g[T] + f[x]

LEMMA SumsAdd ==
    ASSUME NEW S, IsFiniteSet(S), NEW f \in [S -> Int],
           NEW g \in [SUBSET S -> Int], Sums(f, S, g)
    PROVE  Adds(f, S, g)
<1> DEFINE Good == {n \in Nat : \A T \in SUBSET S : \A x \in S \ T :
                       Cardinality(T) = n => g[T \cup {x}] = g[T] + f[x]}
<1>0. \A T \in SUBSET S : IsFiniteSet(T) /\ Cardinality(T) \in Nat /\ g[T] \in Int
  BY FS_Subset, FS_CardinalityType
<1>1. \A T \in SUBSET S : g[T] = SumStep(f, g, T)
  BY DEF Sums
<1>2. g[{}] = 0
  BY <1>1 DEF SumStep
<1>3. 0 \in Good
  <2> SUFFICES ASSUME NEW x \in S PROVE g[{x}] = f[x]
    <3>1. \A T \in SUBSET S : Cardinality(T) = 0 => T = {}
      BY <1>0, FS_EmptySet
    <3>2. \A x \in S : g[{} \cup {x}] = g[{}] + f[x]
      BY <1>2
    <3> QED
      BY <3>1, <3>2
  <2>1. (CHOOSE y \in {x} : TRUE) = x /\ {x} \ {x} = {}
    OBVIOUS
  <2>2. g[{x}] = f[x] + g[{}]
    BY <2>1, <1>1 DEF SumStep
  <2> QED
    BY <2>2, <1>2
<1>4. ASSUME NEW n \in Nat, n \in Good PROVE n + 1 \in Good
  <2> SUFFICES ASSUME NEW T \in SUBSET S, NEW x \in S \ T, Cardinality(T) = n + 1
               PROVE  g[T \cup {x}] = g[T] + f[x]
    OBVIOUS
  <2> DEFINE y == CHOOSE y \in T \cup {x} : TRUE
  <2>1. y \in T \cup {x}
    OBVIOUS
  <2>2. g[T \cup {x}] = f[y] + g[(T \cup {x}) \ {y}]
    BY <1>1 DEF SumStep
  <2> HIDE DEF y
  <2>3. CASE y = x
    <3>1. (T \cup {x}) \ {y} = T
      BY <2>3
    <3>2. g[T] \in Int /\ f[x] \in Int
      BY <1>0
    <3>3. g[T \cup {x}] = f[x] + g[T]
      BY <2>2, <2>3, <3>1, Zenon
    <3> QED
      BY <3>2, <3>3
  <2>4. CASE y # x
    <3> DEFINE V == T \ {y}
    <3>1. y \in T /\ V \in SUBSET S /\ Cardinality(V) = n
      <4>1. y \in T /\ IsFiniteSet(T)
        BY <2>1, <2>4, <1>0
      <4>2. Cardinality(V) = Cardinality(T) - 1
        BY <4>1, RemoveOne
      <4> QED
        BY <4>1, <4>2
    <3>2. (T \cup {x}) \ {y} = V \cup {x} /\ x \in S \ V
      BY <2>4
    <3>3. g[V \cup {x}] = g[V] + f[x]
      BY <3>1, <3>2, <1>4
    <3>4. T = V \cup {y} /\ y \in S \ V
      BY <3>1
    <3>5. g[V \cup {y}] = g[V] + f[y]
      BY <3>1, <3>4, <1>4
    <3>6. g[V] \in Int /\ f[x] \in Int /\ f[y] \in Int
      BY <3>1, <1>0
    <3>7. g[T] = g[V] + f[y]
      BY <3>4, <3>5
    <3>8. g[T \cup {x}] = f[y] + (g[V] + f[x])
      BY <2>2, <3>2, <3>3
    <3> HIDE DEF V
    <3> QED
      BY <3>6, <3>7, <3>8
  <2> QED
    BY <2>3, <2>4
<1> HIDE DEF Good
<1>5. \A U \in SUBSET S : Cardinality(U) \in Good
  BY <1>0, <1>3, <1>4, Inductive
<1> QED
  BY <1>5 DEF Good, Adds

LEMMA SumOf ==
    ASSUME NEW S, IsFiniteSet(S), NEW f \in [S -> Int]
    PROVE  \E g \in [SUBSET S -> Int] : Sums(f, S, g) /\ SumFunction(f) = g[S]
<1> DEFINE iter == CHOOSE g : g = [T \in SUBSET S |-> SumStep(f, g, T)]
<1>1. PICK h \in [SUBSET S -> Int] : Sums(f, S, h)
  BY SumExists
<1>2. Sums(f, S, iter)
  BY <1>1 DEF Sums
<1>3. SumFunction(f) = iter[S]
  BY DEF SumFunction, SumFunctionOnSet, FoldFunctionOnSet, MapThenFoldSet, SumStep
<1> HIDE DEF iter
<1>4. iter[S] = h[S]
  <2>1. Agree(f, f, S) /\ S \in SUBSET S
    BY DEF Agree
  <2> QED
    BY <1>1, <1>2, <2>1, SumsAgree
<1> QED
  BY <1>1, <1>3, <1>4

LEMMA SumType ==
    ASSUME NEW S, IsFiniteSet(S), NEW f \in [S -> Int]
    PROVE  SumFunction(f) \in Int
<1>1. PICK g \in [SUBSET S -> Int] : SumFunction(f) = g[S]
  BY SumOf
<1> QED
  BY <1>1

LEMMA SumEmpty ==
    ASSUME NEW f \in [{} -> Int]
    PROVE  SumFunction(f) = 0
<1>1. PICK g \in [SUBSET {} -> Int] : Sums(f, {}, g) /\ SumFunction(f) = g[{}]
  BY SumOf, FS_EmptySet
<1>2. g[{}] = SumStep(f, g, {})
  BY <1>1 DEF Sums
<1> QED
  BY <1>1, <1>2 DEF SumStep

LEMMA SumAdd ==
    ASSUME NEW S, IsFiniteSet(S), NEW x, x \notin S, NEW f \in [S \cup {x} -> Int]
    PROVE  SumFunction(f) = SumFunction([y \in S |-> f[y]]) + f[x]
<1> DEFINE e == [y \in S |-> f[y]]
<1>0. e \in [S -> Int] /\ \A y \in S : e[y] = f[y]
  OBVIOUS
<1> HIDE DEF e
<1>1. IsFiniteSet(S \cup {x})
  BY AddOne
<1>2. PICK g \in [SUBSET S -> Int] : Sums(e, S, g) /\ SumFunction(e) = g[S]
  BY <1>0, SumOf
<1>3. PICK h \in [SUBSET (S \cup {x}) -> Int] :
         Sums(f, S \cup {x}, h) /\ SumFunction(f) = h[S \cup {x}]
  BY <1>1, SumOf
<1>4. x \in S \cup {x} /\ S \in SUBSET (S \cup {x}) /\ S \in SUBSET S
  OBVIOUS
<1>5. h[S \cup {x}] = h[S] + f[x]
  <2> DEFINE T == S \cup {x}
  <2>1. /\ IsFiniteSet(T) /\ f \in [T -> Int] /\ h \in [SUBSET T -> Int] /\ Sums(f, T, h)
        /\ S \in SUBSET T /\ x \in T
    BY <1>1, <1>3
  <2> HIDE DEF T
  <2>2. Adds(f, T, h)
    BY <2>1, SumsAdd
  <2> QED
    BY <2>1, <2>2 DEF Adds
<1>6. Agree(e, f, S)
  BY <1>0 DEF Agree
<1>7. g[S] = h[S]
  BY <1>2, <1>3, <1>4, <1>6, SumsAgree
<1> QED
  BY <1>2, <1>3, <1>5, <1>7 DEF e

LEMMA SumAppend ==
    ASSUME NEW s \in Seq(Int), NEW x \in Int
    PROVE  /\ SumFunction(s) \in Int
           /\ SumFunction(Append(s, x)) = SumFunction(s) + x
<1>1. Len(s) \in Nat /\ DOMAIN s = 1..Len(s) /\ s \in [1..Len(s) -> Int]
  BY LenProperties
<1>2. IsFiniteSet(1..Len(s))
  BY <1>1, FS_Interval
<1>3. /\ Append(s, x) \in Seq(Int)
      /\ Len(Append(s, x)) = Len(s) + 1
      /\ \A i \in 1..Len(s) : Append(s, x)[i] = s[i]
      /\ Append(s, x)[Len(s) + 1] = x
  BY AppendProperties
<1>4. Append(s, x) \in [1..(Len(s) + 1) -> Int]
  BY <1>3, LenProperties
<1>5. 1..(Len(s) + 1) = (1..Len(s)) \cup {Len(s) + 1} /\ Len(s) + 1 \notin 1..Len(s)
  BY <1>1
<1>6. SumFunction(Append(s, x)) = SumFunction(s) + Append(s, x)[Len(s) + 1]
  <2>1. Append(s, x) \in [(1..Len(s)) \cup {Len(s) + 1} -> Int]
    BY <1>4, <1>5
  <2>2. \A i \in 1..Len(s) : s[i] = Append(s, x)[i]
    BY <1>3
  <2> DEFINE S == 1..Len(s)
             n == Len(s) + 1
             t == Append(s, x)
  <2>3. IsFiniteSet(S) /\ n \notin S /\ t \in [S \cup {n} -> Int] /\ s = [i \in S |-> t[i]]
    BY <1>1, <1>2, <1>5, <2>1, <2>2
  <2> HIDE DEF S, n, t
  <2>4. SumFunction(t) = SumFunction([i \in S |-> t[i]]) + t[n]
    BY <2>3, SumAdd
  <2>5. SumFunction(t) = SumFunction(s) + t[n]
    BY <2>3, <2>4
  <2> QED
    BY <2>5 DEF n, t
<1> QED
  BY <1>1, <1>2, <1>3, <1>6, SumType

-----------------------------------------------------------------------------
(* FlattenSeq.                                                             *)

FlattenStep(s, g, n) == IF n = 1 THEN s[n] ELSE g[n - 1] \o s[n]

Flattens(s, g) == g = [n \in 1..Len(s) |-> FlattenStep(s, g, n)]

LEMMA FlattenExists ==
    ASSUME NEW E, NEW s \in Seq(Seq(E))
    PROVE  \E g \in [1..Len(s) -> Seq(E)] : Flattens(s, g)
<1> DEFINE Good == {n \in Nat : \E g \in [1..Len(s) -> Seq(E)] :
                       \A m \in 1..Len(s) : m <= n => g[m] = FlattenStep(s, g, m)}
<1>0. Len(s) \in Nat /\ s \in [1..Len(s) -> Seq(E)]
  BY LenProperties
<1>1. 0 \in Good
  BY <1>0
<1>2. ASSUME NEW n \in Nat, n \in Good PROVE n + 1 \in Good
  <2>1. PICK g \in [1..Len(s) -> Seq(E)] :
           \A m \in 1..Len(s) : m <= n => g[m] = FlattenStep(s, g, m)
    BY <1>2
  <2>2. \A m \in 1..Len(s) : FlattenStep(s, g, m) \in Seq(E)
    <3> SUFFICES ASSUME NEW m \in 1..Len(s) PROVE FlattenStep(s, g, m) \in Seq(E)
      OBVIOUS
    <3>1. s[m] \in Seq(E) /\ (m # 1 => g[m - 1] \in Seq(E))
      <4>1. m # 1 => m - 1 \in 1..Len(s)
        BY <1>0
      <4>2. s[m] \in Seq(E)
        BY <1>0
      <4> QED
        BY <4>1, <4>2
    <3>2. CASE m = 1
      BY <3>1, <3>2 DEF FlattenStep
    <3>3. CASE m # 1
      <4>1. g[m - 1] \o s[m] \in Seq(E)
        BY <3>1, <3>3, ConcatProperties
      <4> QED
        BY <3>3, <4>1 DEF FlattenStep
    <3> QED
      BY <3>2, <3>3
  <2> DEFINE h == [m \in 1..Len(s) |-> IF m <= n THEN g[m] ELSE FlattenStep(s, g, m)]
  <2>3. h \in [1..Len(s) -> Seq(E)]
    BY <2>2
  <2>4. ASSUME NEW m \in 1..Len(s), m <= n + 1 PROVE h[m] = FlattenStep(s, h, m)
    <3>1. m # 1 => m - 1 \in 1..Len(s) /\ m - 1 <= n /\ h[m - 1] = g[m - 1]
      BY <2>4, <1>0
    <3>2. FlattenStep(s, h, m) = FlattenStep(s, g, m)
      BY <3>1 DEF FlattenStep
    <3> QED
      BY <3>2, <2>1
  <2> HIDE DEF h
  <2> QED
    BY <2>3, <2>4
<1> HIDE DEF Good
<1>3. Len(s) \in Good
  BY <1>0, <1>1, <1>2, Inductive
<1>4. PICK g \in [1..Len(s) -> Seq(E)] :
         \A m \in 1..Len(s) : m <= Len(s) => g[m] = FlattenStep(s, g, m)
  BY <1>3 DEF Good
<1>5. \A m \in 1..Len(s) : g[m] = FlattenStep(s, g, m)
  BY <1>4, <1>0
<1> QED
  BY <1>5 DEF Flattens

(* The elements of t are those of the first n sequences of s, in their order: *)
(* the i-th is the o[i]-th of the b[i]-th.                                    *)
Places(s, n, t, b, o) ==
    /\ b \in [1..Len(t) -> 1..n] /\ o \in [1..Len(t) -> Nat]
    /\ \A i \in 1..Len(t) : o[i] \in 1..Len(s[b[i]]) /\ t[i] = s[b[i]][o[i]]
    /\ \A k \in 1..n : \A m \in 1..Len(s[k]) : \E i \in 1..Len(t) : b[i] = k /\ o[i] = m
    /\ \A i, j \in 1..Len(t) : i < j => \/ b[i] < b[j]
                                        \/ b[i] = b[j] /\ o[i] < o[j]

Placed(s, n, t) == \E b, o : Places(s, n, t, b, o)

LEMMA PlacedOne ==
    ASSUME NEW E, NEW s \in Seq(Seq(E)), Len(s) >= 1
    PROVE  Placed(s, 1, s[1])
<1>1. Len(s) \in Nat /\ s[1] \in Seq(E) /\ Len(s[1]) \in Nat
  BY LenProperties
<1> DEFINE b == [i \in 1..Len(s[1]) |-> 1]
           o == [i \in 1..Len(s[1]) |-> i]
<1>2. Places(s, 1, s[1], b, o)
  BY <1>1 DEF Places
<1> QED
  BY <1>2 DEF Placed

LEMMA PlacedMore ==
    ASSUME NEW E, NEW s \in Seq(Seq(E)), NEW n \in Nat \ {0}, n + 1 <= Len(s),
           NEW t \in Seq(E), Placed(s, n, t)
    PROVE  Placed(s, n + 1, t \o s[n + 1])
<1>1. Len(s) \in Nat /\ s[n + 1] \in Seq(E) /\ Len(s[n + 1]) \in Nat /\ Len(t) \in Nat
  BY LenProperties
<1> DEFINE l == Len(t)
           r == s[n + 1]
           u == t \o r
<1>2. /\ u \in Seq(E) /\ Len(u) = l + Len(r)
      /\ \A i \in 1..(l + Len(r)) : u[i] = IF i <= l THEN t[i] ELSE r[i - l]
  BY <1>1, ConcatProperties
<1>3. PICK b, o : Places(s, n, t, b, o)
  BY DEF Placed
<1> DEFINE c == [i \in 1..(l + Len(r)) |-> IF i <= l THEN b[i] ELSE n + 1]
           p == [i \in 1..(l + Len(r)) |-> IF i <= l THEN o[i] ELSE i - l]
<1>4. l \in Nat /\ Len(r) \in Nat
  BY <1>1
<1>5. /\ \A i \in 1..l : c[i] = b[i] /\ p[i] = o[i] /\ i \in 1..(l + Len(r)) /\ u[i] = t[i]
      /\ \A i \in 1..(l + Len(r)) :
            i \notin 1..l => /\ c[i] = n + 1 /\ p[i] = i - l /\ i > l
                             /\ i - l \in 1..Len(r) /\ u[i] = r[i - l]
  <2>1. ASSUME NEW i \in 1..l
        PROVE  c[i] = b[i] /\ p[i] = o[i] /\ i \in 1..(l + Len(r)) /\ u[i] = t[i]
    <3>1. i <= l /\ i \in 1..(l + Len(r))
      BY <1>4
    <3> QED
      BY <3>1, <1>2
  <2>2. ASSUME NEW i \in 1..(l + Len(r)), i \notin 1..l
        PROVE  /\ c[i] = n + 1 /\ p[i] = i - l /\ i > l
               /\ i - l \in 1..Len(r) /\ u[i] = r[i - l]
    <3>1. ~(i <= l) /\ i > l /\ i - l \in 1..Len(r)
      BY <2>2, <1>4
    <3> QED
      BY <3>1, <1>2
  <2> QED
    BY <2>1, <2>2
<1>6. c \in [1..(l + Len(r)) -> 1..(n + 1)] /\ p \in [1..(l + Len(r)) -> Nat]
  BY <1>3, <1>4 DEF Places
<1> HIDE DEF c, p, u, l
<1>7. \A i \in 1..(l + Len(r)) : p[i] \in 1..Len(s[c[i]]) /\ u[i] = s[c[i]][p[i]]
  <2> SUFFICES ASSUME NEW i \in 1..(l + Len(r))
               PROVE  p[i] \in 1..Len(s[c[i]]) /\ u[i] = s[c[i]][p[i]]
    OBVIOUS
  <2>1. CASE i \in 1..l
    BY <2>1, <1>3, <1>5 DEF Places, l
  <2>2. CASE i \notin 1..l
    BY <2>2, <1>5
  <2> QED
    BY <2>1, <2>2
<1>8. ASSUME NEW k \in 1..(n + 1), NEW m \in 1..Len(s[k])
      PROVE  \E i \in 1..(l + Len(r)) : c[i] = k /\ p[i] = m
  <2>1. CASE k \in 1..n
    <3>1. PICK i \in 1..l : b[i] = k /\ o[i] = m
      BY <2>1, <1>3 DEF Places, l
    <3> QED
      BY <3>1, <1>5
  <2>2. CASE k = n + 1
    <3>1. PICK i \in 1..(l + Len(r)) : i \notin 1..l /\ i - l = m
      <4>1. l + m \in 1..(l + Len(r)) /\ l + m \notin 1..l /\ (l + m) - l = m
        BY <2>2, <1>4
      <4> QED
        BY <4>1
    <3>2. c[i] = n + 1 /\ p[i] = i - l
      BY <3>1, <1>5
    <3> QED
      BY <2>2, <3>1, <3>2
  <2> QED
    BY <2>1, <2>2
<1>9. ASSUME NEW i \in 1..(l + Len(r)), NEW j \in 1..(l + Len(r)), i < j
      PROVE  c[i] < c[j] \/ (c[i] = c[j] /\ p[i] < p[j])
  <2>1. CASE j \in 1..l
    <3>1. i \in 1..l
      BY <2>1, <1>9, <1>4
    <3>2. b[i] < b[j] \/ (b[i] = b[j] /\ o[i] < o[j])
      BY <2>1, <3>1, <1>3, <1>9 DEF Places, l
    <3>3. c[i] = b[i] /\ p[i] = o[i] /\ c[j] = b[j] /\ p[j] = o[j]
      BY <2>1, <3>1, <1>5
    <3> QED
      BY <3>2, <3>3
  <2>2. CASE j \notin 1..l /\ i \in 1..l
    <3>1. b[i] \in 1..n
      BY <2>2, <1>3 DEF Places, l
    <3>2. c[i] = b[i]
      BY <2>2, <1>5
    <3>3. c[j] = n + 1
      BY <2>2, <1>5
    <3>4. c[i] < c[j]
      BY <3>1, <3>2, <3>3
    <3> QED
      BY <3>4
  <2>3. CASE j \notin 1..l /\ i \notin 1..l
    BY <2>3, <1>4, <1>5, <1>9
  <2> QED
    BY <2>1, <2>2, <2>3
<1>10. Places(s, n + 1, u, c, p)
  BY <1>2, <1>6, <1>7, <1>8, <1>9 DEF Places
<1> QED
  BY <1>10 DEF Placed, u

LEMMA FlattenElements ==
    ASSUME NEW E, NEW s \in Seq(Seq(E))
    PROVE  FlattenSeq(s) \in Seq(E) /\ Placed(s, Len(s), FlattenSeq(s))
<1>0. Len(s) \in Nat /\ s \in [1..Len(s) -> Seq(E)]
  BY LenProperties
<1>1. CASE Len(s) = 0
  <2>1. s = <<>> /\ FlattenSeq(s) = <<>>
    BY <1>1, EmptySeq DEF FlattenSeq
  <2> DEFINE none == [i \in 1..0 |-> 0]
             t == <<>>
  <2>2. t \in Seq(E) /\ Len(t) = 0 /\ 1..Len(t) = {} /\ 1..0 = {}
    OBVIOUS
  <2> HIDE DEF t
  <2>3. none \in [1..Len(t) -> 1..0] /\ none \in [1..Len(t) -> Nat]
    BY <2>2
  <2> HIDE DEF none
  <2>4. Places(s, 0, t, none, none)
    BY <2>2, <2>3 DEF Places
  <2>5. FlattenSeq(s) = t
    BY <2>1 DEF t
  <2>6. Placed(s, 0, t)
    BY <2>4 DEF Placed
  <2> QED
    BY <1>1, <2>2, <2>5, <2>6
<1>2. CASE Len(s) # 0
  <2> DEFINE f == CHOOSE g : g = [n \in 1..Len(s) |-> FlattenStep(s, g, n)]
  <2>1. FlattenSeq(s) = f[Len(s)]
    BY <1>2 DEF FlattenSeq, FlattenStep
  <2>2. Flattens(s, f)
    <3>1. \E g : g = [n \in 1..Len(s) |-> FlattenStep(s, g, n)]
      BY FlattenExists DEF Flattens
    <3>2. f = [n \in 1..Len(s) |-> FlattenStep(s, f, n)]
      BY <3>1, Zenon
    <3> QED
      BY <3>2, Zenon DEF Flattens
  <2> HIDE DEF f
  <2>3. \A n \in 1..Len(s) : f[n] = FlattenStep(s, f, n)
    BY <2>2 DEF Flattens
  <2> DEFINE Good == {n \in Nat : n + 1 <= Len(s) =>
                         f[n + 1] \in Seq(E) /\ Placed(s, n + 1, f[n + 1])}
  <2>4. 0 \in Good
    <3>1. f[1] = s[1] /\ s[1] \in Seq(E)
      BY <1>0, <1>2, <2>3 DEF FlattenStep
    <3>2. Placed(s, 1, s[1])
      BY <1>0, <1>2, PlacedOne
    <3> QED
      BY <3>1, <3>2
  <2>5. ASSUME NEW n \in Nat, n \in Good PROVE n + 1 \in Good
    <3> SUFFICES ASSUME n + 2 <= Len(s)
                 PROVE  f[n + 2] \in Seq(E) /\ Placed(s, n + 2, f[n + 2])
      OBVIOUS
    <3>1. f[n + 1] \in Seq(E) /\ Placed(s, n + 1, f[n + 1]) /\ s[n + 2] \in Seq(E)
      BY <2>5, <1>0
    <3> DEFINE m == n + 1
    <3>3. m \in Nat \ {0} /\ m + 1 <= Len(s) /\ m + 1 = n + 2
      BY <1>0
    <3>2. f[n + 2] = f[n + 1] \o s[n + 2]
      <4> DEFINE k == n + 2
      <4>1. k \in 1..Len(s) /\ k # 1 /\ k - 1 = n + 1
        BY <1>0
      <4> HIDE DEF k
      <4>2. f[k] = f[k - 1] \o s[k]
        BY <4>1, <2>3 DEF FlattenStep
      <4> QED
        BY <4>1, <4>2 DEF k
    <3> HIDE DEF m
    <3>4. Placed(s, m + 1, f[n + 1] \o s[m + 1])
      <4>1. f[n + 1] \in Seq(E) /\ Placed(s, m, f[n + 1])
        BY <3>1 DEF m
      <4> QED
        BY <3>3, <4>1, PlacedMore
    <3> QED
      BY <3>1, <3>2, <3>3, <3>4, ConcatProperties
  <2> HIDE DEF Good
  <2>6. Len(s) - 1 \in Good
    <3>1. Nat \subseteq Good
      BY <2>4, <2>5, Inductive
    <3> QED
      BY <1>0, <1>2, <3>1
  <2> QED
    BY <1>0, <2>1, <2>6 DEF Good
<1> QED
  BY <1>1, <1>2

-----------------------------------------------------------------------------
(* The elements of sequences.                                              *)

LEMMA SeqElements ==
    ASSUME NEW E, NEW s \in Seq(E)
    PROVE  /\ ToSet(s) \subseteq E /\ IsFiniteSet(ToSet(s))
           /\ Cardinality(ToSet(s)) \in Nat /\ Cardinality(ToSet(s)) <= Len(s)
           /\ s \in Seq(ToSet(s))
           /\ \A i \in 1..Len(s) : s[i] \in ToSet(s)
           /\ \A x \in ToSet(s) : \E i \in 1..Len(s) : s[i] = x
<1>1. Len(s) \in Nat /\ DOMAIN s = 1..Len(s) /\ s \in [1..Len(s) -> E]
  BY LenProperties
<1> DEFINE T == ToSet(s)
           N == Len(s)
<1>2. T = {s[i] : i \in 1..N}
  BY <1>1 DEF ToSet
<1>3. /\ \A i \in 1..N : s[i] \in T
      /\ \A x \in T : \E i \in 1..N : s[i] = x
      /\ T \subseteq E
  BY <1>1, <1>2
<1> HIDE DEF T
<1>4. s \in [1..N -> T] /\ s \in Seq(T)
  <2>1. s = [i \in 1..N |-> s[i]]
    BY <1>1
  <2>2. [i \in 1..N |-> s[i]] \in Seq(T)
    BY <1>1, <1>3
  <2> QED
    BY <2>1, <2>2, <1>3
<1>5. s \in Surjection(1..N, T)
  BY <1>3, <1>4 DEF Surjection
<1>6. IsFiniteSet(1..N) /\ Cardinality(1..N) = N
  BY <1>1, FS_Interval
<1> HIDE DEF N
<1>7. IsFiniteSet(T) /\ Cardinality(T) <= Cardinality(1..N)
  BY <1>5, <1>6, FS_Surjection
<1>8. Cardinality(T) \in Nat
  BY <1>7, FS_CardinalityType
<1> QED
  BY <1>3, <1>4, <1>6, <1>7, <1>8 DEF T, N

LEMMA PrefixElements ==
    ASSUME NEW E, NEW s \in Seq(E), NEW m \in Nat, m <= Len(s)
    PROVE  /\ SubSeq(s, 1, m) \in Seq(E) /\ Len(SubSeq(s, 1, m)) = m
           /\ \A i \in 1..m : SubSeq(s, 1, m)[i] = s[i]
           /\ ToSet(SubSeq(s, 1, m)) = {s[i] : i \in 1..m}
           /\ ToSet(SubSeq(s, 1, m)) \subseteq ToSet(s)
<1> DEFINE t == SubSeq(s, 1, m)
<1>1. Len(s) \in Nat /\ DOMAIN s = 1..Len(s) /\ s \in [1..Len(s) -> E]
  BY LenProperties
<1>2. \A i \in 1..m : s[i] \in E /\ i \in DOMAIN s
  BY <1>1
<1>3. /\ t \in Seq(E) /\ Len(t) = IF 1 <= m THEN m - 1 + 1 ELSE 0
      /\ \A i \in 1..(m - 1 + 1) : t[i] = s[1 + i - 1]
  BY <1>2, SubSeqProperties
<1> HIDE DEF t
<1>4. Len(t) = m
  BY <1>3
<1>5. \A i \in 1..m : t[i] = s[i]
  BY <1>3
<1>6. DOMAIN t = 1..m
  BY <1>3, <1>4
<1>7. ToSet(t) = {s[i] : i \in 1..m}
  <2>1. ToSet(t) = {t[i] : i \in 1..m}
    BY <1>6 DEF ToSet
  <2> QED
    BY <2>1, <1>5
<1>8. ToSet(t) \subseteq ToSet(s)
  BY <1>2, <1>7 DEF ToSet
<1> QED
  BY <1>3, <1>4, <1>5, <1>7, <1>8 DEF t

LEMMA AppendElements ==
    ASSUME NEW E, NEW s \in Seq(E), NEW x \in E
    PROVE  /\ Append(s, x) \in Seq(E) /\ Len(Append(s, x)) = Len(s) + 1
           /\ ToSet(Append(s, x)) = ToSet(s) \cup {x}
           /\ Front(Append(s, x)) = s /\ Last(Append(s, x)) = x
<1> DEFINE t == Append(s, x)
<1>1. Len(s) \in Nat /\ DOMAIN s = 1..Len(s) /\ s \in [1..Len(s) -> E]
  BY LenProperties
<1>2. /\ t \in Seq(E) /\ Len(t) = Len(s) + 1 /\ t[Len(s) + 1] = x
      /\ \A i \in 1..Len(s) : t[i] = s[i]
  BY AppendProperties
<1> HIDE DEF t
<1>3. DOMAIN t = 1..(Len(s) + 1)
  BY <1>2, LenProperties
<1>4. ToSet(t) = ToSet(s) \cup {x}
  <2>1. ToSet(t) = {t[i] : i \in 1..(Len(s) + 1)}
    BY <1>3 DEF ToSet
  <2>2. 1..(Len(s) + 1) = (1..Len(s)) \cup {Len(s) + 1}
    BY <1>1
  <2>3. ToSet(s) = {s[i] : i \in 1..Len(s)}
    BY <1>1 DEF ToSet
  <2>4. \A y \in ToSet(t) : y \in ToSet(s) \/ y = x
    BY <2>1, <2>2, <2>3, <1>2
  <2>5. \A y \in ToSet(s) : y \in ToSet(t)
    BY <2>1, <2>2, <2>3, <1>2
  <2>6. x \in ToSet(t)
    BY <2>1, <2>2, <1>2
  <2> QED
    BY <2>4, <2>5, <2>6
<1>5. Front(t) = s
  <2>1. Len(s) <= Len(t) /\ Front(t) = SubSeq(t, 1, Len(s))
    BY <1>1, <1>2 DEF Front
  <2> DEFINE f == SubSeq(t, 1, Len(s))
  <2>2. f \in Seq(E) /\ Len(f) = Len(s) /\ \A i \in 1..Len(s) : f[i] = t[i]
    BY <2>1, <1>1, <1>2, PrefixElements
  <2>3. f = s
    <3> HIDE DEF f
    <3>1. \A i \in 1..Len(f) : f[i] = s[i]
      BY <2>2, <1>2
    <3> QED
      BY <2>2, <3>1, SeqEqual
  <2> QED
    BY <2>1, <2>3
<1>6. Last(t) = x
  BY <1>2 DEF Last
<1> QED
  BY <1>2, <1>4, <1>5, <1>6 DEF t

LEMMA JoinedElements ==
    ASSUME NEW E, NEW s \in Seq(Seq(E))
    PROVE  /\ FlattenSeq(s) \in Seq(E)
           /\ \A x \in ToSet(FlattenSeq(s)) : \E k \in 1..Len(s) : x \in ToSet(s[k])
           /\ \A k \in 1..Len(s) : \A x \in ToSet(s[k]) : x \in ToSet(FlattenSeq(s))
<1> DEFINE t == FlattenSeq(s)
           N == Len(s)
<1>1. t \in Seq(E) /\ Placed(s, N, t)
  BY FlattenElements
<1>2. \A k \in 1..N : s[k] \in Seq(E)
  BY LenProperties
<1> HIDE DEF t, N
<1>3. PICK b, o : Places(s, N, t, b, o)
  BY <1>1 DEF Placed
<1>4. /\ \A i \in 1..Len(t) : b[i] \in 1..N
      /\ \A i \in 1..Len(t) : o[i] \in 1..Len(s[b[i]]) /\ t[i] = s[b[i]][o[i]]
      /\ \A k \in 1..N : \A m \in 1..Len(s[k]) : \E i \in 1..Len(t) : b[i] = k /\ o[i] = m
  BY <1>3 DEF Places
<1>5. /\ \A i \in 1..Len(t) : t[i] \in ToSet(t)
      /\ \A x \in ToSet(t) : \E i \in 1..Len(t) : t[i] = x
  BY <1>1, SeqElements
<1>6. \A k \in 1..N : /\ \A m \in 1..Len(s[k]) : s[k][m] \in ToSet(s[k])
                      /\ \A x \in ToSet(s[k]) : \E m \in 1..Len(s[k]) : s[k][m] = x
  BY <1>2, SeqElements
<1>7. ASSUME NEW x \in ToSet(t) PROVE \E k \in 1..N : x \in ToSet(s[k])
  <2>1. PICK i \in 1..Len(t) : t[i] = x
    BY <1>5
  <2>2. b[i] \in 1..N /\ o[i] \in 1..Len(s[b[i]]) /\ x = s[b[i]][o[i]]
    BY <2>1, <1>4
  <2> QED
    BY <2>2, <1>6
<1>8. ASSUME NEW k \in 1..N, NEW x \in ToSet(s[k]) PROVE x \in ToSet(t)
  <2>1. PICK m \in 1..Len(s[k]) : s[k][m] = x
    BY <1>6
  <2>2. PICK i \in 1..Len(t) : b[i] = k /\ o[i] = m
    BY <1>4
  <2> QED
    BY <2>1, <2>2, <1>4, <1>5
<1> QED
  BY <1>1, <1>7, <1>8 DEF t, N

-----------------------------------------------------------------------------
(* Outcomes and predictions.                                               *)

(* Live keeps no outcome at odds of 1 or less. *)
Picks == {Predict(o, m) : o \in {o \in Outcomes : o.log > 0},
                          m \in Markets \cup {Unfiltered, Unknown}}

LEMMA PickFields ==
    /\ \A p \in Picks : /\ p.log \in Int /\ p.quality \in Int
                        /\ p.probability \in Int /\ p.day \in Int
    /\ \A p, q \in Picks : p.log < q.log =>
          20 * p.log + 3 * p.quality < 20 * q.log + 3 * q.quality
<1>1. ASSUME NEW p \in Picks
      PROVE  \E o \in Outcomes : /\ p.log = o.log /\ p.quality = o.quality /\ o.log > 0
                                 /\ p.probability = o.probability /\ p.day = o.day
  BY DEF Picks, Predict
<1> QED
  BY <1>1, OutcomesAssumption, OddsAssumption

LEMMA LiveElements ==
    ASSUME NEW page \in Seq(Outcomes), NEW market
    PROVE  /\ Live(page, market) \in Seq(Outcomes)
           /\ ToSet(Live(page, market)) =
                 {o \in ToSet(page) : /\ o.marketActive /\ o.active /\ o.log > 0
                                      /\ market \in {Unfiltered, o.market}}
<1> DEFINE Ok(o) == o.marketActive /\ o.active /\ o.log > 0 /\ market \in {Unfiltered, o.market}
           K == {n \in DOMAIN page : Ok(page[n])}
<1>1. K \in SUBSET DOMAIN page
  OBVIOUS
<1>2. Live(page, market) = Kept(page, K)
  BY DEF Live
<1>3. {page[i] : i \in K} = {o \in ToSet(page) : Ok(o)}
  <2> HIDE DEF Ok
  <2> QED
    BY DEF ToSet
<1> HIDE DEF K
<1>4. Kept(page, K) \in Seq(Outcomes) /\ ToSet(Kept(page, K)) = {page[i] : i \in K}
  BY <1>1, KeptElements, KeptRange
<1> QED
  BY <1>2, <1>3, <1>4

LEMMA PredictionsElements ==
    ASSUME NEW page \in Seq(Outcomes), NEW market \in Markets \cup {Unfiltered, Unknown}
    PROVE  /\ Predictions(page, market) \in Seq(Picks)
           /\ \A p \in ToSet(Predictions(page, market)) :
                 \E o \in ToSet(Live(page, market)) : p = Predict(o, market)
           /\ \A o \in ToSet(Live(page, market)) :
                 \E p \in ToSet(Predictions(page, market)) : p.event = o.event
<1> DEFINE live == Live(page, market)
           all == [n \in DOMAIN live |-> Predict(live[n], market)]
           K == {i \in DOMAIN all : \A j \in 1..(i - 1) : EventOutcome(all[j]) # EventOutcome(all[i])}
<1>1. live \in Seq(Outcomes) /\ \A n \in DOMAIN live : live[n].log > 0
  <2>1. live \in Seq(Outcomes) /\ \A o \in ToSet(live) : o.log > 0
    BY LiveElements
  <2> QED
    BY <2>1 DEF ToSet
<1>2. Predictions(page, market) = Kept(all, K)
  BY DEF Predictions, FirstOfKey
<1> HIDE DEF live
<1>3. Len(live) \in Nat /\ DOMAIN live = 1..Len(live) /\ \A n \in 1..Len(live) : live[n] \in Outcomes
  BY <1>1, LenProperties
<1>4. all \in Seq(Picks) /\ DOMAIN all = DOMAIN live
  <2>1. \A n \in 1..Len(live) : Predict(live[n], market) \in Picks
    BY <1>1, <1>3 DEF Picks
  <2> QED
    BY <1>3, <2>1
<1>5. \A n \in DOMAIN all : all[n] = Predict(live[n], market) /\ live[n] \in ToSet(live)
  BY DEF ToSet
<1> HIDE DEF all
<1> DEFINE key == [p \in Picks |-> EventOutcome(p)]
<1>6. \A n \in DOMAIN all : key[all[n]] = EventOutcome(all[n]) /\ all[n] \in Picks
  BY <1>4
<1>7. \A i \in DOMAIN all : \A j \in 1..(i - 1) : j \in DOMAIN all
  BY <1>3, <1>4
<1>8. K = Firsts(all, key)
  <2> HIDE DEF key
  <2> QED
    BY <1>6, <1>7 DEF Firsts
<1> HIDE DEF K
<1>9. K \in SUBSET DOMAIN all
  BY <1>8 DEF Firsts
<1>10. Kept(all, K) \in Seq(Picks) /\ ToSet(Kept(all, K)) = {all[i] : i \in K}
  BY <1>4, <1>9, KeptElements, KeptRange
<1>11. ASSUME NEW o \in ToSet(live)
       PROVE  \E p \in ToSet(Kept(all, K)) : p.event = o.event
  <2>1. PICK i \in DOMAIN all : o = live[i]
    BY <1>4 DEF ToSet
  <2>2. \E k \in K : key[all[k]] = key[all[i]]
    <3> HIDE DEF key
    <3>1. \A j \in DOMAIN all : \E k \in Firsts(all, key) : key[all[k]] = key[all[j]] /\ k <= j
      BY <1>4, FirstsCover
    <3> QED
      BY <3>1, <1>8
  <2>3. PICK k \in K : EventOutcome(all[k]) = EventOutcome(all[i])
    BY <2>2, <1>6, <1>9
  <2>4. all[k].event = all[i].event
    BY <2>3 DEF EventOutcome
  <2>5. all[i].event = o.event
    BY <2>1, <1>5 DEF Predict
  <2> QED
    BY <2>4, <2>5, <1>10
<1> QED
  BY <1>2, <1>5, <1>9, <1>10, <1>11 DEF live


LEMMA LoopElements ==
    ASSUME NEW page \in Seq(Outcomes)
    PROVE  /\ LoopPredictions(page) \in Seq(Picks)
           /\ \A p \in ToSet(LoopPredictions(page)) : \E m \in Markets :
                 p \in ToSet(Predictions(page, m))
           /\ \A m \in Markets : \A p \in ToSet(Predictions(page, m)) :
                 p \in ToSet(LoopPredictions(page))
<1>0. MarketOrder \in Seq(Markets) /\ ToSet(MarketOrder) = Markets
  BY GeneratorsAssumption
<1> DEFINE N == Len(MarketOrder)
           s == [n \in DOMAIN MarketOrder |-> Predictions(page, MarketOrder[n])]
           t == LoopPredictions(page)
<1>1. N \in Nat /\ DOMAIN MarketOrder = 1..N /\ \A n \in 1..N : MarketOrder[n] \in Markets
  BY <1>0, LenProperties
<1>2. \A m \in Markets : \E n \in 1..N : MarketOrder[n] = m
  BY <1>0, SeqElements
<1>3. \A m \in Markets : Predictions(page, m) \in Seq(Picks)
  BY PredictionsElements
<1>4. s \in Seq(Seq(Picks)) /\ Len(s) = N /\ \A n \in 1..N : s[n] = Predictions(page, MarketOrder[n])
  BY <1>1, <1>3
<1>5. t = FlattenSeq(s)
  BY DEF LoopPredictions
<1> HIDE DEF s, N, t
<1>6. /\ t \in Seq(Picks)
      /\ \A p \in ToSet(t) : \E k \in 1..N : p \in ToSet(s[k])
      /\ \A k \in 1..N : \A p \in ToSet(s[k]) : p \in ToSet(t)
  BY <1>4, <1>5, JoinedElements
<1>7. \A p \in ToSet(t) : \E m \in Markets : p \in ToSet(Predictions(page, m))
  BY <1>1, <1>4, <1>6
<1>8. ASSUME NEW m \in Markets, NEW p \in ToSet(Predictions(page, m)) PROVE p \in ToSet(t)
  <2>1. PICK n \in 1..N : MarketOrder[n] = m
    BY <1>2
  <2>2. s[n] = Predictions(page, m)
    BY <2>1, <1>4
  <2>3. p \in ToSet(s[n])
    BY <2>2, <1>8
  <2> QED
    BY <2>3, <1>6
<1> QED
  BY <1>6, <1>7, <1>8 DEF t

LEMMA RisingElements ==
    ASSUME NEW E \in SUBSET Picks, NEW s \in Seq(E)
    PROVE  /\ Rising(s) \in Seq(E)
           /\ ToSet(Rising(s)) = {p \in ToSet(s) : p.log > 0}
<1> DEFINE K == {n \in DOMAIN s : s[n].log > 0}
<1>1. K \in SUBSET DOMAIN s /\ Rising(s) = Kept(s, K)
  BY DEF Rising
<1>2. {s[i] : i \in K} = {p \in ToSet(s) : p.log > 0}
  BY DEF ToSet
<1> HIDE DEF K
<1>3. Kept(s, K) \in Seq(E) /\ ToSet(Kept(s, K)) = {s[i] : i \in K}
  BY <1>1, KeptElements, KeptRange
<1> QED
  BY <1>1, <1>2, <1>3

(* The candidates are the predictions at odds above 1, one of each market of *)
(* an event.                                                                 *)
Chosen(predictions, list) ==
    /\ ToSet(list) \subseteq ToSet(predictions)
    /\ \A p \in ToSet(list) : p.log > 0
    /\ \A m, n \in DOMAIN list : m # n => EventMarket(list[m]) # EventMarket(list[n])
    /\ \A p \in ToSet(predictions) : p.log > 0 =>
          \E q \in ToSet(list) : EventMarket(q) = EventMarket(p) /\ q.quality >= p.quality
    /\ \A m, n \in DOMAIN list : m < n => list[m].quality >= list[n].quality

LEMMA PrepareElements ==
    ASSUME NEW s \in Seq(Picks)
    PROVE  Prepare(s) \in Seq(Picks) /\ Chosen(s, Prepare(s))
<1> DEFINE r == Rising(s)
           key == [p \in Picks |-> EventMarket(p)]
           rank == [p \in Picks |-> p.quality]
           u == BestOfKey(r, EventMarket, Likelier)
           W == {p \in (DOMAIN u) \X (DOMAIN u) : Likelier(u[p[1]], u[p[2]])}
           t == StableSort(u, Likelier)
<1>0. \A p \in Picks : key[p] = EventMarket(p) /\ rank[p] = p.quality /\ p.quality \in Int
  BY PickFields
<1>1. r \in Seq(Picks) /\ ToSet(r) = {p \in ToSet(s) : p.log > 0}
  BY RisingElements
<1>2. rank \in [Picks -> Int]
  BY PickFields
<1> HIDE DEF key, rank
<1> USE DEF Likelier
<1>3. BestList(r, key, rank, u)
  <2> HIDE DEF r
  <2>1. Len(r) \in Nat /\ DOMAIN r = 1..Len(r) /\ \A i \in DOMAIN r : r[i] \in Picks
    BY <1>1, LenProperties
  <2>2. \A i \in DOMAIN r : key[r[i]] = EventMarket(r[i]) /\ rank[r[i]] = r[i].quality
    BY <2>1, <1>0
  <2>3. \A i \in DOMAIN r : \A j \in 1..(i - 1) : j \in DOMAIN r
    BY <2>1
  <2> DEFINE K == {i \in DOMAIN r : \A j \in 1..(i - 1) : EventMarket(r[j]) # EventMarket(r[i])}
             keys == Kept(r, K)
             choice(k) == CHOOSE b \in DOMAIN r :
                           /\ EventMarket(r[b]) = k
                           /\ \A i \in DOMAIN r : EventMarket(r[i]) = k =>
                                 /\ ~(r[i].quality > r[b].quality)
                                 /\ i < b => r[b].quality > r[i].quality
  <2>4. K = Firsts(r, key)
    BY <2>2, <2>3 DEF Firsts
  <2>5. u = [n \in DOMAIN keys |-> r[choice(EventMarket(keys[n]))]]
    BY DEF BestOfKey, FirstOfKey
  <2>6. K \in SUBSET DOMAIN r
    OBVIOUS
  <2> HIDE DEF K
  <2>7. keys \in Seq(Picks) /\ ToSet(keys) = {r[i] : i \in K}
    BY <1>1, <2>6, KeptElements, KeptRange
  <2> HIDE DEF keys
  <2>8. \A n \in DOMAIN keys : \E i \in DOMAIN r : keys[n] = r[i]
    <3>1. \A n \in DOMAIN keys : keys[n] \in ToSet(keys)
      BY DEF ToSet
    <3> QED
      BY <3>1, <2>6, <2>7
  <2>9. ASSUME NEW n \in DOMAIN keys
        PROVE  \E b \in Bests(r, key, rank, key[keys[n]]) : u[n] = r[b]
    <3>1. PICK i \in DOMAIN r : keys[n] = r[i]
      BY <2>8
    <3> DEFINE k == EventMarket(keys[n])
    <3>2. k = key[keys[n]] /\ k = key[r[i]]
      BY <3>1, <2>2
    <3>3. Bests(r, key, rank, key[r[i]]) # {}
      BY <1>1, <1>2, BestExists
    <3> HIDE DEF k
    <3>4. \A b \in DOMAIN r :
             b \in Bests(r, key, rank, k) <=>
                /\ EventMarket(r[b]) = k
                /\ \A j \in DOMAIN r : EventMarket(r[j]) = k =>
                      /\ ~(r[j].quality > r[b].quality)
                      /\ j < b => r[b].quality > r[j].quality
      BY <2>2 DEF Bests
    <3>5. Bests(r, key, rank, k) \in SUBSET DOMAIN r
      BY DEF Bests
    <3>6. choice(k) \in Bests(r, key, rank, k)
      BY <3>2, <3>3, <3>4, <3>5
    <3>7. u[n] = r[choice(k)]
      BY <2>5 DEF k
    <3> QED
      BY <3>2, <3>6, <3>7
  <2>10. u = [n \in DOMAIN keys |-> u[n]]
    BY <2>5
  <2> QED
    BY <2>4, <2>9, <2>10 DEF BestList, keys
<1> HIDE DEF u, r
<1>4. u \in Seq(Picks) /\ ToSet(u) \subseteq ToSet(r) /\ OneOfEach(r, key, rank, u)
  BY <1>1, <1>2, <1>3, BestElements
<1>5. Len(u) \in Nat /\ DOMAIN u = 1..Len(u) /\ \A i \in DOMAIN u : u[i] \in Picks
  BY <1>4, LenProperties
<1>6. WeakOrder(W, DOMAIN u)
  <2>1. \A i \in DOMAIN u : u[i].quality \in Int
    BY <1>5, <1>0
  <2>2. \A i, j \in DOMAIN u : <<i, j>> \in W <=> u[i].quality > u[j].quality
    OBVIOUS
  <2> HIDE DEF W
  <2> QED
    BY <2>1, <2>2 DEF WeakOrder
<1>7. t = Arranged(u, Stable(u, W))
  <2>1. {p \in (DOMAIN u) \X (DOMAIN u) :
           \/ Likelier(u[p[1]], u[p[2]])
           \/ ~Likelier(u[p[2]], u[p[1]]) /\ p[1] < p[2]} = Stable(u, W)
    BY DEF Stable
  <2> QED
    BY <2>1 DEF StableSort, Arranged
<1>8. \A i, j \in DOMAIN u : <<i, j>> \notin W => u[j].quality >= u[i].quality
  BY <1>5, <1>0
<1> HIDE DEF W, t
<1>9. t \in Seq(Picks) /\ DOMAIN t = DOMAIN u /\ ToSet(t) = ToSet(u) /\ Reordered(u, W, t)
  BY <1>4, <1>6, <1>7, SortedElements
<1>10. PICK at \in [DOMAIN u -> DOMAIN u] :
         /\ \A n \in DOMAIN u : t[n] = u[at[n]]
         /\ \A m, n \in DOMAIN u : m < n => <<at[n], at[m]>> \notin W
         /\ \A m, n \in DOMAIN u : m # n => at[m] # at[n]
  BY <1>9 DEF Reordered
<1>11. ASSUME NEW m \in DOMAIN t, NEW n \in DOMAIN t, m # n
       PROVE  EventMarket(t[m]) # EventMarket(t[n])
  <2>1. at[m] \in DOMAIN u /\ at[n] \in DOMAIN u /\ at[m] # at[n]
    BY <1>9, <1>10, <1>11
  <2>2. key[u[at[m]]] # key[u[at[n]]]
    BY <2>1, <1>4 DEF OneOfEach
  <2> QED
    BY <2>1, <2>2, <1>0, <1>5, <1>9, <1>10
<1>12. ASSUME NEW m \in DOMAIN t, NEW n \in DOMAIN t, m < n
       PROVE  t[m].quality >= t[n].quality
  <2>1. at[m] \in DOMAIN u /\ at[n] \in DOMAIN u /\ <<at[n], at[m]>> \notin W
    BY <1>9, <1>10, <1>12
  <2>2. t[m] = u[at[m]] /\ t[n] = u[at[n]]
    BY <1>9, <1>10
  <2>3. u[at[m]].quality >= u[at[n]].quality
    BY <2>1, <1>8
  <2> QED
    BY <2>2, <2>3
<1>13. ASSUME NEW p \in ToSet(s), p.log > 0
       PROVE  \E q \in ToSet(t) : EventMarket(q) = EventMarket(p) /\ q.quality >= p.quality
  <2>1. p \in ToSet(r) /\ p \in Picks
    BY <1>1, <1>13, SeqElements
  <2>2. PICK n \in DOMAIN u : key[u[n]] = key[p] /\ rank[u[n]] >= rank[p]
    BY <2>1, <1>4 DEF OneOfEach
  <2>3. u[n] \in ToSet(t)
    BY <1>9 DEF ToSet
  <2> QED
    BY <2>1, <2>2, <2>3, <1>0, <1>5
<1>14. t = Prepare(s)
  BY DEF Prepare, t, u, r
<1>15. Chosen(s, t)
  BY <1>1, <1>4, <1>9, <1>11, <1>12, <1>13 DEF Chosen
<1> QED
  BY <1>9, <1>14, <1>15


-----------------------------------------------------------------------------
(* The sum of a weight over a finite set.                                  *)

Weight(S, w) == SumFunction([x \in S |-> w[x]])

LEMMA WeightType ==
    ASSUME NEW S, IsFiniteSet(S), NEW w, \A x \in S : w[x] \in Int
    PROVE  Weight(S, w) \in Int
<1> DEFINE f == [x \in S |-> w[x]]
<1>1. f \in [S -> Int]
  OBVIOUS
<1> HIDE DEF f
<1>2. SumFunction(f) \in Int
  BY <1>1, SumType
<1> QED
  BY <1>2 DEF Weight, f

LEMMA WeightEmpty ==
    ASSUME NEW w
    PROVE  Weight({}, w) = 0
<1> DEFINE f == [x \in {} |-> w[x]]
<1>1. f \in [{} -> Int]
  OBVIOUS
<1> HIDE DEF f
<1>2. SumFunction(f) = 0
  BY <1>1, SumEmpty
<1> QED
  BY <1>2 DEF Weight, f

LEMMA WeightAdd ==
    ASSUME NEW S, IsFiniteSet(S), NEW x, x \notin S,
           NEW w, \A y \in S : w[y] \in Int, w[x] \in Int
    PROVE  Weight(S \cup {x}, w) = Weight(S, w) + w[x]
<1> DEFINE T == S \cup {x}
           f == [y \in T |-> w[y]]
           g == [y \in S |-> f[y]]
<1>1. f \in [T -> Int] /\ f[x] = w[x]
  OBVIOUS
<1>2. g = [y \in S |-> w[y]]
  OBVIOUS
<1>3. SumFunction(f) = SumFunction(g) + f[x]
  <2> HIDE DEF f
  <2> QED
    BY <1>1, SumAdd
<1>4. Weight(T, w) = SumFunction(f)
  BY DEF Weight
<1>5. Weight(S, w) = SumFunction(g)
  BY <1>2 DEF Weight
<1> HIDE DEF f, g
<1> QED
  BY <1>1, <1>3, <1>4, <1>5

LEMMA WeightRemove ==
    ASSUME NEW S, IsFiniteSet(S), NEW x \in S, NEW w, \A y \in S : w[y] \in Int
    PROVE  /\ Weight(S \ {x}, w) \in Int /\ w[x] \in Int
           /\ Weight(S, w) = Weight(S \ {x}, w) + w[x]
<1> DEFINE T == S \ {x}
<1>1. /\ IsFiniteSet(T) /\ x \notin T /\ T \cup {x} = S /\ w[x] \in Int
      /\ \A y \in T : w[y] \in Int
  BY FS_RemoveElement
<1> HIDE DEF T
<1>2. Weight(T \cup {x}, w) = Weight(T, w) + w[x]
  BY <1>1, WeightAdd
<1>3. Weight(T, w) \in Int
  BY <1>1, WeightType
<1> QED
  BY <1>1, <1>2, <1>3 DEF T

(* f takes every element of S to another of T that weighs at least as much. *)
Heavier(S, v, f, w) ==
    /\ \A x \in S : v[x] \in Int /\ w[f[x]] \in Int /\ v[x] <= w[f[x]]
    /\ \A x, y \in S : f[x] = f[y] => x = y

LEMMA HeavierWeighs ==
    ASSUME NEW S, IsFiniteSet(S), NEW v, NEW f, NEW w, Heavier(S, v, f, w)
    PROVE  /\ IsFiniteSet({f[x] : x \in S})
           /\ Cardinality({f[x] : x \in S}) = Cardinality(S)
           /\ Weight(S, v) <= Weight({f[x] : x \in S}, w)
<1> DEFINE Image(T) == {f[x] : x \in T}
           Good == {n \in Nat : \A T \in SUBSET S : Cardinality(T) = n =>
                       /\ IsFiniteSet(Image(T)) /\ Cardinality(Image(T)) = n
                       /\ Weight(T, v) <= Weight(Image(T), w)}
<1>0. \A T \in SUBSET S : IsFiniteSet(T) /\ Cardinality(T) \in Nat
  BY FS_Subset, FS_CardinalityType
<1>1. 0 \in Good
  <2> SUFFICES ASSUME NEW T \in SUBSET S, Cardinality(T) = 0
               PROVE  /\ IsFiniteSet(Image(T)) /\ Cardinality(Image(T)) = 0
                      /\ Weight(T, v) <= Weight(Image(T), w)
    OBVIOUS
  <2>1. T = {}
    BY <1>0, FS_EmptySet
  <2>2. Image(T) = {}
    BY <2>1
  <2> HIDE DEF Image
  <2>3. Weight(T, v) = 0 /\ Weight(Image(T), w) = 0
    BY <2>1, <2>2, WeightEmpty
  <2> QED
    BY <2>2, <2>3, FS_EmptySet
<1>2. ASSUME NEW n \in Nat, n \in Good PROVE n + 1 \in Good
  <2> SUFFICES ASSUME NEW T \in SUBSET S, Cardinality(T) = n + 1
               PROVE  /\ IsFiniteSet(Image(T)) /\ Cardinality(Image(T)) = n + 1
                      /\ Weight(T, v) <= Weight(Image(T), w)
    OBVIOUS
  <2>1. PICK x \in T : TRUE
    BY <1>0, FS_EmptySet
  <2> DEFINE U == T \ {x}
  <2>2. U \in SUBSET S /\ Cardinality(U) = n /\ IsFiniteSet(U)
    <3>1. IsFiniteSet(T)
      BY <1>0
    <3>2. Cardinality(T \ {x}) = Cardinality(T) - 1
      BY <3>1, RemoveOne
    <3> QED
      BY <3>2, <1>0
  <2>3. /\ IsFiniteSet(Image(U)) /\ Cardinality(Image(U)) = n
        /\ Weight(U, v) <= Weight(Image(U), w)
    BY <2>2, <1>2
  <2>4. Image(T) = Image(U) \cup {f[x]} /\ f[x] \notin Image(U)
    BY <2>1 DEF Heavier
  <2>5. /\ v[x] \in Int /\ w[f[x]] \in Int /\ v[x] <= w[f[x]]
        /\ \A y \in T : v[y] \in Int
        /\ \A z \in Image(U) : w[z] \in Int
    BY <2>1 DEF Heavier
  <2>6. Weight(T, v) = Weight(U, v) + v[x] /\ Weight(U, v) \in Int
    <3>1. IsFiniteSet(T)
      BY <1>0
    <3> QED
      BY <2>1, <2>5, <3>1, WeightRemove
  <2> DEFINE I == Image(U)
  <2>7. /\ IsFiniteSet(I \cup {f[x]}) /\ Cardinality(I \cup {f[x]}) = n + 1
        /\ Weight(I \cup {f[x]}, w) = Weight(I, w) + w[f[x]]
        /\ Weight(I, w) \in Int
    <3>1. f[x] \notin I /\ IsFiniteSet(I) /\ Cardinality(I) = n /\ \A z \in I : w[z] \in Int
      BY <2>3, <2>4, <2>5
    <3> HIDE DEF I
    <3>2. IsFiniteSet(I \cup {f[x]}) /\ Cardinality(I \cup {f[x]}) = n + 1
      BY <3>1, AddOne
    <3>3. Weight(I \cup {f[x]}, w) = Weight(I, w) + w[f[x]]
      BY <2>5, <3>1, WeightAdd
    <3>4. Weight(I, w) \in Int
      BY <3>1, WeightType
    <3> QED
      BY <3>2, <3>3, <3>4
  <2> HIDE DEF Image, U
  <2>8. Weight(T, v) <= Weight(Image(T), w)
    BY <2>3, <2>4, <2>5, <2>6, <2>7
  <2> QED
    BY <2>4, <2>7, <2>8
<1>3. Cardinality(S) \in Good
  <2> HIDE DEF Good
  <2> QED
    BY <1>0, <1>1, <1>2, Inductive
<1> QED
  BY <1>3

-----------------------------------------------------------------------------
(* Selections: sets of candidates of different events.                     *)

LogOf == [p \in Picks |-> p.log]
ScoreOf == [p \in Picks |-> 20 * p.log + 3 * p.quality]

LEMMA WeightsOfPicks ==
    /\ \A p \in Picks : LogOf[p] = p.log /\ p.log \in Int
    /\ \A p \in Picks : ScoreOf[p] = 20 * p.log + 3 * p.quality /\ ScoreOf[p] \in Int
    /\ \A p, q \in Picks : ScoreOf[p] <= ScoreOf[q] => LogOf[p] <= LogOf[q]
<1>1. /\ \A p \in Picks : LogOf[p] = p.log /\ p.log \in Int /\ p.quality \in Int
      /\ \A p \in Picks : ScoreOf[p] = 20 * p.log + 3 * p.quality
  BY PickFields DEF LogOf, ScoreOf
<1>2. ASSUME NEW p \in Picks, NEW q \in Picks, ScoreOf[p] <= ScoreOf[q]
      PROVE  LogOf[p] <= LogOf[q]
  <2>1. ~(q.log < p.log)
    <3>1. q.log < p.log => 20 * q.log + 3 * q.quality < 20 * p.log + 3 * p.quality
      BY PickFields
    <3> QED
      BY <3>1, <1>1, <1>2
  <2> QED
    BY <2>1, <1>1
<1> QED
  BY <1>1, <1>2

Selection(X, C) ==
    /\ X \subseteq C
    /\ \A x, y \in X : x.event = y.event => x = y

(* Each element of X weighs at most what one of g of its event does, or     *)
(* everything in g.                                                         *)
Outweighs(g, X, w) ==
    \A x \in X : \/ \E h \in g : h.event = x.event /\ w[x] <= w[h]
                 \/ \A h \in g : w[x] <= w[h]

LEMMA Balance ==
    ASSUME NEW C, NEW w, \A c \in C : w[c] \in Int,
           NEW g, Selection(g, C), IsFiniteSet(g),
           NEW X, Selection(X, C), IsFiniteSet(X),
           Cardinality(g) = Cardinality(X), Outweighs(g, X, w)
    PROVE  Weight(X, w) <= Weight(g, w)
<1> DEFINE Good == {n \in Nat : \A Y \in SUBSET X, h \in SUBSET g :
                       Cardinality(Y) = n /\ Cardinality(h) = n /\ Outweighs(h, Y, w)
                          => Weight(Y, w) <= Weight(h, w)}
<1>0. \A Y \in SUBSET X, h \in SUBSET g :
         /\ IsFiniteSet(Y) /\ IsFiniteSet(h) /\ Cardinality(Y) \in Nat /\ Cardinality(h) \in Nat
         /\ \A x \in Y : w[x] \in Int
         /\ \A x \in h : w[x] \in Int
  BY FS_Subset, FS_CardinalityType DEF Selection
<1>1. 0 \in Good
  <2> SUFFICES ASSUME NEW Y \in SUBSET X, NEW h \in SUBSET g,
                      Cardinality(Y) = 0, Cardinality(h) = 0
               PROVE  Weight(Y, w) <= Weight(h, w)
    OBVIOUS
  <2>1. Y = {} /\ h = {}
    BY <1>0, FS_EmptySet
  <2>2. Weight(Y, w) = 0 /\ Weight(h, w) = 0
    BY <2>1, WeightEmpty
  <2> QED
    BY <2>2
<1>2. ASSUME NEW n \in Nat, n \in Good PROVE n + 1 \in Good
  <2> SUFFICES ASSUME NEW Y \in SUBSET X, NEW h \in SUBSET g, Cardinality(Y) = n + 1,
                      Cardinality(h) = n + 1, Outweighs(h, Y, w)
               PROVE  Weight(Y, w) <= Weight(h, w)
    OBVIOUS
  <2>0. Y # {} /\ h # {}
    BY <1>0, FS_EmptySet
  (* Without one element of each, the rest is in balance. *)
  <2>1. ASSUME NEW x \in Y, NEW k \in h, w[x] <= w[k], Outweighs(h \ {k}, Y \ {x}, w)
        PROVE  Weight(Y, w) <= Weight(h, w)
    <3> DEFINE Z == Y \ {x}
               l == h \ {k}
    <3>1. IsFiniteSet(Y) /\ IsFiniteSet(h)
      BY <1>0
    <3>2. Cardinality(Z) = n /\ Cardinality(l) = n
      <4>1. Cardinality(Z) = Cardinality(Y) - 1
        BY <3>1, RemoveOne
      <4>2. Cardinality(l) = Cardinality(h) - 1
        BY <3>1, RemoveOne
      <4> QED
        BY <4>1, <4>2
    <3>3. Z \in SUBSET X /\ l \in SUBSET g
      OBVIOUS
    <3>4. Weight(Z, w) <= Weight(l, w)
      BY <3>2, <3>3, <2>1, <1>2
    <3>5. Weight(Y, w) = Weight(Z, w) + w[x] /\ Weight(Z, w) \in Int /\ w[x] \in Int
      BY <3>1, <1>0, WeightRemove
    <3>6. Weight(h, w) = Weight(l, w) + w[k] /\ Weight(l, w) \in Int /\ w[k] \in Int
      BY <3>1, <1>0, WeightRemove
    <3> HIDE DEF Z, l
    <3> QED
      BY <3>4, <3>5, <3>6, <2>1
  <2>2. CASE \E x \in Y, k \in h : k.event = x.event /\ w[x] <= w[k]
    <3>1. PICK x \in Y, k \in h : k.event = x.event /\ w[x] <= w[k]
      BY <2>2
    <3>2. \A y \in Y \ {x} : y.event # k.event
      BY <3>1 DEF Selection
    <3>3. Outweighs(h \ {k}, Y \ {x}, w)
      BY <3>2 DEF Outweighs
    <3> QED
      BY <3>1, <3>3, <2>1
  <2>3. CASE ~\E x \in Y, k \in h : k.event = x.event /\ w[x] <= w[k]
    <3>1. \A x \in Y, k \in h : w[x] <= w[k]
      BY <2>3 DEF Outweighs
    <3>2. PICK x \in Y, k \in h : TRUE
      BY <2>0
    <3>3. Outweighs(h \ {k}, Y \ {x}, w)
      BY <3>1 DEF Outweighs
    <3> QED
      BY <3>1, <3>2, <3>3, <2>1
  <2> QED
    BY <2>2, <2>3
<1> HIDE DEF Good
<1>3. Cardinality(X) \in Good
  BY <1>0, <1>1, <1>2, Inductive
<1> QED
  BY <1>3 DEF Good

(* A selection of n candidates of the highest weight of all such. *)
Heaviest(g, n, C, w) ==
    /\ Selection(g, C) /\ IsFiniteSet(g) /\ Cardinality(g) = n
    /\ \A X \in SUBSET C : Selection(X, C) /\ IsFiniteSet(X) /\ Cardinality(X) = n
          => Weight(X, w) <= Weight(g, w)

LEMMA HeaviestOutweighs ==
    ASSUME NEW C, NEW w, \A c \in C : w[c] \in Int, NEW n, NEW g, Heaviest(g, n, C, w),
           NEW X, Selection(X, C)
    PROVE  Outweighs(g, X, w)
<1> SUFFICES ASSUME NEW x \in X, ~\E h \in g : h.event = x.event /\ w[x] <= w[h],
                    NEW h \in g, ~(w[x] <= w[h])
             PROVE  FALSE
  BY DEF Outweighs
<1>0. x \in C /\ h \in C /\ g \subseteq C /\ IsFiniteSet(g) /\ w[x] \in Int /\ w[h] \in Int
  BY DEF Heaviest, Selection
<1> DEFINE y == IF \E k \in g : k.event = x.event THEN CHOOSE k \in g : k.event = x.event ELSE h
<1>1. /\ y \in g /\ w[y] < w[x]
      /\ \A k \in g : k.event = x.event => k = y
  <2>1. CASE \E k \in g : k.event = x.event
    <3>1. y \in g /\ y.event = x.event
      BY <2>1
    <3>2. \A k \in g : k.event = x.event => k = y
      BY <3>1 DEF Heaviest, Selection
    <3>3. w[y] \in Int
      BY <3>1, <1>0
    <3> HIDE DEF y
    <3> QED
      BY <3>1, <3>2, <3>3, <1>0
  <2>2. CASE ~\E k \in g : k.event = x.event
    BY <2>2, <1>0
  <2> QED
    BY <2>1, <2>2
<1> HIDE DEF y
<1> DEFINE r == g \ {y}
           e == r \cup {x}
<1>2. x \notin r
  BY <1>1
<1>3. IsFiniteSet(r) /\ Cardinality(r) = Cardinality(g) - 1 /\ Cardinality(g) \in Nat
  BY <1>0, <1>1, RemoveOne
<1>4. \A k \in r : w[k] \in Int
  BY <1>0
<1>5. Weight(g, w) = Weight(r, w) + w[y] /\ Weight(r, w) \in Int /\ w[y] \in Int
  <2>1. \A k \in g : w[k] \in Int
    BY <1>0
  <2> QED
    BY <2>1, <1>0, <1>1, WeightRemove
<1>6. Selection(e, C) /\ e \in SUBSET C
  BY <1>0, <1>1 DEF Heaviest, Selection
<1> HIDE DEF r
<1>7. IsFiniteSet(e) /\ Cardinality(e) = Cardinality(g)
  BY <1>2, <1>3, AddOne
<1>8. Weight(e, w) = Weight(r, w) + w[x]
  BY <1>0, <1>2, <1>3, <1>4, WeightAdd
<1> HIDE DEF e
<1>9. Weight(e, w) <= Weight(g, w)
  BY <1>6, <1>7 DEF Heaviest
<1> QED
  BY <1>0, <1>1, <1>5, <1>8, <1>9

(* The selection of the highest score has the highest odds. *)
LEMMA HeaviestOdds ==
    ASSUME NEW C \in SUBSET Picks, NEW n, NEW g, Heaviest(g, n, C, ScoreOf)
    PROVE  Heaviest(g, n, C, LogOf)
<1>1. \A c \in C : ScoreOf[c] \in Int /\ LogOf[c] \in Int
  BY WeightsOfPicks
<1>2. \A p, q \in C : ScoreOf[p] <= ScoreOf[q] => LogOf[p] <= LogOf[q]
  BY WeightsOfPicks
<1>3. Selection(g, C) /\ IsFiniteSet(g) /\ Cardinality(g) = n
  BY DEF Heaviest
<1>4. ASSUME NEW X \in SUBSET C, Selection(X, C), IsFiniteSet(X), Cardinality(X) = n
      PROVE  Weight(X, LogOf) <= Weight(g, LogOf)
  <2>1. Outweighs(g, X, ScoreOf)
    BY <1>1, <1>4, HeaviestOutweighs
  <2>2. \A x \in X : x \in C
    OBVIOUS
  <2>3. \A h \in g : h \in C
    BY <1>3 DEF Selection
  <2>4. Outweighs(g, X, LogOf)
    BY <2>1, <2>2, <2>3, <1>2 DEF Outweighs
  <2> QED
    BY <2>4, <1>1, <1>3, <1>4, Balance
<1> QED
  BY <1>3, <1>4 DEF Heaviest

(* Of the larger selection, an element can be added to the smaller. *)
LEMMA Augments ==
    ASSUME NEW C, NEW g, Selection(g, C), IsFiniteSet(g),
           NEW X, Selection(X, C), IsFiniteSet(X), Cardinality(g) < Cardinality(X)
    PROVE  \E x \in X : \A h \in g : h.event # x.event
<1> SUFFICES ASSUME \A x \in X : \E h \in g : h.event = x.event PROVE FALSE
  OBVIOUS
<1> DEFINE f == [x \in X |-> CHOOSE h \in g : h.event = x.event]
<1>1. \A x \in X : f[x] \in g /\ f[x].event = x.event
  OBVIOUS
<1>2. f \in [X -> g]
  BY <1>1
<1> HIDE DEF f
<1>3. \A x, y \in X : f[x] = f[y] => x = y
  BY <1>1 DEF Selection
<1>4. f \in Injection(X, g)
  BY <1>2, <1>3 DEF Injection, IsInjective
<1>5. Cardinality(X) <= Cardinality(g)
  BY <1>4, FS_Injection
<1> QED
  BY <1>5, FS_CardinalityType

(* The larger selections weigh at most what the heaviest does with one more. *)
LEMMA HeaviestGrows ==
    ASSUME NEW C, NEW w, \A c \in C : w[c] \in Int, NEW n \in Nat, NEW g, Heaviest(g, n, C, w),
           NEW X, Selection(X, C), IsFiniteSet(X), Cardinality(X) = n + 1
    PROVE  \E x \in X : /\ \A h \in g : h.event # x.event
                        /\ Weight(X, w) <= Weight(g, w) + w[x]
<1>1. PICK x \in X : \A h \in g : h.event # x.event
  BY Augments DEF Heaviest
<1>2. Weight(X, w) = Weight(X \ {x}, w) + w[x] /\ Weight(X \ {x}, w) \in Int /\ w[x] \in Int
  <2>1. \A y \in X : w[y] \in Int
    BY DEF Selection
  <2> QED
    BY <2>1, WeightRemove
<1> DEFINE Y == X \ {x}
<1>3. IsFiniteSet(Y) /\ Cardinality(Y) = Cardinality(X) - 1
  BY RemoveOne
<1>4. Selection(Y, C) /\ Y \in SUBSET C
  BY DEF Selection
<1> HIDE DEF Y
<1>5. Weight(Y, w) <= Weight(g, w)
  BY <1>3, <1>4 DEF Heaviest
<1>6. Weight(g, w) \in Int
  <2>1. \A y \in g : w[y] \in Int
    BY DEF Heaviest, Selection
  <2> QED
    BY <2>1, WeightType DEF Heaviest
<1> QED
  BY <1>1, <1>2, <1>5, <1>6 DEF Y

(* A finite set of at least n elements has a subset of n. *)
LEMMA SubsetOfSize ==
    ASSUME NEW S, IsFiniteSet(S), NEW n \in Nat, n <= Cardinality(S)
    PROVE  \E T \in SUBSET S : IsFiniteSet(T) /\ Cardinality(T) = n
<1> DEFINE N == Cardinality(S)
           Good == {k \in Nat : k <= N => \E T \in SUBSET S : IsFiniteSet(T) /\ Cardinality(T) = N - k}
<1>0. N \in Nat
  BY FS_CardinalityType
<1>1. 0 \in Good
  BY <1>0
<1>2. ASSUME NEW k \in Nat, k \in Good PROVE k + 1 \in Good
  <2> SUFFICES ASSUME k + 1 <= N
               PROVE  \E T \in SUBSET S : IsFiniteSet(T) /\ Cardinality(T) = N - (k + 1)
    OBVIOUS
  <2> HIDE DEF N
  <2>1. PICK T \in SUBSET S : IsFiniteSet(T) /\ Cardinality(T) = N - k
    BY <1>0, <1>2
  <2>2. T # {}
    <3>1. Cardinality(T) # 0
      BY <2>1, <1>0
    <3> QED
      BY <3>1, FS_EmptySet
  <2>3. PICK x \in T : TRUE
    BY <2>2
  <2>4. IsFiniteSet(T \ {x}) /\ Cardinality(T \ {x}) = Cardinality(T) - 1
    BY <2>1, <2>3, RemoveOne
  <2> QED
    BY <2>1, <2>4, <1>0
<1> HIDE DEF Good
<1>3. N - n \in Good
  <2>1. N - n \in Nat
    BY <1>0
  <2> HIDE DEF N
  <2> QED
    BY <2>1, <1>1, <1>2, Inductive
<1>4. N - (N - n) = n /\ N - n <= N
  BY <1>0
<1> HIDE DEF N
<1>5. PICK T \in SUBSET S : IsFiniteSet(T) /\ Cardinality(T) = N - (N - n)
  BY <1>3, <1>4 DEF Good
<1> QED
  BY <1>4, <1>5

-----------------------------------------------------------------------------
(* The states of the optimizer.                                            *)

LEMMA SumsOfPicks ==
    ASSUME NEW s \in Seq(Picks)
    PROVE  /\ Log(s) \in Int /\ Quality(s) \in Int /\ Score(s) \in Int
           /\ \A c \in Picks : /\ Log(Append(s, c)) = Log(s) + c.log
                               /\ Score(Append(s, c)) = Score(s) + ScoreOf[c]
<1>1. Len(s) \in Nat /\ DOMAIN s = 1..Len(s) /\ \A n \in 1..Len(s) : s[n] \in Picks
  BY LenProperties
<1>2. \A p \in Picks : p.log \in Int /\ p.quality \in Int
  BY PickFields
<1> DEFINE logs == [n \in DOMAIN s |-> s[n].log]
           qualities == [n \in DOMAIN s |-> s[n].quality]
<1>3. logs \in Seq(Int) /\ qualities \in Seq(Int)
  BY <1>1, <1>2
<1>4. Log(s) = SumFunction(logs) /\ Quality(s) = SumFunction(qualities)
  BY DEF Log, Quality
<1>5. ASSUME NEW c \in Picks
      PROVE  /\ Log(Append(s, c)) = SumFunction(Append(logs, c.log))
             /\ Quality(Append(s, c)) = SumFunction(Append(qualities, c.quality))
  <2> DEFINE t == Append(s, c)
  <2>1. /\ t \in Seq(Picks) /\ Len(t) = Len(s) + 1
        /\ \A n \in 1..Len(s) : t[n] = s[n]
        /\ t[Len(s) + 1] = c
    BY AppendProperties
  <2> HIDE DEF t
  <2>2. DOMAIN t = 1..(Len(s) + 1)
    BY <2>1, LenProperties
  <2>3. [n \in DOMAIN t |-> t[n].log] = Append(logs, c.log)
    BY <2>1, <2>2, <1>1
  <2>4. [n \in DOMAIN t |-> t[n].quality] = Append(qualities, c.quality)
    BY <2>1, <2>2, <1>1
  <2> QED
    BY <2>3, <2>4 DEF Log, Quality, t
<1> HIDE DEF logs, qualities
<1>6. /\ SumFunction(logs) \in Int /\ SumFunction(qualities) \in Int
      /\ \A c \in Picks : /\ SumFunction(Append(logs, c.log)) = SumFunction(logs) + c.log
                          /\ SumFunction(Append(qualities, c.quality)) = SumFunction(qualities) + c.quality
  <2>1. ASSUME NEW x \in Int
        PROVE  /\ SumFunction(logs) \in Int
               /\ SumFunction(Append(logs, x)) = SumFunction(logs) + x
    BY <1>3, SumAppend
  <2>2. ASSUME NEW x \in Int
        PROVE  /\ SumFunction(qualities) \in Int
               /\ SumFunction(Append(qualities, x)) = SumFunction(qualities) + x
    BY <1>3, SumAppend
  <2>3. 0 \in Int
    OBVIOUS
  <2> QED
    BY <2>1, <2>2, <2>3, <1>2
<1>7. \A c \in Picks : ScoreOf[c] = 20 * c.log + 3 * c.quality
  BY DEF ScoreOf
<1>8. Score(s) = 20 * Log(s) + 3 * Quality(s)
  BY DEF Score
<1>9. \A c \in Picks : Score(Append(s, c)) = 20 * Log(Append(s, c)) + 3 * Quality(Append(s, c))
  BY DEF Score
<1>10. Log(s) \in Int /\ Quality(s) \in Int /\ Score(s) \in Int
  BY <1>4, <1>6, <1>8
<1>11. ASSUME NEW c \in Picks
       PROVE  /\ Log(Append(s, c)) = Log(s) + c.log
              /\ Score(Append(s, c)) = Score(s) + ScoreOf[c]
  <2>1. Log(Append(s, c)) = Log(s) + c.log /\ Quality(Append(s, c)) = Quality(s) + c.quality
    <3>1. /\ Log(Append(s, c)) = SumFunction(Append(logs, c.log))
          /\ Quality(Append(s, c)) = SumFunction(Append(qualities, c.quality))
      BY <1>5
    <3>2. /\ SumFunction(Append(logs, c.log)) = SumFunction(logs) + c.log
          /\ SumFunction(Append(qualities, c.quality)) = SumFunction(qualities) + c.quality
      BY <1>6
    <3> QED
      BY <3>1, <3>2, <1>4
  <2>2. c.log \in Int /\ c.quality \in Int
    BY <1>2
  <2>3. /\ ScoreOf[c] = 20 * c.log + 3 * c.quality
        /\ Score(Append(s, c)) = 20 * Log(Append(s, c)) + 3 * Quality(Append(s, c))
    BY <1>7, <1>9
  <2> DEFINE a == Log(s)
             b == Quality(s)
             x == c.log
             y == c.quality
  <2>4. a \in Int /\ b \in Int /\ x \in Int /\ y \in Int
    BY <2>2, <1>10
  <2>5. /\ Score(s) = 20 * a + 3 * b /\ ScoreOf[c] = 20 * x + 3 * y
        /\ Score(Append(s, c)) = 20 * (a + x) + 3 * (b + y)
    BY <2>1, <2>3, <1>8
  <2> HIDE DEF a, b, x, y
  <2>6. 20 * (a + x) + 3 * (b + y) = (20 * a + 3 * b) + (20 * x + 3 * y)
    BY <2>4
  <2>7. Score(Append(s, c)) = Score(s) + ScoreOf[c]
    BY <2>5, <2>6
  <2> QED
    BY <2>1, <2>7
<1> QED
  BY <1>10, <1>11

LEMMA SumsOfNone == Log(<<>>) = 0 /\ Score(<<>>) = 0
<1>1. Log(<<>>) = 0
  <2> DEFINE f == [n \in DOMAIN <<>> |-> <<>>[n].log]
  <2>1. f \in [{} -> Int]
    OBVIOUS
  <2>2. Log(<<>>) = SumFunction(f)
    BY DEF Log
  <2> HIDE DEF f
  <2> QED
    BY <2>1, <2>2, SumEmpty
<1>2. Quality(<<>>) = 0
  <2> DEFINE f == [n \in DOMAIN <<>> |-> <<>>[n].quality]
  <2>1. f \in [{} -> Int]
    OBVIOUS
  <2>2. Quality(<<>>) = SumFunction(f)
    BY DEF Quality
  <2> HIDE DEF f
  <2> QED
    BY <2>1, <2>2, SumEmpty
<1> QED
  BY <1>1, <1>2 DEF Score

(* Selections of different events, in the order they were made. *)
Accumulator(s, C) ==
    /\ s \in Seq(C)
    /\ Selection(ToSet(s), C) /\ Cardinality(ToSet(s)) = Len(s)
    /\ Log(s) = Weight(ToSet(s), LogOf)
    /\ Score(s) = Weight(ToSet(s), ScoreOf)
    /\ Cardinality(Events(s)) = Len(s)

LEMMA NoElements == ToSet(<<>>) = {} /\ Events(<<>>) = {}
<1>1. ToSet(<<>>) = {}
  BY DEF ToSet
<1> QED
  BY <1>1 DEF Events

LEMMA EmptyAccumulator ==
    ASSUME NEW C
    PROVE  Accumulator(<<>>, C)
<1>1. Len(<<>>) = 0 /\ <<>> \in Seq(C)
  OBVIOUS
<1>2. Weight({}, LogOf) = 0 /\ Weight({}, ScoreOf) = 0
  BY WeightEmpty
<1>3. Cardinality({}) = 0
  BY FS_EmptySet
<1> QED
  BY <1>1, <1>2, <1>3, NoElements, SumsOfNone DEF Accumulator, Selection

LEMMA GrowingAccumulator ==
    ASSUME NEW C \in SUBSET Picks, NEW s, Accumulator(s, C), NEW c \in C, c.event \notin Events(s)
    PROVE  Accumulator(Append(s, c), C)
<1> DEFINE t == Append(s, c)
           S == ToSet(s)
           V == Events(s)
<1>1. s \in Seq(C) /\ s \in Seq(Picks) /\ c \in Picks /\ Len(s) \in Nat
  BY SeqMonotonic, LenProperties DEF Accumulator
<1>2. t \in Seq(C) /\ Len(t) = Len(s) + 1 /\ ToSet(t) = S \cup {c}
  BY <1>1, AppendElements
<1>3. IsFiniteSet(S) /\ S \subseteq Picks
  BY <1>1, SeqElements
<1>4. V = {p.event : p \in S} /\ Events(t) = V \cup {c.event}
  BY <1>2 DEF Events
<1>5. c \notin S
  BY <1>4
<1>6. Cardinality(S) = Len(s) /\ Cardinality(V) = Len(s) /\ Selection(S, C)
  BY DEF Accumulator
<1>7. Log(t) = Log(s) + LogOf[c] /\ Score(t) = Score(s) + ScoreOf[c]
  BY <1>1, SumsOfPicks, WeightsOfPicks
<1>8. Log(s) = Weight(S, LogOf) /\ Score(s) = Weight(S, ScoreOf)
  BY DEF Accumulator
<1>9. Selection(S \cup {c}, C)
  BY <1>4, <1>6 DEF Selection
<1>10. IsFiniteSet(V)
  <2> DEFINE f == [p \in S |-> p.event]
  <2>1. f \in Surjection(S, V)
    BY <1>4 DEF Surjection
  <2> HIDE DEF f, S, V
  <2> QED
    BY <2>1, <1>3, FS_Surjection
<1> HIDE DEF t, S, V
<1>11. Cardinality(S \cup {c}) = Len(s) + 1
  BY <1>3, <1>5, <1>6, AddOne
<1>12. Cardinality(V \cup {c.event}) = Len(s) + 1
  <2>1. c.event \notin V
    BY DEF V
  <2> QED
    BY <2>1, <1>6, <1>10, AddOne
<1>13. \A p \in S \cup {c} : LogOf[p] \in Int /\ ScoreOf[p] \in Int
  BY <1>1, <1>3, WeightsOfPicks
<1>14. Weight(S \cup {c}, LogOf) = Weight(S, LogOf) + LogOf[c]
  BY <1>3, <1>5, <1>13, WeightAdd
<1>15. Weight(S \cup {c}, ScoreOf) = Weight(S, ScoreOf) + ScoreOf[c]
  BY <1>3, <1>5, <1>13, WeightAdd
<1>16. Accumulator(t, C)
  BY <1>2, <1>4, <1>7, <1>8, <1>9, <1>11, <1>12, <1>14, <1>15 DEF Accumulator
<1> QED
  BY <1>16 DEF t

LEMMA ExpansionsElements ==
    ASSUME candidates \in Seq(Picks), beam \in Seq(Seq(Picks))
    PROVE  /\ Expansions \in Seq(Seq(Picks))
           /\ \A e \in ToSet(Expansions) : \E s \in ToSet(beam), c \in ToSet(candidates) :
                 c.event \notin Events(s) /\ e = Append(s, c)
           /\ \A s \in ToSet(beam), c \in ToSet(candidates) :
                 c.event \notin Events(s) => Append(s, c) \in ToSet(Expansions)
<1> DEFINE N == Len(beam)
           block(n) == LET open == Open(beam[n])
                       IN  [m \in DOMAIN open |-> Append(beam[n], open[m])]
           blocks == [n \in DOMAIN beam |-> block(n)]
<1>1. N \in Nat /\ DOMAIN beam = 1..N /\ \A n \in 1..N : beam[n] \in Seq(Picks)
  BY LenProperties
<1>2. ASSUME NEW s \in Seq(Picks)
      PROVE  /\ Open(s) \in Seq(Picks)
             /\ ToSet(Open(s)) = {c \in ToSet(candidates) : c.event \notin Events(s)}
  <2> DEFINE K == {m \in DOMAIN candidates : candidates[m].event \notin Events(s)}
  <2>1. K \in SUBSET DOMAIN candidates /\ Open(s) = Kept(candidates, K)
    BY DEF Open
  <2>2. {candidates[i] : i \in K} = {c \in ToSet(candidates) : c.event \notin Events(s)}
    BY DEF ToSet
  <2> HIDE DEF K
  <2>3. Kept(candidates, K) \in Seq(Picks) /\ ToSet(Kept(candidates, K)) = {candidates[i] : i \in K}
    BY <2>1, KeptElements, KeptRange
  <2> QED
    BY <2>1, <2>2, <2>3
<1>3. ASSUME NEW n \in 1..N
      PROVE  /\ block(n) \in Seq(Seq(Picks))
             /\ ToSet(block(n)) = {Append(beam[n], c) : c \in ToSet(Open(beam[n]))}
  <2> DEFINE open == Open(beam[n])
  <2>1. open \in Seq(Picks) /\ beam[n] \in Seq(Picks)
    BY <1>1, <1>2
  <2> HIDE DEF open
  <2>2. Len(open) \in Nat /\ DOMAIN open = 1..Len(open) /\ \A m \in 1..Len(open) : open[m] \in Picks
    BY <2>1, LenProperties
  <2> DEFINE b == [m \in DOMAIN open |-> Append(beam[n], open[m])]
  <2>3. \A m \in 1..Len(open) : Append(beam[n], open[m]) \in Seq(Picks)
    BY <2>1, <2>2, AppendProperties
  <2>4. b \in Seq(Seq(Picks))
    BY <2>2, <2>3
  <2>5. ToSet(b) = {Append(beam[n], c) : c \in ToSet(open)}
    BY DEF ToSet
  <2> QED
    BY <2>4, <2>5 DEF open
<1> HIDE DEF block
<1>4. blocks \in Seq(Seq(Seq(Picks))) /\ Len(blocks) = N /\ \A n \in 1..N : blocks[n] = block(n)
  BY <1>1, <1>3
<1>5. Expansions = FlattenSeq(blocks)
  BY DEF Expansions, block
<1> HIDE DEF blocks, N
<1>6. /\ Expansions \in Seq(Seq(Picks))
      /\ \A e \in ToSet(Expansions) : \E n \in 1..N : e \in ToSet(blocks[n])
      /\ \A n \in 1..N : \A e \in ToSet(blocks[n]) : e \in ToSet(Expansions)
  BY <1>4, <1>5, JoinedElements
<1>7. /\ \A s \in ToSet(beam) : \E n \in 1..N : beam[n] = s
      /\ \A n \in 1..N : beam[n] \in ToSet(beam)
  BY SeqElements DEF N
<1>8. ASSUME NEW e \in ToSet(Expansions)
      PROVE  \E s \in ToSet(beam), c \in ToSet(candidates) :
                c.event \notin Events(s) /\ e = Append(s, c)
  <2>1. PICK n \in 1..N : e \in ToSet(block(n))
    BY <1>4, <1>6
  <2>2. PICK c \in ToSet(Open(beam[n])) : e = Append(beam[n], c)
    BY <2>1, <1>3
  <2>3. c \in ToSet(candidates) /\ c.event \notin Events(beam[n])
    BY <2>2, <1>1, <1>2
  <2> QED
    BY <2>2, <2>3, <1>7
<1>9. ASSUME NEW s \in ToSet(beam), NEW c \in ToSet(candidates), c.event \notin Events(s)
      PROVE  Append(s, c) \in ToSet(Expansions)
  <2>1. PICK n \in 1..N : beam[n] = s
    BY <1>7
  <2>2. c \in ToSet(Open(beam[n]))
    BY <2>1, <1>9, <1>1, <1>2
  <2>3. Append(s, c) \in ToSet(block(n))
    BY <2>1, <2>2, <1>3
  <2> QED
    BY <2>3, <1>4, <1>6
<1> QED
  BY <1>6, <1>8, <1>9

LEMMA BestFirst ==
    ASSUME NEW s \in Seq(Seq(Picks))
    PROVE  /\ StableSort(s, Better) \in Seq(Seq(Picks))
           /\ Len(StableSort(s, Better)) = Len(s)
           /\ ToSet(StableSort(s, Better)) = ToSet(s)
           /\ s # <<>> => \A x \in ToSet(s) : Score(x) <= Score(StableSort(s, Better)[1])
<1> DEFINE W == {p \in (DOMAIN s) \X (DOMAIN s) : Better(s[p[1]], s[p[2]])}
           t == StableSort(s, Better)
<1>1. Len(s) \in Nat /\ DOMAIN s = 1..Len(s) /\ \A i \in DOMAIN s : s[i] \in Seq(Picks)
  BY LenProperties
<1>2. \A i \in DOMAIN s : Score(s[i]) \in Int /\ Quality(s[i]) \in Int
  BY <1>1, SumsOfPicks
<1>3. \A i, j \in DOMAIN s : <<i, j>> \in W <=>
         \/ Score(s[i]) > Score(s[j])
         \/ Score(s[i]) = Score(s[j]) /\ Quality(s[i]) > Quality(s[j])
  BY DEF Better
<1>4. t = Arranged(s, Stable(s, W))
  <2>1. {p \in (DOMAIN s) \X (DOMAIN s) :
           \/ Better(s[p[1]], s[p[2]])
           \/ ~Better(s[p[2]], s[p[1]]) /\ p[1] < p[2]} = Stable(s, W)
    BY DEF Stable
  <2> QED
    BY <2>1 DEF StableSort, Arranged
<1> HIDE DEF W, t
<1>5. WeakOrder(W, DOMAIN s)
  <2>1. ASSUME NEW i \in DOMAIN s, NEW j \in DOMAIN s, <<i, j>> \in W
        PROVE  <<j, i>> \notin W
    <3>1. /\ Score(s[i]) \in Int /\ Quality(s[i]) \in Int
          /\ Score(s[j]) \in Int /\ Quality(s[j]) \in Int
      BY <1>2
    <3>2. \/ Score(s[i]) > Score(s[j])
          \/ Score(s[i]) = Score(s[j]) /\ Quality(s[i]) > Quality(s[j])
      BY <2>1, <1>3
    <3>3. <<j, i>> \in W <=> \/ Score(s[j]) > Score(s[i])
                             \/ Score(s[j]) = Score(s[i]) /\ Quality(s[j]) > Quality(s[i])
      BY <1>3
    <3> QED
      BY <3>1, <3>2, <3>3
  <2>2. ASSUME NEW i \in DOMAIN s, NEW j \in DOMAIN s, NEW k \in DOMAIN s, <<i, k>> \in W
        PROVE  <<i, j>> \in W \/ <<j, k>> \in W
    <3>1. /\ Score(s[i]) \in Int /\ Quality(s[i]) \in Int
          /\ Score(s[j]) \in Int /\ Quality(s[j]) \in Int
          /\ Score(s[k]) \in Int /\ Quality(s[k]) \in Int
      BY <1>2
    <3>2. \/ Score(s[i]) > Score(s[k])
          \/ Score(s[i]) = Score(s[k]) /\ Quality(s[i]) > Quality(s[k])
      BY <2>2, <1>3
    <3>3. <<i, j>> \in W <=> \/ Score(s[i]) > Score(s[j])
                             \/ Score(s[i]) = Score(s[j]) /\ Quality(s[i]) > Quality(s[j])
      BY <1>3
    <3>4. <<j, k>> \in W <=> \/ Score(s[j]) > Score(s[k])
                             \/ Score(s[j]) = Score(s[k]) /\ Quality(s[j]) > Quality(s[k])
      BY <1>3
    <3> QED
      BY <3>1, <3>2, <3>3, <3>4
  <2> QED
    BY <2>1, <2>2 DEF WeakOrder
<1>6. t \in Seq(Seq(Picks)) /\ Len(t) = Len(s) /\ ToSet(t) = ToSet(s) /\ Reordered(s, W, t)
  BY <1>4, <1>5, SortedElements
<1>7. PICK at \in [DOMAIN s -> DOMAIN s] :
         /\ \A n \in DOMAIN s : t[n] = s[at[n]]
         /\ \A i \in DOMAIN s : \E n \in DOMAIN s : at[n] = i
         /\ \A m, n \in DOMAIN s : m < n => <<at[n], at[m]>> \notin W
  BY <1>6 DEF Reordered
<1>8. ASSUME s # <<>>, NEW x \in ToSet(s) PROVE Score(x) <= Score(t[1])
  <2>1. PICK i \in DOMAIN s : s[i] = x
    BY DEF ToSet
  <2>2. PICK n \in DOMAIN s : at[n] = i
    BY <1>7
  <2>3. 1 \in DOMAIN s /\ (n = 1 \/ 1 < n)
    BY <1>1
  <2>4. t[1] = s[at[1]] /\ at[1] \in DOMAIN s
    BY <1>7, <2>3
  <2>5. n # 1 => <<i, at[1]>> \notin W
    BY <1>7, <2>2, <2>3
  <2>6. n = 1 => x = t[1]
    BY <2>1, <2>2, <2>4
  <2>7. Score(x) \in Int /\ Score(t[1]) \in Int
    BY <1>2, <2>1, <2>4
  <2>8. n # 1 => Score(x) <= Score(t[1])
    BY <2>1, <2>4, <2>5, <2>7, <1>3
  <2> QED
    BY <2>6, <2>7, <2>8
<1> QED
  BY <1>6, <1>8 DEF t

LEMMA TrimmedElements ==
    ASSUME NEW s \in Seq(Seq(Picks))
    PROVE  /\ Trimmed(s) \in Seq(Seq(Picks)) /\ Len(Trimmed(s)) <= BeamWidth
           /\ ToSet(Trimmed(s)) \subseteq ToSet(s)
           /\ s # <<>> => Trimmed(s) # <<>> /\ Trimmed(s)[1] = s[1]
<1>0. BeamWidth \in Nat \ {0}
  BY OddsOptimizerAssumption
<1> DEFINE K == {i \in DOMAIN s : \A j \in 1..(i - 1) : Ids(s[j]) # Ids(s[i])}
           u == Kept(s, K)
           m == IF Len(u) < BeamWidth THEN Len(u) ELSE BeamWidth
<1>1. Trimmed(s) = SubSeq(u, 1, m)
  BY DEF Trimmed, FirstOfKey
<1>2. K \in SUBSET DOMAIN s
  OBVIOUS
<1>3. Len(s) \in Nat /\ DOMAIN s = 1..Len(s)
  BY LenProperties
<1>4. s # <<>> => 1 \in K
  BY <1>3
<1> HIDE DEF K
<1>5. /\ u \in Seq(Seq(Picks)) /\ Len(u) = Cardinality(K) /\ Cardinality(K) \in Nat
      /\ Selects(s, K, u) /\ ToSet(u) = {s[i] : i \in K}
  BY <1>2, KeptElements, KeptRange
<1>6. ToSet(u) \subseteq ToSet(s)
  BY <1>2, <1>5 DEF ToSet
<1>7. s # <<>> => Len(u) >= 1 /\ u[1] = s[1]
  <2> SUFFICES ASSUME s # <<>> PROVE Len(u) >= 1 /\ u[1] = s[1]
    OBVIOUS
  <2> HIDE DEF u
  <2>1. PICK at \in [1..Cardinality(K) -> K] :
           /\ \A n \in 1..Cardinality(K) : u[n] = s[at[n]]
           /\ \A i \in K : \E n \in 1..Cardinality(K) : at[n] = i
           /\ \A j, n \in 1..Cardinality(K) : j < n => at[j] < at[n]
    BY <1>5 DEF Selects
  <2>2. PICK n \in 1..Cardinality(K) : at[n] = 1
    BY <1>4, <2>1
  <2>3. 1 \in 1..Cardinality(K) /\ at[1] \in K
    <3> DEFINE N == Cardinality(K)
    <3>1. N \in Nat /\ n \in 1..N /\ at \in [1..N -> K]
      BY <1>5
    <3> HIDE DEF N
    <3>2. 1 \in 1..N
      BY <3>1
    <3>3. at[1] \in K
      BY <3>1, <3>2
    <3> QED
      BY <3>2, <3>3 DEF N
  <2>4. at[1] >= 1
    BY <2>3, <1>2, <1>3
  <2>5. ~(1 < n)
    BY <2>1, <2>2, <2>3, <2>4, <1>2, <1>3
  <2>6. n = 1
    BY <2>5, <1>5
  <2> QED
    BY <2>1, <2>2, <2>3, <2>6, <1>5
<1> HIDE DEF u
<1>8. m \in Nat /\ m <= Len(u) /\ m <= BeamWidth /\ (Len(u) >= 1 => m >= 1)
  BY <1>0, <1>5
<1> HIDE DEF m
<1>9. /\ SubSeq(u, 1, m) \in Seq(Seq(Picks)) /\ Len(SubSeq(u, 1, m)) = m
      /\ \A i \in 1..m : SubSeq(u, 1, m)[i] = u[i]
      /\ ToSet(SubSeq(u, 1, m)) \subseteq ToSet(u)
  BY <1>5, <1>8, PrefixElements
<1> DEFINE r == SubSeq(u, 1, m)
<1>10. r = Trimmed(s)
  BY <1>1
<1> HIDE DEF r
<1>11. s # <<>> => r # <<>> /\ r[1] = s[1]
  <2> SUFFICES ASSUME s # <<>> PROVE r # <<>> /\ r[1] = s[1]
    OBVIOUS
  <2>1. m >= 1
    BY <1>7, <1>8
  <2>2. 1 \in 1..m
    BY <2>1, <1>8
  <2>3. r[1] = u[1] /\ Len(r) = m
    BY <2>2, <1>9 DEF r
  <2> QED
    BY <2>1, <2>3, <1>7
<1> QED
  BY <1>6, <1>8, <1>9, <1>10, <1>11 DEF r

-----------------------------------------------------------------------------
(* The search of the optimizer.                                            *)

(* No selection of up to n candidates exceeds the target, or none at all. *)
Explored(C, n) ==
    \A X \in SUBSET C : Selection(X, C) /\ Cardinality(X) <= n => Weight(X, LogOf) <= Target

Exhausted(C) == \A X \in SUBSET C : Selection(X, C) => Weight(X, LogOf) <= Target

(* What the search returned: long enough, and no shorter one would do. *)
Shortest(t, C) ==
    /\ Accumulator(t, C)
    /\ Log(t) >= Target /\ Log(Front(t)) <= Target
    /\ Explored(C, Len(t) - 1)

(* The states of a round exceed the target with none of their selections,   *)
(* and the first of them is the best there is.                              *)
LeadsRound(b, C) ==
    /\ \A s \in ToSet(b) : Accumulator(s, C) /\ Log(s) <= Target /\ Len(s) = Len(b[1])
    /\ Heaviest(ToSet(b[1]), Len(b[1]), C, ScoreOf)
    /\ Explored(C, Len(b[1]))

SearchOf(list, b, t) ==
    /\ list \in Seq(Picks) /\ b \in Seq(Seq(Picks)) /\ t \in Seq(Picks)
    /\ Len(b) <= BeamWidth
    /\ b # <<>> => t = <<>> /\ LeadsRound(b, ToSet(list))
    /\ t # <<>> => Shortest(t, ToSet(list))
    /\ b = <<>> /\ t = <<>> => Exhausted(ToSet(list))

LEMMA OptimizeStarts ==
    ASSUME NEW s \in Seq(Picks), Optimize(s)
    PROVE  SearchOf(candidates', beam', ticket')
<1>1. candidates' \in Seq(Picks) /\ ticket' = <<>>
  BY PrepareElements DEF Optimize
<1> DEFINE C == ToSet(candidates')
<1>2. 0 <= Target /\ BeamWidth >= 1 /\ BeamWidth \in Nat
  BY OddsOptimizerAssumption
<1>3. ASSUME NEW X \in SUBSET C, Cardinality(X) = 0 PROVE X = {}
  <2>1. IsFiniteSet(C)
    BY <1>1, SeqElements
  <2>2. IsFiniteSet(X)
    BY <2>1, FS_Subset
  <2> QED
    BY <2>2, <1>3, FS_EmptySet
<1>4. CASE candidates' = <<>>
  <2>1. C = {}
    BY <1>4, NoElements
  <2>2. Exhausted(C)
    BY <2>1, <1>2, WeightEmpty DEF Exhausted
  <2>3. beam' = <<>> /\ beam' \in Seq(Seq(Picks)) /\ Len(beam') = 0
    BY <1>4 DEF Optimize
  <2>4. ticket' \in Seq(Picks) /\ 0 <= BeamWidth
    BY <1>1, <1>2
  <2> HIDE DEF C
  <2> QED
    BY <1>1, <2>2, <2>3, <2>4 DEF SearchOf, C
<1>5. CASE candidates' # <<>>
  <2>1. beam' = << <<>> >>
    BY <1>5 DEF Optimize
  <2>2. beam' \in Seq(Seq(Picks)) /\ Len(beam') = 1 /\ beam'[1] = <<>> /\ ToSet(beam') = {<<>>}
    BY <2>1 DEF ToSet
  <2> HIDE DEF C
  <2>3. Accumulator(<<>>, C) /\ Log(<<>>) <= Target /\ Len(<<>>) = 0
    BY <1>2, EmptyAccumulator, SumsOfNone
  <2>4. Explored(C, 0)
    <3> SUFFICES ASSUME NEW X \in SUBSET C, Cardinality(X) <= 0 PROVE Weight(X, LogOf) <= Target
      BY DEF Explored
    <3>1. X = {}
      <4>1. IsFiniteSet(C)
        BY <1>1, SeqElements DEF C
      <4>2. Cardinality(X) \in Nat
        BY <4>1, FS_Subset, FS_CardinalityType
      <4> QED
        BY <4>2, <1>3 DEF C
    <3> QED
      BY <3>1, <1>2, WeightEmpty
  <2>5. Heaviest({}, 0, C, ScoreOf)
    <3>1. Selection({}, C) /\ IsFiniteSet({}) /\ Cardinality({}) = 0
      BY FS_EmptySet DEF Selection
    <3>2. ASSUME NEW X \in SUBSET C, IsFiniteSet(X), Cardinality(X) = 0
          PROVE  Weight(X, ScoreOf) <= Weight({}, ScoreOf)
      <4>1. X = {}
        BY <3>2, FS_EmptySet
      <4>2. Weight({}, ScoreOf) = 0
        BY WeightEmpty
      <4> QED
        BY <4>1, <4>2
    <3> QED
      BY <3>1, <3>2 DEF Heaviest
  <2>6. LeadsRound(beam', C)
    BY <2>2, <2>3, <2>4, <2>5, NoElements DEF LeadsRound
  <2> QED
    BY <1>1, <1>2, <2>1, <2>2, <2>6 DEF SearchOf, C
<1> QED
  BY <1>4, <1>5

(* Reaching is the place of the first expansion that reaches the target. *)
LEMMA ReachingIsFirst ==
    ASSUME Expansions \in Seq(Seq(Picks)), NEW exact
    PROVE  /\ Reaching(exact) = 0 =>
                 \A e \in ToSet(Expansions) : ~(Log(e) > Target) /\ e \notin exact
           /\ Reaching(exact) # 0 =>
                 /\ Reaching(exact) \in 1..Len(Expansions)
                 /\ \/ Log(Expansions[Reaching(exact)]) > Target
                    \/ Expansions[Reaching(exact)] \in exact
                 /\ \A i \in 1..(Reaching(exact) - 1) :
                       ~(Log(Expansions[i]) > Target) /\ Expansions[i] \notin exact
<1> DEFINE X == Expansions
           I == {i \in 1..Len(X) : Log(X[i]) > Target \/ X[i] \in exact}
           k == Reaching(exact)
<1>1. k = IF I # {} THEN Min(I) ELSE 0
  BY DEF Reaching, SelectInSeq
<1>2. Len(X) \in Nat /\ \A e \in ToSet(X) : \E i \in 1..Len(X) : X[i] = e
  BY LenProperties, SeqElements
<1> HIDE DEF X, k
<1>3. CASE I = {}
  <2>1. k = 0 /\ \A e \in ToSet(X) : ~(Log(e) > Target) /\ e \notin exact
    BY <1>1, <1>2, <1>3
  <2> QED
    BY <2>1 DEF X, k
<1>4. CASE I # {}
  <2>1. I \in SUBSET Nat
    BY <1>2
  <2> HIDE DEF I
  <2>2. PICK m \in I : \A n \in I : m <= n
    BY <2>1, <1>4, LeastOf
  <2>3. k \in I /\ \A n \in I : k <= n
    BY <2>2, <1>1, <1>4 DEF Min
  <2>4. k \in 1..Len(X) /\ k # 0 /\ (Log(X[k]) > Target \/ X[k] \in exact)
    BY <2>3, <1>2 DEF I
  <2>5. ASSUME NEW i \in 1..(k - 1) PROVE ~(Log(X[i]) > Target) /\ X[i] \notin exact
    <3>1. i \in 1..Len(X) /\ ~(k <= i)
      BY <2>4, <1>2
    <3> QED
      BY <3>1, <2>3 DEF I
  <2> QED
    BY <2>4, <2>5 DEF X, k
<1> QED
  BY <1>3, <1>4

LEMMA RoundSearches ==
    ASSUME SearchOf(candidates, beam, ticket), Round
    PROVE  SearchOf(candidates', beam', ticket')
<1> DEFINE C == ToSet(candidates)
           g == beam[1]
           n == Len(g)
<1>1. /\ beam # <<>> /\ candidates' = candidates /\ ticket = <<>>
      /\ candidates \in Seq(Picks) /\ beam \in Seq(Seq(Picks))
      /\ LeadsRound(beam, C)
  BY DEF SearchOf, Round
<1>2. IsFiniteSet(C) /\ C \in SUBSET Picks
  BY <1>1, SeqElements
<1>3. \A X \in SUBSET C : IsFiniteSet(X) /\ Cardinality(X) \in Nat
  BY <1>2, FS_Subset, FS_CardinalityType
<1>4. g \in ToSet(beam) /\ n \in Nat
  <2>1. Len(beam) \in Nat \ {0}
    BY <1>1, EmptySeq
  <2>2. g \in ToSet(beam) /\ g \in Seq(Picks)
    BY <2>1, <1>1, SeqElements, LenProperties
  <2> QED
    BY <2>2, LenProperties
<1> HIDE DEF C, n, g
<1>5. /\ \A s \in ToSet(beam) : Accumulator(s, C) /\ Log(s) <= Target /\ Len(s) = n
      /\ Heaviest(ToSet(g), n, C, ScoreOf)
      /\ Explored(C, n)
  BY <1>1 DEF LeadsRound, n, g
<1>6. /\ Expansions \in Seq(Seq(Picks))
      /\ \A e \in ToSet(Expansions) : \E s \in ToSet(beam), c \in C :
            c.event \notin Events(s) /\ e = Append(s, c)
      /\ \A s \in ToSet(beam), c \in C :
            c.event \notin Events(s) => Append(s, c) \in ToSet(Expansions)
  BY <1>1, ExpansionsElements DEF C
<1>7. ASSUME NEW e \in ToSet(Expansions)
      PROVE  /\ Accumulator(e, C) /\ Len(e) = n + 1 /\ e \in Seq(Picks)
             /\ Log(Front(e)) <= Target
  <2>1. PICK s \in ToSet(beam), c \in C : c.event \notin Events(s) /\ e = Append(s, c)
    BY <1>6
  <2>2. Accumulator(s, C) /\ s \in Seq(C) /\ Len(s) = n /\ Log(s) <= Target
    BY <1>5 DEF Accumulator
  <2>3. Accumulator(e, C)
    BY <2>1, <2>2, <1>2, GrowingAccumulator
  <2>4. Len(e) = n + 1 /\ Front(e) = s
    BY <2>1, <2>2, AppendElements
  <2>5. e \in Seq(Picks)
    BY <2>3, <1>2, SeqMonotonic DEF Accumulator
  <2> QED
    BY <2>2, <2>3, <2>4, <2>5
(* Every selection of n + 1 is outdone by an expansion of the best state. *)
<1>8. ASSUME NEW X \in SUBSET C, Selection(X, C), Cardinality(X) = n + 1
      PROVE  \E e \in ToSet(Expansions) : Weight(X, ScoreOf) <= Score(e)
  <2>1. \A c \in C : ScoreOf[c] \in Int
    BY <1>2, WeightsOfPicks
  <2>2. IsFiniteSet(X)
    BY <1>3
  <2>3. PICK x \in X : /\ \A h \in ToSet(g) : h.event # x.event
                       /\ Weight(X, ScoreOf) <= Weight(ToSet(g), ScoreOf) + ScoreOf[x]
    BY <2>1, <2>2, <1>4, <1>5, <1>8, HeaviestGrows
  <2>4. x \in C /\ x \in Picks /\ x.event \notin Events(g)
    BY <2>3, <1>2 DEF Events
  <2>5. Append(g, x) \in ToSet(Expansions)
    BY <2>4, <1>4, <1>6
  <2>6. Accumulator(g, C) /\ g \in Seq(Picks)
    BY <1>2, <1>4, <1>5, SeqMonotonic DEF Accumulator
  <2>7. Score(Append(g, x)) = Weight(ToSet(g), ScoreOf) + ScoreOf[x]
    BY <2>4, <2>6, SumsOfPicks DEF Accumulator
  <2> QED
    BY <2>3, <2>5, <2>7
<1>9. PICK exact \in SUBSET {picks \in ToSet(Expansions) : Log(picks) = Target} :
         Return(exact) \/ KeepBest(exact)
  BY DEF Round
<1>10. Target \in Int
  BY OddsOptimizerAssumption
<1>11. CASE Return(exact)
  <2> DEFINE t == Expansions[Reaching(exact)]
  <2>1. ticket' = t /\ beam' = <<>> /\ Reaching(exact) # 0
    BY <1>11 DEF Return
  <2>2. Reaching(exact) \in 1..Len(Expansions) /\ (Log(t) > Target \/ t \in exact)
    BY <2>1, <1>6, ReachingIsFirst
  <2>3. t \in ToSet(Expansions)
    BY <2>2, <1>6, SeqElements
  <2> HIDE DEF t
  <2>4. Log(t) \in Int
    BY <2>3, <1>7, SumsOfPicks
  <2>5. Log(t) >= Target
    BY <2>2, <2>4, <1>10
  <2>6. Len(t) - 1 = n
    BY <2>3, <1>4, <1>7
  <2>7. Shortest(t, C)
    BY <2>3, <2>5, <2>6, <1>5, <1>7 DEF Shortest
  <2>8. Len(t) = n + 1 /\ t \in Seq(Picks)
    BY <2>3, <1>7
  <2>9. t # <<>>
    BY <2>8, <1>4
  <2>10. <<>> \in Seq(Seq(Picks)) /\ Len(<<>>) = 0 /\ 0 <= BeamWidth
    BY OddsOptimizerAssumption
  <2> QED
    BY <2>1, <2>7, <2>8, <2>9, <2>10, <1>1 DEF SearchOf, C
<1>12. CASE KeepBest(exact)
  <2> DEFINE u == StableSort(Expansions, Better)
             r == Trimmed(u)
  <2>1. beam' = r /\ ticket' = <<>> /\ Reaching(exact) = 0
    BY <1>1, <1>12 DEF KeepBest
  <2>2. \A e \in ToSet(Expansions) : ~(Log(e) > Target)
    BY <2>1, <1>6, ReachingIsFirst
  <2>3. /\ u \in Seq(Seq(Picks)) /\ ToSet(u) = ToSet(Expansions) /\ Len(u) = Len(Expansions)
        /\ Expansions # <<>> => \A e \in ToSet(Expansions) : Score(e) <= Score(u[1])
    BY <1>6, BestFirst
  <2> HIDE DEF u
  <2>4. /\ r \in Seq(Seq(Picks)) /\ Len(r) <= BeamWidth /\ ToSet(r) \subseteq ToSet(u)
        /\ u # <<>> => r # <<>> /\ r[1] = u[1]
    BY <2>3, TrimmedElements
  <2> HIDE DEF r
  <2>5. u # <<>> <=> Expansions # <<>>
    BY <2>3, <1>6, EmptySeq
  <2>6. \A e \in ToSet(Expansions) : Log(e) <= Target
    BY <2>2, <1>7, <1>10, SumsOfPicks
  <2>7. CASE r = <<>>
    <3>1. ToSet(Expansions) = {}
      BY <2>4, <2>5, <2>7, NoElements
    <3>2. ASSUME NEW X \in SUBSET C, Selection(X, C) PROVE Weight(X, LogOf) <= Target
      <4>1. Cardinality(X) <= n
        <5> SUFFICES ASSUME n + 1 <= Cardinality(X) PROVE FALSE
          BY <1>3, <1>4
        <5>1. n + 1 \in Nat /\ IsFiniteSet(X)
          BY <1>3, <1>4
        <5>2. PICK Y \in SUBSET X : Cardinality(Y) = n + 1
          BY <5>1, SubsetOfSize
        <5>3. Selection(Y, C) /\ Y \in SUBSET C
          BY <3>2 DEF Selection
        <5> QED
          BY <5>2, <5>3, <3>1, <1>8
      <4> QED
        BY <4>1, <3>2, <1>5 DEF Explored
    <3>3. Exhausted(C)
      BY <3>2 DEF Exhausted
    <3>4. <<>> \in Seq(Picks)
      OBVIOUS
    <3> QED
      BY <3>3, <3>4, <2>1, <2>4, <2>7, <1>1 DEF SearchOf, C
  <2>8. CASE r # <<>>
    <3> DEFINE h == r[1]
    <3>0. Len(r) \in Nat \ {0}
      BY <2>4, <2>8, EmptySeq
    <3>1. h \in ToSet(r)
      BY <3>0, <2>4, SeqElements
    <3>2. h \in ToSet(Expansions) /\ u # <<>> /\ h = u[1]
      <4>1. h \in ToSet(Expansions)
        BY <3>1, <2>3, <2>4
      <4>2. Expansions # <<>>
        BY <4>1, NoElements
      <4> QED
        BY <4>1, <4>2, <2>4, <2>5
    <3>3. \A e \in ToSet(Expansions) : Score(e) <= Score(h)
      BY <3>2, <2>3, <2>5
    <3> HIDE DEF h
    <3>4. Accumulator(h, C) /\ Len(h) = n + 1 /\ Log(h) <= Target /\ h \in Seq(Picks)
      BY <3>2, <1>7, <2>6
    <3>5. Heaviest(ToSet(h), n + 1, C, ScoreOf)
      <4>1. Selection(ToSet(h), C) /\ Cardinality(ToSet(h)) = n + 1 /\ IsFiniteSet(ToSet(h))
        BY <3>4, SeqElements DEF Accumulator
      <4>2. ASSUME NEW X \in SUBSET C, Selection(X, C), Cardinality(X) = n + 1
            PROVE  Weight(X, ScoreOf) <= Weight(ToSet(h), ScoreOf)
        <5>1. PICK e \in ToSet(Expansions) : Weight(X, ScoreOf) <= Score(e)
          BY <4>2, <1>8
        <5>2. Score(e) <= Score(h) /\ Score(h) = Weight(ToSet(h), ScoreOf)
          BY <3>3, <3>4 DEF Accumulator
        <5>3. Score(e) \in Int /\ Score(h) \in Int
          BY <3>4, <1>7, SumsOfPicks
        <5>4. Weight(X, ScoreOf) \in Int
          <6>1. \A x \in X : ScoreOf[x] \in Int
            BY <1>2, WeightsOfPicks
          <6> QED
            BY <6>1, <1>3, WeightType
        <5> QED
          BY <5>1, <5>2, <5>3, <5>4
      <4> QED
        BY <4>1, <4>2 DEF Heaviest
    <3>6. Explored(C, n + 1)
      <4> SUFFICES ASSUME NEW X \in SUBSET C, Selection(X, C), Cardinality(X) <= n + 1
                   PROVE  Weight(X, LogOf) <= Target
        BY DEF Explored
      <4>1. CASE Cardinality(X) <= n
        BY <4>1, <1>5 DEF Explored
      <4>2. CASE Cardinality(X) = n + 1
        <5>1. Heaviest(ToSet(h), n + 1, C, LogOf)
          BY <3>5, <1>2, HeaviestOdds
        <5>2. Weight(X, LogOf) <= Weight(ToSet(h), LogOf)
          BY <5>1, <4>2, <1>3 DEF Heaviest
        <5>3. Weight(ToSet(h), LogOf) = Log(h) /\ Log(h) \in Int
          BY <3>4, SumsOfPicks DEF Accumulator
        <5>4. Weight(X, LogOf) \in Int
          <6>1. \A x \in X : LogOf[x] \in Int
            BY <1>2, WeightsOfPicks
          <6> QED
            BY <6>1, <1>3, WeightType
        <5> QED
          BY <5>2, <5>3, <5>4, <3>4, <1>10
      <4>3. Cardinality(X) <= n \/ Cardinality(X) = n + 1
        BY <1>3, <1>4
      <4> QED
        BY <4>1, <4>2, <4>3
    <3>7. \A s \in ToSet(r) : Accumulator(s, C) /\ Log(s) <= Target /\ Len(s) = n + 1
      BY <2>3, <2>4, <2>6, <1>7
    <3>8. LeadsRound(r, C)
      BY <3>4, <3>5, <3>6, <3>7 DEF LeadsRound, h
    <3>9. <<>> \in Seq(Picks)
      OBVIOUS
    <3> QED
      BY <3>8, <3>9, <2>1, <2>4, <2>8, <1>1 DEF SearchOf, C
  <2> QED
    BY <2>7, <2>8
<1> QED
  BY <1>9, <1>11, <1>12

-----------------------------------------------------------------------------
(* What the candidates cover of the outcomes offered.                      *)

LEMMA Greatest ==
    ASSUME NEW S, IsFiniteSet(S), S # {}, NEW f, \A x \in S : f[x] \in Int
    PROVE  \E x \in S : \A y \in S : f[y] <= f[x]
<1> DEFINE Good == {n \in Nat : \A T \in SUBSET S : Cardinality(T) = n + 1 =>
                       \E x \in T : \A y \in T : f[y] <= f[x]}
<1>0. \A T \in SUBSET S : IsFiniteSet(T) /\ Cardinality(T) \in Nat
  BY FS_Subset, FS_CardinalityType
<1>1. 0 \in Good
  <2> SUFFICES ASSUME NEW T \in SUBSET S, Cardinality(T) = 1
               PROVE  \E x \in T : \A y \in T : f[y] <= f[x]
    OBVIOUS
  <2>1. PICK x : T = {x}
    BY <1>0, FS_Singleton
  <2> QED
    BY <2>1
<1>2. ASSUME NEW n \in Nat, n \in Good PROVE n + 1 \in Good
  <2> SUFFICES ASSUME NEW T \in SUBSET S, Cardinality(T) = n + 2
               PROVE  \E x \in T : \A y \in T : f[y] <= f[x]
    OBVIOUS
  <2>1. T # {}
    BY <1>0, FS_EmptySet
  <2>2. PICK x \in T : TRUE
    BY <2>1
  <2>3. Cardinality(T \ {x}) = n + 1 /\ T \ {x} \in SUBSET S
    <3>1. IsFiniteSet(T)
      BY <1>0
    <3>2. Cardinality(T \ {x}) = Cardinality(T) - 1
      BY <3>1, RemoveOne
    <3> QED
      BY <3>2
  <2>4. PICK z \in T \ {x} : \A y \in T \ {x} : f[y] <= f[z]
    BY <2>3, <1>2
  <2>5. f[x] \in Int /\ f[z] \in Int
    OBVIOUS
  <2>6. CASE f[x] <= f[z]
    BY <2>4, <2>6
  <2>7. CASE f[z] <= f[x]
    <3>1. \A y \in T : f[y] <= f[x]
      BY <2>4, <2>5, <2>7
    <3> QED
      BY <3>1
  <2> QED
    BY <2>5, <2>6, <2>7
<1> HIDE DEF Good
<1>3. Cardinality(S) - 1 \in Good
  <2>1. Cardinality(S) \in Nat /\ Cardinality(S) # 0
    BY FS_CardinalityType, FS_EmptySet
  <2>2. Nat \subseteq Good
    BY <1>1, <1>2, Inductive
  <2> QED
    BY <2>1, <2>2
<1>4. (Cardinality(S) - 1) + 1 = Cardinality(S)
  BY FS_CardinalityType
<1> QED
  BY <1>3, <1>4 DEF Good

LEMMA MaxIsGreatest ==
    ASSUME NEW S \in SUBSET Int, IsFiniteSet(S), S # {}
    PROVE  Max(S) \in S
<1> DEFINE f == [x \in S |-> x]
<1>1. \A x \in S : f[x] = x /\ f[x] \in Int
  OBVIOUS
<1> HIDE DEF f
<1>2. PICK x \in S : \A y \in S : f[y] <= f[x]
  BY <1>1, Greatest
<1>3. \A y \in S : x >= y
  BY <1>1, <1>2
<1> QED
  BY <1>3 DEF Max

(* Every candidate is an outcome on offer, and every outcome on offer has a  *)
(* candidate of its event, for the 1k generator of its market of the event.  *)
Covers(list, offers, apart) ==
    /\ \A c \in ToSet(list) : \E o \in offers :
          c.id = <<o.event, o.market, o.outcome>> /\ c.event = o.event /\ c.log = o.log
    /\ \A o \in offers : \E q \in offers, c \in ToSet(list) :
          /\ q.event = o.event /\ (apart => q.market = o.market)
          /\ c.event = q.event /\ c.log = q.log

LEMMA FavouriteIsLowest ==
    ASSUME NEW offers \in SUBSET Outcomes, IsFiniteSet(offers), NEW q \in offers
    PROVE  FavouriteLog(offers) <= q.log /\ \E o \in offers : FavouriteLog(offers) = o.log
<1> DEFINE f == [o \in offers |-> -o.log]
           logs == {o.log : o \in offers}
<1>1. \A o \in offers : o.log \in Int
  BY OutcomesAssumption
<1>2. \A o \in offers : f[o] = -o.log /\ f[o] \in Int
  BY <1>1
<1> HIDE DEF f
<1>3. PICK top \in offers : \A p \in offers : f[p] <= f[top]
  BY <1>2, Greatest
<1>4. \A p \in offers : top.log <= p.log
  BY <1>1, <1>2, <1>3
<1>5. \E l \in logs : \A k \in logs : l <= k
  BY <1>4
<1>6. FavouriteLog(offers) \in logs /\ \A k \in logs : FavouriteLog(offers) <= k
  BY <1>5 DEF FavouriteLog, Min
<1> QED
  BY <1>6

(* A candidate adds at least what EventLog takes for the most of its event. *)
LEMMA EventHasCandidate ==
    ASSUME NEW offers \in SUBSET Outcomes, IsFiniteSet(offers), NEW apart \in BOOLEAN,
           NEW list, Covers(list, offers, apart), NEW o \in offers
    PROVE  /\ EventLog(offers, apart, o.event) \in Int
           /\ \E c \in ToSet(list) :
                 c.event = o.event /\ EventLog(offers, apart, o.event) <= c.log
<1> DEFINE of(markets) == {p \in offers : p.event = o.event /\ p.market \in markets}
           played == {p.market : p \in offers}
           groups == IF apart THEN {{m} : m \in played} ELSE {played}
           logs == {FavouriteLog(of(g)) : g \in {g \in groups : of(g) # {}}}
<1>1. EventLog(offers, apart, o.event) = Max(logs)
  BY DEF EventLog
<1>2. \A g : of(g) \in SUBSET Outcomes /\ of(g) \in SUBSET offers /\ IsFiniteSet(of(g))
  <2>1. \A g : of(g) \in SUBSET offers
    OBVIOUS
  <2> HIDE DEF of
  <2> QED
    BY <2>1, FS_Subset
<1>3. \A g \in groups : \A p, q \in of(g) : p.event = o.event /\ (apart => p.market = q.market)
  OBVIOUS
<1>4. \E g \in groups : of(g) # {}
  <2>1. o \in of({o.market}) /\ o \in of(played)
    OBVIOUS
  <2>2. (IF apart THEN {o.market} ELSE played) \in groups
    OBVIOUS
  <2> QED
    BY <2>1, <2>2
<1>5. \A g \in groups : \A p \in of(g), q \in offers :
         q.event = p.event /\ (apart => q.market = p.market) => q \in of(g)
  OBVIOUS
<1> HIDE DEF of, groups
<1>6. \A g : \A p \in of(g) : /\ FavouriteLog(of(g)) <= p.log
                              /\ \E q \in of(g) : FavouriteLog(of(g)) = q.log
  BY <1>2, FavouriteIsLowest
<1>7. \A p \in Outcomes : p.log \in Int
  BY OutcomesAssumption
<1>8. logs # {} /\ logs \in SUBSET Int /\ logs \in SUBSET {p.log : p \in offers}
  <2>1. logs # {}
    BY <1>4
  <2>2. \A x \in logs : \E p \in offers : x = p.log
    BY <1>2, <1>6
  <2> HIDE DEF logs
  <2> QED
    BY <2>1, <2>2, <1>7
<1>9. IsFiniteSet(logs)
  <2> DEFINE L == {p.log : p \in offers}
             f == [p \in offers |-> p.log]
  <2>1. f \in Surjection(offers, L)
    BY DEF Surjection
  <2> HIDE DEF f, L, logs
  <2>2. IsFiniteSet(L)
    BY <2>1, FS_Surjection
  <2> QED
    BY <2>2, <1>8, FS_Subset DEF L
<1>10. Max(logs) \in logs
  <2> HIDE DEF logs
  <2> QED
    BY <1>8, <1>9, MaxIsGreatest
<1>11. PICK g \in groups : of(g) # {} /\ Max(logs) = FavouriteLog(of(g))
  BY <1>10
<1>12. PICK p \in of(g) : TRUE
  BY <1>11
<1>13. p \in offers
  BY <1>2
<1>14. PICK q \in offers, c \in ToSet(list) :
          /\ q.event = p.event /\ (apart => q.market = p.market)
          /\ c.event = q.event /\ c.log = q.log
  BY <1>13 DEF Covers
<1>15. q \in of(g)
  BY <1>5, <1>14
<1>16. FavouriteLog(of(g)) <= c.log
  BY <1>6, <1>14, <1>15
<1>17. c.event = o.event
  BY <1>3, <1>11, <1>14
<1>18. Max(logs) \in Int
  BY <1>8, <1>10
<1> QED
  BY <1>1, <1>11, <1>16, <1>17, <1>18

EventsOffered(offers) == {o.event : o \in offers}

(* For any events there is a selection of as many candidates that adds up to *)
(* at least the most of them.                                                *)
LEMMA SelectionFor ==
    ASSUME NEW offers \in SUBSET Outcomes, IsFiniteSet(offers), NEW apart \in BOOLEAN,
           NEW list \in Seq(Picks), Covers(list, offers, apart),
           NEW events \in SUBSET EventsOffered(offers)
    PROVE  /\ IsFiniteSet(events)
           /\ EventsLog(offers, apart, events) \in Int
           /\ \E X \in SUBSET ToSet(list) :
                 /\ Selection(X, ToSet(list)) /\ Cardinality(X) = Cardinality(events)
                 /\ EventsLog(offers, apart, events) <= Weight(X, LogOf)
<1> DEFINE C == ToSet(list)
           v == [e \in events |-> EventLog(offers, apart, e)]
           f == [e \in events |-> CHOOSE c \in C : c.event = e /\ v[e] <= c.log]
           X == {f[e] : e \in events}
<1>1. C \in SUBSET Picks /\ IsFiniteSet(C)
  BY SeqElements
<1>2. ASSUME NEW e \in events
      PROVE  v[e] \in Int /\ f[e] \in C /\ f[e].event = e /\ v[e] <= f[e].log
  <2>1. PICK o \in offers : e = o.event
    BY DEF EventsOffered
  <2>2. v[e] \in Int /\ \E c \in C : c.event = e /\ v[e] <= c.log
    BY <2>1, EventHasCandidate
  <2> HIDE DEF v
  <2> QED
    BY <2>2
<1>3. EventsLog(offers, apart, events) = Weight(events, v)
  <2>1. [e \in events |-> EventLog(offers, apart, e)] = [e \in events |-> v[e]]
    OBVIOUS
  <2> HIDE DEF v
  <2> QED
    BY <2>1 DEF EventsLog, Weight
<1> HIDE DEF v, f, C
<1>4. IsFiniteSet(events)
  <2> DEFINE h == [e \in events |-> f[e]]
  <2>1. h \in [events -> C] /\ \A e \in events : h[e] = f[e]
    BY <1>2
  <2> HIDE DEF h
  <2>2. \A d, e \in events : h[d] = h[e] => d = e
    BY <2>1, <1>2
  <2>3. h \in Injection(events, C)
    BY <2>1, <2>2 DEF Injection, IsInjective
  <2> QED
    BY <2>3, <1>1, FS_Injection
<1>5. Heavier(events, v, f, LogOf)
  <2>1. \A e \in events : v[e] \in Int /\ LogOf[f[e]] \in Int /\ v[e] <= LogOf[f[e]]
    BY <1>1, <1>2, WeightsOfPicks
  <2>2. \A d, e \in events : f[d] = f[e] => d = e
    BY <1>2
  <2> QED
    BY <2>1, <2>2 DEF Heavier
<1>6. Cardinality(X) = Cardinality(events) /\ Weight(events, v) <= Weight(X, LogOf)
  BY <1>4, <1>5, HeavierWeighs
<1>7. Selection(X, C) /\ X \in SUBSET C
  BY <1>2 DEF Selection
<1>8. Weight(events, v) \in Int
  BY <1>2, <1>4, WeightType
<1> QED
  BY <1>3, <1>4, <1>6, <1>7, <1>8 DEF C

(* A ticket as the properties want it. *)
Sound(t, offers) ==
    /\ {p.id : p \in ToSet(t)} \subseteq {<<o.event, o.market, o.outcome>> : o \in offers}
    /\ Cardinality(Events(t)) = Len(t)
    /\ Log(t) >= Target
    /\ Log(Front(t)) <= Target

Fewest(t, offers, apart) ==
    \A events \in SUBSET EventsOffered(offers) :
        Cardinality(events) < Len(t) => EventsLog(offers, apart, events) <= Target

Hopeless(offers, apart) == EventsLog(offers, apart, EventsOffered(offers)) <= Target

LEMMA ShortestIsSound ==
    ASSUME NEW offers \in SUBSET Outcomes, IsFiniteSet(offers), NEW apart \in BOOLEAN,
           NEW list \in Seq(Picks), Covers(list, offers, apart),
           NEW t, Shortest(t, ToSet(list))
    PROVE  Sound(t, offers) /\ Fewest(t, offers, apart)
<1> DEFINE C == ToSet(list)
<1>1. C \in SUBSET Picks /\ IsFiniteSet(C)
  BY SeqElements
<1>2. ToSet(t) \in SUBSET C /\ Len(t) \in Nat
  BY SeqElements, LenProperties DEF Shortest, Accumulator
<1> HIDE DEF C
<1>3. {p.id : p \in ToSet(t)} \subseteq {<<o.event, o.market, o.outcome>> : o \in offers}
  <2>1. ASSUME NEW p \in ToSet(t)
        PROVE  p.id \in {<<o.event, o.market, o.outcome>> : o \in offers}
    <3>1. p \in ToSet(list)
      BY <1>2 DEF C
    <3>2. PICK o \in offers : p.id = <<o.event, o.market, o.outcome>>
      BY <3>1 DEF Covers
    <3> QED
      BY <3>2
  <2> QED
    BY <2>1
<1>4. Sound(t, offers)
  BY <1>3 DEF Sound, Shortest, Accumulator
<1>5. ASSUME NEW events \in SUBSET EventsOffered(offers), Cardinality(events) < Len(t)
      PROVE  EventsLog(offers, apart, events) <= Target
  <2>1. /\ IsFiniteSet(events) /\ EventsLog(offers, apart, events) \in Int
        /\ \E X \in SUBSET C : /\ Selection(X, C) /\ Cardinality(X) = Cardinality(events)
                               /\ EventsLog(offers, apart, events) <= Weight(X, LogOf)
    BY SelectionFor DEF C
  <2>2. PICK X \in SUBSET C : /\ Selection(X, C) /\ Cardinality(X) = Cardinality(events)
                              /\ EventsLog(offers, apart, events) <= Weight(X, LogOf)
    BY <2>1
  <2>3. Cardinality(X) <= Len(t) - 1
    BY <2>1, <2>2, <1>2, <1>5, FS_CardinalityType
  <2>4. Weight(X, LogOf) <= Target
    BY <2>2, <2>3 DEF Shortest, Explored, C
  <2>5. Weight(X, LogOf) \in Int
    <3>1. IsFiniteSet(X) /\ \A x \in X : LogOf[x] \in Int
      BY <1>1, FS_Subset, WeightsOfPicks
    <3> QED
      BY <3>1, WeightType
  <2> QED
    BY <2>1, <2>2, <2>4, <2>5, OddsOptimizerAssumption
<1> QED
  BY <1>4, <1>5 DEF Fewest

LEMMA ExhaustedIsHopeless ==
    ASSUME NEW offers \in SUBSET Outcomes, IsFiniteSet(offers), NEW apart \in BOOLEAN,
           NEW list \in Seq(Picks), Covers(list, offers, apart), Exhausted(ToSet(list))
    PROVE  Hopeless(offers, apart)
<1> DEFINE C == ToSet(list)
           events == EventsOffered(offers)
<1>0. events \in SUBSET EventsOffered(offers)
  OBVIOUS
<1>1. C \in SUBSET Picks /\ IsFiniteSet(C)
  BY SeqElements
<1> HIDE DEF events
<1>2. /\ EventsLog(offers, apart, events) \in Int
      /\ \E X \in SUBSET C : /\ Selection(X, C) /\ Cardinality(X) = Cardinality(events)
                             /\ EventsLog(offers, apart, events) <= Weight(X, LogOf)
  BY <1>0, SelectionFor
<1> HIDE DEF C
<1>3. PICK X \in SUBSET C : Selection(X, C) /\ EventsLog(offers, apart, events) <= Weight(X, LogOf)
  BY <1>2
<1>4. Weight(X, LogOf) <= Target
  BY <1>3 DEF Exhausted, C
<1>5. Weight(X, LogOf) \in Int
  <2>1. IsFiniteSet(X) /\ \A x \in X : LogOf[x] \in Int
    BY <1>1, FS_Subset, WeightsOfPicks
  <2> QED
    BY <2>1, WeightType
<1> QED
  BY <1>2, <1>3, <1>4, <1>5, OddsOptimizerAssumption DEF Hopeless, events

-----------------------------------------------------------------------------
(* The pool of the 5k generator.                                           *)

(* One prediction of each event, probable enough. *)
Pooled(predictions, list) ==
    /\ \A p \in ToSet(list) : p \in ToSet(predictions) /\ p.probability >= Floor /\ p.log > 0
    /\ \A m, n \in DOMAIN list : m # n => list[m].event # list[n].event

LEMMA PoolElements ==
    ASSUME NEW s \in Seq(Picks)
    PROVE  Pool(s) \in Seq(Picks) /\ Pooled(s, Pool(s))
<1> DEFINE MoreLikely(p, q) == p.probability > q.probability
           Q == {n \in DOMAIN s : s[n].probability >= Floor /\ s[n].log > 0}
           r == Kept(s, Q)
           key == [p \in Picks |-> p.event]
           rank == [p \in Picks |-> p.probability]
           u == BestOfKey(r, LAMBDA p : p.event, MoreLikely)
           W == {p \in (DOMAIN u) \X (DOMAIN u) : MoreLikely(u[p[1]], u[p[2]])}
           t == StableSort(u, MoreLikely)
           m == IF PoolSize < Len(t) THEN PoolSize ELSE Len(t)
<1>0. \A p \in Picks : key[p] = p.event /\ rank[p] = p.probability /\ p.probability \in Int
  BY PickFields
<1>1. r \in Seq(Picks) /\ ToSet(r) = {p \in ToSet(s) : p.probability >= Floor /\ p.log > 0}
  <2>1. Q \in SUBSET DOMAIN s
    OBVIOUS
  <2>2. {s[i] : i \in Q} = {p \in ToSet(s) : p.probability >= Floor /\ p.log > 0}
    BY DEF ToSet
  <2> HIDE DEF Q
  <2> QED
    BY <2>1, <2>2, KeptElements, KeptRange
<1>2. rank \in [Picks -> Int]
  BY PickFields
<1> HIDE DEF key, rank
<1>3. BestList(r, key, rank, u)
  <2> HIDE DEF r
  <2>1. Len(r) \in Nat /\ DOMAIN r = 1..Len(r) /\ \A i \in DOMAIN r : r[i] \in Picks
    BY <1>1, LenProperties
  <2>2. \A i \in DOMAIN r : key[r[i]] = r[i].event /\ rank[r[i]] = r[i].probability
    BY <2>1, <1>0
  <2>3. \A i \in DOMAIN r : \A j \in 1..(i - 1) : j \in DOMAIN r
    BY <2>1
  <2> DEFINE K == {i \in DOMAIN r : \A j \in 1..(i - 1) : r[j].event # r[i].event}
             keys == Kept(r, K)
             better(k) == CHOOSE b \in DOMAIN r :
                           /\ r[b].event = k
                           /\ \A i \in DOMAIN r : r[i].event = k =>
                                 /\ ~(r[i].probability > r[b].probability)
                                 /\ i < b => r[b].probability > r[i].probability
  <2>4. K = Firsts(r, key)
    BY <2>2, <2>3 DEF Firsts
  <2>5. u = [n \in DOMAIN keys |-> r[better(keys[n].event)]]
    BY DEF BestOfKey, FirstOfKey
  <2>6. K \in SUBSET DOMAIN r
    OBVIOUS
  <2> HIDE DEF K
  <2>7. keys \in Seq(Picks) /\ ToSet(keys) = {r[i] : i \in K}
    BY <1>1, <2>6, KeptElements, KeptRange
  <2> HIDE DEF keys
  <2>8. \A n \in DOMAIN keys : \E i \in DOMAIN r : keys[n] = r[i]
    <3>1. \A n \in DOMAIN keys : keys[n] \in ToSet(keys)
      BY DEF ToSet
    <3> QED
      BY <3>1, <2>6, <2>7
  <2>9. ASSUME NEW n \in DOMAIN keys
        PROVE  \E b \in Bests(r, key, rank, key[keys[n]]) : u[n] = r[b]
    <3>1. PICK i \in DOMAIN r : keys[n] = r[i]
      BY <2>8
    <3> DEFINE k == keys[n].event
    <3>2. k = key[keys[n]] /\ k = key[r[i]]
      BY <3>1, <2>2
    <3>3. Bests(r, key, rank, key[r[i]]) # {}
      BY <1>1, <1>2, BestExists
    <3> HIDE DEF k
    <3>4. \A b \in DOMAIN r :
             b \in Bests(r, key, rank, k) <=>
                /\ r[b].event = k
                /\ \A j \in DOMAIN r : r[j].event = k =>
                      /\ ~(r[j].probability > r[b].probability)
                      /\ j < b => r[b].probability > r[j].probability
      BY <2>2 DEF Bests
    <3>5. Bests(r, key, rank, k) \in SUBSET DOMAIN r
      BY DEF Bests
    <3>6. better(k) \in Bests(r, key, rank, k)
      BY <3>2, <3>3, <3>4, <3>5
    <3>7. u[n] = r[better(k)]
      BY <2>5 DEF k
    <3> QED
      BY <3>2, <3>6, <3>7
  <2>10. u = [n \in DOMAIN keys |-> u[n]]
    BY <2>5
  <2> QED
    BY <2>4, <2>9, <2>10 DEF BestList, keys
<1> HIDE DEF u, r
<1>4. u \in Seq(Picks) /\ ToSet(u) \subseteq ToSet(r) /\ OneOfEach(r, key, rank, u)
  BY <1>1, <1>2, <1>3, BestElements
<1>5. Len(u) \in Nat /\ DOMAIN u = 1..Len(u) /\ \A i \in DOMAIN u : u[i] \in Picks
  BY <1>4, LenProperties
<1>6. WeakOrder(W, DOMAIN u)
  <2>1. \A i \in DOMAIN u : u[i].probability \in Int
    BY <1>5, <1>0
  <2>2. \A i, j \in DOMAIN u : <<i, j>> \in W <=> u[i].probability > u[j].probability
    OBVIOUS
  <2> HIDE DEF W
  <2> QED
    BY <2>1, <2>2 DEF WeakOrder
<1>7. t = Arranged(u, Stable(u, W))
  <2>1. {p \in (DOMAIN u) \X (DOMAIN u) :
           \/ MoreLikely(u[p[1]], u[p[2]])
           \/ ~MoreLikely(u[p[2]], u[p[1]]) /\ p[1] < p[2]} = Stable(u, W)
    BY DEF Stable
  <2> QED
    BY <2>1 DEF StableSort, Arranged
<1>8. Pool(s) = SubSeq(t, 1, m)
  BY DEF Pool, u, r
<1> HIDE DEF W, t
<1>9. t \in Seq(Picks) /\ DOMAIN t = DOMAIN u /\ ToSet(t) = ToSet(u) /\ Reordered(u, W, t)
  BY <1>4, <1>6, <1>7, SortedElements
<1>10. PICK at \in [DOMAIN u -> DOMAIN u] :
         /\ \A n \in DOMAIN u : t[n] = u[at[n]]
         /\ \A i, n \in DOMAIN u : i # n => at[i] # at[n]
  BY <1>9 DEF Reordered
<1>11. ASSUME NEW i \in DOMAIN t, NEW n \in DOMAIN t, i # n
       PROVE  t[i].event # t[n].event
  <2>1. at[i] \in DOMAIN u /\ at[n] \in DOMAIN u /\ at[i] # at[n]
    BY <1>9, <1>10, <1>11
  <2>2. key[u[at[i]]] # key[u[at[n]]]
    BY <2>1, <1>4 DEF OneOfEach
  <2> QED
    BY <2>1, <2>2, <1>0, <1>5, <1>9, <1>10
<1>12. m \in Nat /\ m <= Len(t) /\ Len(t) \in Nat /\ DOMAIN t = 1..Len(t)
  BY <1>9, LenProperties, GeneratorsAssumption
<1> HIDE DEF m
<1>13. /\ Pool(s) \in Seq(Picks) /\ Len(Pool(s)) = m
       /\ \A i \in 1..m : Pool(s)[i] = t[i]
       /\ ToSet(Pool(s)) \subseteq ToSet(t)
  BY <1>8, <1>9, <1>12, PrefixElements
<1>14. DOMAIN Pool(s) = 1..m
  BY <1>13, LenProperties
<1>15. Pooled(s, Pool(s))
  <2>1. \A p \in ToSet(Pool(s)) : p \in ToSet(s) /\ p.probability >= Floor /\ p.log > 0
    BY <1>1, <1>4, <1>9, <1>13
  <2>2. ASSUME NEW i \in 1..m, NEW n \in 1..m, i # n
        PROVE  Pool(s)[i].event # Pool(s)[n].event
    <3>1. i \in DOMAIN t /\ n \in DOMAIN t
      BY <1>12
    <3> QED
      BY <3>1, <2>2, <1>11, <1>13
  <2> QED
    BY <2>1, <2>2, <1>14 DEF Pooled
<1> QED
  BY <1>13, <1>15

(* Any order of the pool is a list of it. *)
LEMMA ShuffledElements ==
    ASSUME NEW s \in Seq(Picks), NEW shuffled \in SetToSeqs(ToSet(s))
    PROVE  shuffled \in Seq(Picks) /\ ToSet(shuffled) = ToSet(s)
<1> DEFINE S == ToSet(s)
           N == Cardinality(S)
<1>1. S \subseteq Picks /\ IsFiniteSet(S) /\ N \in Nat
  BY SeqElements
<1>2. shuffled \in [1..N -> S] /\ \A i, j \in 1..N : i # j => shuffled[i] # shuffled[j]
  BY DEF SetToSeqs
<1> HIDE DEF S, N
<1>3. shuffled \in Seq(Picks) /\ DOMAIN shuffled = 1..N
  BY <1>1, <1>2
<1>4. shuffled \in Injection(1..N, S)
  BY <1>2 DEF Injection, IsInjective
<1>5. IsFiniteSet(1..N) /\ Cardinality(1..N) = N
  BY <1>1, FS_Interval
<1>6. {shuffled[i] : i \in 1..N} = S
  <2>1. Cardinality(S) = N
    BY DEF S, N
  <2>2. shuffled \in Surjection(1..N, S)
    BY <1>1, <1>4, <1>5, <2>1, FS_Injection
  <2> QED
    BY <2>2 DEF Surjection
<1>7. ToSet(shuffled) = S
  BY <1>3, <1>6 DEF ToSet
<1> QED
  BY <1>3, <1>7 DEF S

-----------------------------------------------------------------------------
(* The candidates of each generator cover what it is offered.              *)

OffersOf(generator, market, events, page) ==
    {o \in ToSet(Live(page, market)) :
        generator = "5k" => o.probability >= Floor /\ o.event \in events}

LEMMA OffersElements ==
    ASSUME NEW generator, NEW market, NEW events, NEW page \in Feed \cup Slates
    PROVE  /\ page \in Seq(Outcomes)
           /\ OffersOf(generator, market, events, page) \in SUBSET Outcomes
           /\ IsFiniteSet(OffersOf(generator, market, events, page))
<1>1. page \in Seq(Outcomes)
  BY OutcomesAssumption
<1>2. ToSet(Live(page, market)) \subseteq Outcomes /\ IsFiniteSet(ToSet(Live(page, market)))
  <2>1. Live(page, market) \in Seq(Outcomes)
    BY <1>1, LiveElements
  <2> QED
    BY <2>1, SeqElements
<1>3. OffersOf(generator, market, events, page) \in SUBSET ToSet(Live(page, market))
  BY DEF OffersOf
<1> QED
  BY <1>1, <1>2, <1>3, FS_Subset

LEMMA CustomCovers ==
    ASSUME NEW page \in Feed, NEW market \in Markets \cup {Unfiltered, Unknown}, NEW events
    PROVE  /\ Predictions(page, market) \in Seq(Picks)
           /\ Covers(Prepare(Predictions(page, market)),
                     OffersOf("custom", market, events, page), FALSE)
<1> DEFINE s == Predictions(page, market)
           live == ToSet(Live(page, market))
           list == Prepare(s)
<1>1. page \in Seq(Outcomes)
  BY OutcomesAssumption
<1>2. /\ s \in Seq(Picks)
      /\ \A p \in ToSet(s) : \E o \in live : p = Predict(o, market)
      /\ \A o \in live : \E p \in ToSet(s) : p.event = o.event
  BY <1>1, PredictionsElements
<1>3. \A o \in live : o.log > 0
  BY <1>1, LiveElements
<1>4. OffersOf("custom", market, events, page) = live
  BY DEF OffersOf
<1>5. Chosen(s, list)
  BY <1>2, PrepareElements
<1> HIDE DEF live, s, list
<1>6. ASSUME NEW c \in ToSet(list)
      PROVE  \E o \in live : /\ c.id = <<o.event, o.market, o.outcome>> /\ c.event = o.event
                             /\ c.log = o.log /\ c.market = market
  <2>1. PICK o \in live : c = Predict(o, market)
    BY <1>2, <1>5 DEF Chosen
  <2> QED
    BY <2>1 DEF Predict
<1>7. ASSUME NEW o \in live
      PROVE  \E q \in live, c \in ToSet(list) :
                q.event = o.event /\ c.event = q.event /\ c.log = q.log
  <2>1. PICK p \in ToSet(s) : p.event = o.event
    BY <1>2
  <2>2. PICK r \in live : p = Predict(r, market)
    BY <1>2
  <2>3. p.log > 0
    BY <2>2, <1>3 DEF Predict
  <2>4. PICK c \in ToSet(list) : EventMarket(c) = EventMarket(p)
    BY <2>3, <1>5 DEF Chosen
  <2>5. c.event = p.event
    BY <2>4 DEF EventMarket
  <2>6. PICK q \in live : c.event = q.event /\ c.log = q.log
    BY <1>6
  <2> QED
    BY <2>1, <2>5, <2>6
<1>8. Covers(list, live, FALSE)
  BY <1>6, <1>7 DEF Covers
<1> QED
  BY <1>2, <1>4, <1>8 DEF s, list

(* What a prediction of the loop over the markets is made of. *)
LEMMA LoopOutcomes ==
    ASSUME NEW page \in Slates
    PROVE  /\ LoopPredictions(page) \in Seq(Picks)
           /\ \A p \in ToSet(LoopPredictions(page)) : \E o \in ToSet(Live(page, Unfiltered)) :
                 /\ p = Predict(o, o.market) /\ o.market \in Markets
           /\ \A o \in ToSet(Live(page, Unfiltered)) :
                 \E p \in ToSet(LoopPredictions(page)) :
                    p.event = o.event /\ p.market = o.market /\ p.log > 0
<1> DEFINE s == LoopPredictions(page)
           live(m) == ToSet(Live(page, m))
<1>1. page \in Seq(Outcomes) /\ \A o \in ToSet(page) : o.market \in Markets
  BY OutcomesAssumption
<1>2. Unfiltered \notin Markets
  BY CustomTicketAssumption
<1>3. \A m : live(m) = {o \in ToSet(page) : /\ o.marketActive /\ o.active /\ o.log > 0
                                             /\ m \in {Unfiltered, o.market}}
  BY <1>1, LiveElements
<1> HIDE DEF live
<1>4. \A o \in live(Unfiltered) : o.market \in Markets /\ o \in live(o.market) /\ o.log > 0
  BY <1>1, <1>3
<1>5. \A m \in Markets : \A o \in live(m) : o.market = m /\ o \in live(Unfiltered)
  BY <1>2, <1>3
<1>6. /\ s \in Seq(Picks)
      /\ \A p \in ToSet(s) : \E m \in Markets : p \in ToSet(Predictions(page, m))
      /\ \A m \in Markets : \A p \in ToSet(Predictions(page, m)) : p \in ToSet(s)
  BY <1>1, LoopElements
<1>7. \A m \in Markets :
         /\ \A p \in ToSet(Predictions(page, m)) : \E o \in live(m) : p = Predict(o, m)
         /\ \A o \in live(m) : \E p \in ToSet(Predictions(page, m)) : p.event = o.event
  BY <1>1, PredictionsElements DEF live
<1>8. ASSUME NEW p \in ToSet(s)
      PROVE  \E o \in live(Unfiltered) : p = Predict(o, o.market) /\ o.market \in Markets
  <2>1. PICK m \in Markets : p \in ToSet(Predictions(page, m))
    BY <1>6
  <2>2. PICK o \in live(m) : p = Predict(o, m)
    BY <2>1, <1>7
  <2> QED
    BY <2>2, <1>5
<1>9. ASSUME NEW o \in live(Unfiltered)
      PROVE  \E p \in ToSet(s) : p.event = o.event /\ p.market = o.market /\ p.log > 0
  <2>1. o.market \in Markets /\ o \in live(o.market)
    BY <1>4
  <2>2. PICK p \in ToSet(Predictions(page, o.market)) : p.event = o.event
    BY <2>1, <1>7
  <2>3. PICK q \in live(o.market) : p = Predict(q, o.market)
    BY <2>1, <1>7
  <2>4. p.market = o.market /\ p.log = q.log
    BY <2>3 DEF Predict
  <2>5. q.log > 0
    BY <2>1, <1>4, <1>5
  <2> QED
    BY <2>1, <2>2, <2>4, <2>5, <1>6
<1> QED
  BY <1>6, <1>8, <1>9 DEF s, live

LEMMA OneKCovers ==
    ASSUME NEW page \in Slates, NEW events
    PROVE  Covers(Prepare(LoopPredictions(page)), OffersOf("1k", Unfiltered, events, page), TRUE)
<1> DEFINE s == LoopPredictions(page)
           live == ToSet(Live(page, Unfiltered))
           list == Prepare(s)
<1>1. /\ s \in Seq(Picks)
      /\ \A p \in ToSet(s) : \E o \in live : p = Predict(o, o.market)
      /\ \A o \in live : \E p \in ToSet(s) :
            p.event = o.event /\ p.market = o.market /\ p.log > 0
  BY LoopOutcomes
<1>2. OffersOf("1k", Unfiltered, events, page) = live
  BY DEF OffersOf
<1>3. Chosen(s, list)
  BY <1>1, PrepareElements
<1> HIDE DEF live, s, list
<1>4. ASSUME NEW c \in ToSet(list)
      PROVE  \E o \in live : /\ c.id = <<o.event, o.market, o.outcome>> /\ c.event = o.event
                             /\ c.log = o.log /\ c.market = o.market
  <2>1. PICK o \in live : c = Predict(o, o.market)
    BY <1>1, <1>3 DEF Chosen
  <2> QED
    BY <2>1 DEF Predict
<1>5. ASSUME NEW o \in live
      PROVE  \E q \in live, c \in ToSet(list) :
                /\ q.event = o.event /\ q.market = o.market
                /\ c.event = q.event /\ c.log = q.log
  <2>1. PICK p \in ToSet(s) : p.event = o.event /\ p.market = o.market /\ p.log > 0
    BY <1>1
  <2>2. PICK c \in ToSet(list) : EventMarket(c) = EventMarket(p)
    BY <2>1, <1>3 DEF Chosen
  <2>3. c.event = p.event /\ c.market = p.market
    BY <2>2 DEF EventMarket
  <2>4. PICK q \in live : c.event = q.event /\ c.log = q.log /\ c.market = q.market
    BY <1>4
  <2> QED
    BY <2>1, <2>3, <2>4
<1>6. Covers(list, live, TRUE)
  BY <1>4, <1>5 DEF Covers
<1> QED
  BY <1>2, <1>6 DEF s, list

LEMMA FiveKCovers ==
    ASSUME NEW page \in Slates, NEW shuffled \in SetToSeqs(ToSet(Pool(LoopPredictions(page))))
    PROVE  Covers(Prepare(shuffled),
                  OffersOf("5k", Unfiltered, Events(Pool(LoopPredictions(page))), page), FALSE)
<1> DEFINE s == LoopPredictions(page)
           live == ToSet(Live(page, Unfiltered))
           list == Prepare(shuffled)
           offers == OffersOf("5k", Unfiltered, Events(Pool(s)), page)
<1>1. s \in Seq(Picks) /\ \A p \in ToSet(s) : \E o \in live : p = Predict(o, o.market)
  BY LoopOutcomes
<1>2. Pool(s) \in Seq(Picks) /\ Pooled(s, Pool(s))
  BY <1>1, PoolElements
<1>3. shuffled \in Seq(Picks) /\ ToSet(shuffled) = ToSet(Pool(s))
  BY <1>2, ShuffledElements
<1>4. offers = {o \in live : o.probability >= Floor /\ o.event \in Events(Pool(s))}
  BY DEF OffersOf
<1>5. Chosen(shuffled, list)
  BY <1>3, PrepareElements
<1> HIDE DEF live, s, list, offers
<1>6. ASSUME NEW p \in ToSet(Pool(s))
      PROVE  /\ p.log > 0
             /\ \E o \in offers : /\ p.id = <<o.event, o.market, o.outcome>> /\ p.event = o.event
                                  /\ p.log = o.log
  <2>1. p \in ToSet(s) /\ p.probability >= Floor /\ p.log > 0
    BY <1>2 DEF Pooled
  <2>2. PICK o \in live : p = Predict(o, o.market)
    BY <2>1, <1>1
  <2>3. /\ p.id = <<o.event, o.market, o.outcome>> /\ p.event = o.event
        /\ p.log = o.log /\ p.probability = o.probability
    BY <2>2 DEF Predict
  <2>4. p.event \in Events(Pool(s))
    BY DEF Events
  <2> QED
    BY <2>1, <2>3, <2>4, <1>4
<1>7. \A c \in ToSet(list) : \E o \in offers :
         c.id = <<o.event, o.market, o.outcome>> /\ c.event = o.event /\ c.log = o.log
  BY <1>3, <1>5, <1>6 DEF Chosen
<1>8. ASSUME NEW o \in offers
      PROVE  \E q \in offers, c \in ToSet(list) :
                q.event = o.event /\ c.event = q.event /\ c.log = q.log
  <2>1. PICK p \in ToSet(Pool(s)) : p.event = o.event
    BY <1>4 DEF Events
  <2>2. p \in ToSet(shuffled) /\ p.log > 0
    BY <1>3, <1>6
  <2>3. PICK c \in ToSet(list) : EventMarket(c) = EventMarket(p)
    BY <2>2, <1>5 DEF Chosen
  <2>4. c.event = p.event
    BY <2>3 DEF EventMarket
  <2>5. PICK q \in offers : c.event = q.event /\ c.log = q.log
    BY <1>7
  <2> QED
    BY <2>1, <2>4, <2>5
<1>9. Covers(list, offers, FALSE)
  BY <1>7, <1>8 DEF Covers
<1> QED
  BY <1>9 DEF s, list, offers

-----------------------------------------------------------------------------
(* The invariant of the requests and runs that use the optimizer.          *)

(* A custom request: the candidates are those of its last page, and the     *)
(* pages before it were hopeless.                                           *)
CustomState(market, ps, events, list, b, t, r) ==
    /\ ps \in Seq(Feed)
    /\ market = Unknown => ps = <<>>
    /\ ps = <<>> => b = <<>> /\ t = <<>>
    /\ ps # <<>> => Covers(list, OffersOf("custom", market, events, ps[Len(ps)]), FALSE)
    /\ \A n \in 1..(Len(ps) - 1) : Hopeless(OffersOf("custom", market, events, ps[n]), FALSE)
    /\ r = "200" => t # <<>>
    /\ r \in {"422", "502"} => b = <<>> /\ t = <<>>

OneKState(ps, events, list, b, t, r) ==
    /\ ps = <<>> => b = <<>> /\ t = <<>> /\ r = "none"
    /\ ps # <<>> => \E page \in Slates :
          ps = <<page>> /\ Covers(list, OffersOf("1k", Unfiltered, events, page), TRUE)
    /\ r \in {"none", "200", "422"}
    /\ r = "200" => t # <<>>
    /\ r = "422" => b = <<>> /\ t = <<>>

(* The candidates are the pool's, from the first attempt on. *)
FiveKPage(page, p, a, top, list) ==
    /\ p = Pool(LoopPredictions(page))
    /\ a # 0 => Covers(list, OffersOf("5k", Unfiltered, Events(p), page), FALSE)
    /\ top # <<>> => /\ Sound(top, OffersOf("5k", Unfiltered, Events(p), page))
                     /\ Fewest(top, OffersOf("5k", Unfiltered, Events(p), page), FALSE)

FiveKState(ps, p, a, top, list, b, t, r) ==
    /\ ps = <<>> => p = <<>> /\ a = 0 /\ r = "none"
    /\ ps # <<>> => \E page \in Slates : ps = <<page>> /\ FiveKPage(page, p, a, top, list)
    /\ a = 0 => b = <<>> /\ t = <<>> /\ top = <<>>
    /\ r \in {"none", "200", "422"}
    /\ r = "200" => top # <<>>
    /\ r = "422" => b = <<>> /\ t = <<>> /\ (p = <<>> \/ a # 0)

SearchTypes ==
    /\ strategy \in Strategies
    /\ wanted \in Markets \cup {Unfiltered, Unknown}
    /\ strategy # "custom" => wanted = Unfiltered
    /\ reply \in {"none", "200", "422", "500", "502"}
    /\ pages \in Seq(Feed \cup Slates \cup {<<>>})
    /\ Len(pages) <= (IF strategy \in Routes THEN Fetches ELSE MaxPages)
    /\ pool \in Seq(Picks) /\ best \in Seq(Picks) /\ attempt \in Nat
    /\ SearchOf(candidates, beam, ticket)

SearchInv ==
    /\ SearchTypes
    /\ strategy = "custom" =>
          CustomState(wanted, pages, Events(pool), candidates, beam, ticket, reply)
    /\ strategy = "1k" => OneKState(pages, Events(pool), candidates, beam, ticket, reply)
    /\ strategy = "5k" =>
          FiveKState(pages, pool, attempt, best, candidates, beam, ticket, reply)

LEMMA NothingToSearch == SearchOf(<<>>, <<>>, <<>>)
<1>1. Weight({}, LogOf) = 0 /\ 0 <= Target /\ BeamWidth \in Nat
  BY WeightEmpty, OddsOptimizerAssumption
<1>2. ToSet(<<>>) = {}
  BY NoElements
<1>3. Exhausted(ToSet(<<>>))
  BY <1>1, <1>2 DEF Exhausted
<1>4. <<>> \in Seq(Picks) /\ <<>> \in Seq(Seq(Picks)) /\ Len(<<>>) = 0 /\ 0 <= BeamWidth
  BY <1>1
<1> QED
  BY <1>3, <1>4 DEF SearchOf

LEMMA SearchInvStarts ==
    ASSUME GeneratorsInit
    PROVE  SearchInv
<1> USE DEF GeneratorsInit, Init
<1>1. SearchOf(candidates, beam, ticket)
  BY NothingToSearch
<1>2. MaxPages \in Nat /\ 0 <= MaxPages /\ 0 <= Fetches
  BY CustomTicketAssumption DEF Fetches
<1>3. pages = <<>> /\ Len(pages) = 0 /\ pages \in Seq(Feed) /\ pages \in Seq(Feed \cup Slates \cup {<<>>})
  OBVIOUS
<1>4. pool \in Seq(Picks) /\ best \in Seq(Picks) /\ attempt \in Nat
  OBVIOUS
<1>5. SearchTypes
  BY <1>1, <1>2, <1>3, <1>4 DEF SearchTypes, Unfiltered
<1>6. CustomState(wanted, pages, Events(pool), candidates, beam, ticket, reply)
  BY <1>3 DEF CustomState
<1>7. OneKState(pages, Events(pool), candidates, beam, ticket, reply)
  BY DEF OneKState
<1>8. FiveKState(pages, pool, attempt, best, candidates, beam, ticket, reply)
  BY DEF FiveKState
<1> QED
  BY <1>5, <1>6, <1>7, <1>8 DEF SearchInv

(* A custom request that moves past its last page has exhausted it. *)
LEMMA PageHopeless ==
    ASSUME SearchInv, strategy = "custom", pages # <<>>, beam = <<>>, ticket = <<>>
    PROVE  Hopeless(OffersOf("custom", wanted, Events(pool), pages[Len(pages)]), FALSE)
<1> DEFINE offers == OffersOf("custom", wanted, Events(pool), pages[Len(pages)])
<1>1. /\ pages \in Seq(Feed)
      /\ Covers(candidates, offers, FALSE)
      /\ candidates \in Seq(Picks) /\ Exhausted(ToSet(candidates))
  BY DEF SearchInv, SearchTypes, CustomState, SearchOf
<1>2. pages[Len(pages)] \in Feed \cup Slates
  <2>1. Len(pages) \in Nat \ {0}
    BY <1>1, EmptySeq
  <2> QED
    BY <2>1, <1>1, LenProperties
<1>3. offers \in SUBSET Outcomes /\ IsFiniteSet(offers)
  BY <1>2, OffersElements
<1> HIDE DEF offers
<1>4. Hopeless(offers, FALSE)
  BY <1>1, <1>3, ExhaustedIsHopeless
<1> QED
  BY <1>4 DEF offers

-----------------------------------------------------------------------------
(* Every step keeps it.                                                    *)

LEMMA SearchPages ==
    ASSUME Search, SearchInv, strategy = "custom", strategy' = strategy,
           UNCHANGED <<fiveK, weekly>>
    PROVE  SearchInv'
<1> DEFINE events == Events(pool)
<1>1. /\ reply = "none" /\ wanted # Unknown /\ beam = <<>> /\ ticket = <<>>
      /\ Len(pages) < MaxPages /\ wanted' = wanted /\ reply' = reply
      /\ pool' = pool /\ best' = best /\ attempt' = attempt
  BY DEF Search, Asking, fiveK
<1>2. PICK page \in Feed : pages' = Append(pages, page) /\ Optimize(Predictions(page, wanted))
  BY DEF Search
<1>3. /\ wanted \in Markets \cup {Unfiltered, Unknown}
      /\ pages \in Seq(Feed)
      /\ \A n \in 1..(Len(pages) - 1) : Hopeless(OffersOf("custom", wanted, events, pages[n]), FALSE)
  BY DEF SearchInv, SearchTypes, CustomState
<1>4. /\ Predictions(page, wanted) \in Seq(Picks)
      /\ Covers(Prepare(Predictions(page, wanted)), OffersOf("custom", wanted, events, page), FALSE)
  BY <1>3, CustomCovers
<1>5. SearchOf(candidates', beam', ticket')
  BY <1>2, <1>4, OptimizeStarts
<1>6. candidates' = Prepare(Predictions(page, wanted))
  BY <1>2 DEF Optimize
<1> DEFINE N == Len(pages)
<1>7. /\ N \in Nat /\ pages' \in Seq(Feed) /\ Len(pages') = N + 1 /\ pages'[N + 1] = page
      /\ \A n \in 1..N : pages'[n] = pages[n]
  BY <1>2, <1>3, AppendProperties, LenProperties
<1>8. \A n \in 1..N : Hopeless(OffersOf("custom", wanted, events, pages'[n]), FALSE)
  <2> SUFFICES ASSUME NEW n \in 1..N
               PROVE  Hopeless(OffersOf("custom", wanted, events, pages[n]), FALSE)
    BY <1>7
  <2>1. CASE n = N
    <3>1. pages # <<>>
      BY <2>1, <1>7
    <3> QED
      BY <3>1, <2>1, <1>1, PageHopeless
  <2>2. CASE n # N
    <3>1. n \in 1..(N - 1)
      BY <2>2, <1>7
    <3> QED
      BY <3>1, <1>3
  <2> QED
    BY <2>1, <2>2
<1>9. CustomState(wanted, pages', events, candidates', beam', ticket', reply)
  <2>1. pages' # <<>> /\ (N + 1) - 1 = N
    BY <1>7
  <2> HIDE DEF events, N
  <2> QED
    BY <2>1, <1>1, <1>4, <1>6, <1>7, <1>8 DEF CustomState
<1>10. SearchTypes'
  <2>1. pages' \in Seq(Feed \cup Slates \cup {<<>>})
    BY <1>7, SeqMonotonic
  <2>2. N + 1 <= MaxPages /\ strategy \notin Routes
    BY <1>1, <1>7, CustomTicketAssumption DEF Routes
  <2> QED
    BY <2>1, <2>2, <1>1, <1>5, <1>7 DEF SearchInv, SearchTypes, Routes
<1>11. Events(pool)' = events
  BY <1>1 DEF Events
<1> QED
  BY <1>1, <1>9, <1>10, <1>11 DEF SearchInv

(* The other steps of a request leave its pages and candidates alone. *)
LEMMA SearchAnswers ==
    ASSUME Refuse \/ NoEvents \/ Outage \/ Found \/ GiveUp,
           SearchInv, strategy = "custom", strategy' = strategy, UNCHANGED <<fiveK, weekly>>
    PROVE  SearchInv'
<1> DEFINE events == Events(pool)
<1>1. /\ UNCHANGED <<candidates, beam, ticket, wanted, pages>>
      /\ pool' = pool /\ best' = best /\ attempt' = attempt
  BY DEF Refuse, NoEvents, Outage, Found, GiveUp, fiveK
<1>2. /\ CustomState(wanted, pages, events, candidates, beam, ticket, reply)
      /\ SearchTypes
  BY DEF SearchInv
<1>3. /\ reply' \in {"200", "422", "502"}
      /\ reply' = "200" => ticket # <<>>
      /\ reply' \in {"422", "502"} => beam = <<>> /\ ticket = <<>>
  <2>1. CASE Refuse
    BY <2>1, <1>2 DEF Refuse, CustomState
  <2>2. CASE NoEvents \/ Outage
    BY <2>2 DEF NoEvents, Outage, Asking
  <2>3. CASE Found
    BY <2>3 DEF Found
  <2>4. CASE GiveUp
    BY <2>4 DEF GiveUp
  <2> QED
    BY <2>1, <2>2, <2>3, <2>4
<1>4. CustomState(wanted, pages, events, candidates, beam, ticket, reply')
  <2> HIDE DEF events
  <2> QED
    BY <1>2, <1>3 DEF CustomState
<1>5. SearchTypes'
  BY <1>1, <1>2, <1>3 DEF SearchTypes, Fetches
<1>6. Events(pool)' = events
  BY <1>1 DEF Events
<1> QED
  BY <1>1, <1>4, <1>5, <1>6 DEF SearchInv

LEMMA RoundKeeps ==
    ASSUME Round, SearchInv,
           UNCHANGED <<wanted, pages, reply, strategy, fiveK, weekly>>
    PROVE  SearchInv'
<1> DEFINE events == Events(pool)
<1>1. /\ beam # <<>> /\ candidates' = candidates /\ wanted' = wanted /\ pages' = pages
      /\ reply' = reply /\ strategy' = strategy
      /\ pool' = pool /\ best' = best /\ attempt' = attempt
  BY DEF Round, fiveK
<1>2. SearchTypes /\ SearchOf(candidates', beam', ticket') /\ ticket = <<>>
  BY <1>1, RoundSearches DEF SearchInv, SearchTypes, SearchOf
<1>3. SearchTypes'
  BY <1>1, <1>2 DEF SearchTypes, Fetches
<1>4. ASSUME strategy = "custom"
      PROVE  CustomState(wanted, pages, events, candidates, beam', ticket', reply)
  <2>1. CustomState(wanted, pages, events, candidates, beam, ticket, reply)
    BY <1>4 DEF SearchInv
  <2> HIDE DEF events
  <2> QED
    BY <2>1, <1>1, <1>2 DEF CustomState
<1>5. ASSUME strategy = "1k"
      PROVE  OneKState(pages, events, candidates, beam', ticket', reply)
  <2>1. OneKState(pages, events, candidates, beam, ticket, reply)
    BY <1>5 DEF SearchInv
  <2> HIDE DEF events
  <2> QED
    BY <2>1, <1>1, <1>2 DEF OneKState
<1>6. ASSUME strategy = "5k"
      PROVE  FiveKState(pages, pool, attempt, best, candidates, beam', ticket', reply)
  <2>1. FiveKState(pages, pool, attempt, best, candidates, beam, ticket, reply)
    BY <1>6 DEF SearchInv
  <2> QED
    BY <2>1, <1>1, <1>2 DEF FiveKState
<1>7. Events(pool)' = events
  BY <1>1 DEF Events
<1> QED
  BY <1>1, <1>3, <1>4, <1>5, <1>6, <1>7 DEF SearchInv

(* One more page in a list of pages. *)
LEMMA OnePage ==
    ASSUME NEW page \in Feed \cup Slates \cup {<<>>}
    PROVE  /\ <<page>> \in Seq(Feed \cup Slates \cup {<<>>}) /\ Len(<<page>>) = 1
           /\ <<page>> # <<>> /\ 1 <= MaxPages
  BY CustomTicketAssumption

LEMMA OneKStarts ==
    ASSUME OneK, SearchInv
    PROVE  SearchInv'
<1> DEFINE events == Events(pool)
<1>1. /\ strategy = "1k" /\ reply = "none" /\ wanted' = wanted /\ reply' = reply
      /\ strategy' = strategy /\ pool' = pool /\ best' = best /\ attempt' = attempt
  BY DEF OneK, Fresh, fiveK
<1>2. PICK page \in Slates : pages' = <<page>> /\ Optimize(LoopPredictions(page))
  BY DEF OneK
<1>3. LoopPredictions(page) \in Seq(Picks)
  BY LoopOutcomes
<1>4. candidates' = Prepare(LoopPredictions(page)) /\ ticket' = <<>>
  BY <1>2 DEF Optimize
<1>5. SearchOf(candidates', beam', ticket')
  BY <1>2, <1>3, OptimizeStarts
<1>6. SearchTypes'
  BY <1>1, <1>2, <1>5, OnePage DEF SearchInv, SearchTypes, Routes
<1>7. Covers(candidates', OffersOf("1k", Unfiltered, events, page), TRUE)
  BY <1>4, OneKCovers
<1>8. OneKState(pages', events, candidates', beam', ticket', reply)
  <2> HIDE DEF events
  <2> QED
    BY <1>1, <1>2, <1>4, <1>7, OnePage DEF OneKState
<1>9. Events(pool)' = events
  BY <1>1 DEF Events
<1> QED
  BY <1>1, <1>6, <1>8, <1>9 DEF SearchInv

LEMMA OneKAnswers ==
    ASSUME OneKEnds, SearchInv
    PROVE  SearchInv'
<1> DEFINE events == Events(pool)
<1>1. /\ strategy = "1k" /\ pages # <<>> /\ beam = <<>>
      /\ UNCHANGED <<candidates, beam, ticket, wanted, pages, strategy>>
      /\ pool' = pool /\ best' = best /\ attempt' = attempt
      /\ reply' = IF ticket = <<>> THEN "422" ELSE "200"
  BY DEF OneKEnds, Idle, Answer, Reply, fiveK, search
<1>2. SearchTypes'
  BY <1>1 DEF SearchInv, SearchTypes, Fetches
<1>3. OneKState(pages, events, candidates, beam, ticket, reply')
  <2>1. OneKState(pages, events, candidates, beam, ticket, reply)
    BY <1>1 DEF SearchInv
  <2> HIDE DEF events
  <2> QED
    BY <2>1, <1>1 DEF OneKState
<1>4. Events(pool)' = events
  BY <1>1 DEF Events
<1> QED
  BY <1>1, <1>2, <1>3, <1>4 DEF SearchInv

LEMMA FiveKStarts ==
    ASSUME FiveK, SearchInv
    PROVE  SearchInv'
<1>1. /\ strategy = "5k" /\ reply = "none" /\ pages = <<>>
      /\ UNCHANGED <<candidates, beam, ticket, wanted, reply, strategy>>
      /\ best' = best /\ attempt' = attempt
  BY DEF FiveK, Fresh, search
<1>2. PICK page \in Slates : pages' = <<page>> /\ pool' = Pool(LoopPredictions(page))
  BY DEF FiveK
<1>3. pool' \in Seq(Picks)
  BY <1>2, LoopOutcomes, PoolElements
<1>4. SearchTypes'
  BY <1>1, <1>2, <1>3, OnePage DEF SearchInv, SearchTypes, Routes
<1>5. attempt = 0 /\ beam = <<>> /\ ticket = <<>> /\ best = <<>>
  BY <1>1 DEF SearchInv, FiveKState
<1>6. FiveKPage(page, pool', attempt, best, candidates)
  BY <1>2, <1>5 DEF FiveKPage
<1>7. FiveKState(pages', pool', attempt, best, candidates, beam, ticket, reply)
  BY <1>1, <1>2, <1>5, <1>6, OnePage DEF FiveKState
<1> QED
  BY <1>1, <1>4, <1>7 DEF SearchInv

(* The ticket an attempt ended with, or the one before it. *)
LEMMA BestIsSound ==
    ASSUME SearchInv, NEW page \in Slates, FiveKPage(page, pool, attempt, best, candidates),
           attempt = 0 => ticket = <<>>
    PROVE  /\ BestSoFar \in Seq(Picks)
           /\ FiveKPage(page, pool, attempt, BestSoFar, candidates)
           /\ BestSoFar = <<>> => best = <<>> /\ ticket = <<>>
<1> DEFINE offers == OffersOf("5k", Unfiltered, Events(pool), page)
<1>1. /\ candidates \in Seq(Picks) /\ ticket \in Seq(Picks) /\ best \in Seq(Picks)
      /\ ticket # <<>> => Shortest(ticket, ToSet(candidates))
  BY DEF SearchInv, SearchTypes, SearchOf
<1>2. offers \in SUBSET Outcomes /\ IsFiniteSet(offers)
  BY OffersElements
<1>3. BestSoFar = <<>> => best = <<>> /\ ticket = <<>>
  BY DEF BestSoFar, Better5k
<1>4. BestSoFar = ticket \/ BestSoFar = best
  BY DEF BestSoFar
<1>5. ASSUME ticket # <<>>
      PROVE  Sound(ticket, offers) /\ Fewest(ticket, offers, FALSE)
  <2>1. Covers(candidates, offers, FALSE)
    BY <1>5 DEF FiveKPage
  <2> HIDE DEF offers
  <2> QED
    BY <2>1, <1>1, <1>2, <1>5, ShortestIsSound
<1>6. FiveKPage(page, pool, attempt, BestSoFar, candidates)
  <2>1. /\ pool = Pool(LoopPredictions(page))
        /\ attempt # 0 => Covers(candidates, offers, FALSE)
        /\ best # <<>> => Sound(best, offers) /\ Fewest(best, offers, FALSE)
    BY DEF FiveKPage
  <2>2. BestSoFar # <<>> => Sound(BestSoFar, offers) /\ Fewest(BestSoFar, offers, FALSE)
    <3> HIDE DEF offers
    <3>1. CASE BestSoFar = ticket
      BY <3>1, <1>5
    <3>2. CASE BestSoFar = best
      BY <3>2, <2>1
    <3> QED
      BY <3>1, <3>2, <1>4
  <2> QED
    BY <2>1, <2>2 DEF FiveKPage
<1> QED
  BY <1>1, <1>3, <1>4, <1>6

LEMMA AttemptKeeps ==
    ASSUME FiveKAttempt, SearchInv
    PROVE  SearchInv'
<1>1. /\ strategy = "5k" /\ reply = "none" /\ pages # <<>> /\ beam = <<>> /\ attempt \in Nat
      /\ UNCHANGED <<wanted, pages, reply, strategy, pool>>
      /\ best' = BestSoFar /\ attempt' = attempt + 1
  BY DEF FiveKAttempt, Idle, SearchInv, SearchTypes
<1>2. FiveKState(pages, pool, attempt, best, candidates, beam, ticket, reply)
  BY <1>1 DEF SearchInv
<1>3. PICK page \in Slates : pages = <<page>> /\ FiveKPage(page, pool, attempt, best, candidates)
  BY <1>1, <1>2 DEF FiveKState
<1>4. /\ BestSoFar \in Seq(Picks)
      /\ FiveKPage(page, pool, attempt, BestSoFar, candidates)
  BY <1>2, <1>3, BestIsSound DEF FiveKState
<1>5. PICK shuffled \in SetToSeqs(ToSet(pool)) : Optimize(shuffled)
  BY DEF FiveKAttempt
<1>6. pool = Pool(LoopPredictions(page)) /\ pool \in Seq(Picks)
  BY <1>3, LoopOutcomes, PoolElements DEF FiveKPage
<1>7. shuffled \in Seq(Picks)
  BY <1>5, <1>6, ShuffledElements
<1>8. candidates' = Prepare(shuffled) /\ SearchOf(candidates', beam', ticket')
  BY <1>5, <1>7, OptimizeStarts DEF Optimize
<1>9. Covers(candidates', OffersOf("5k", Unfiltered, Events(pool), page), FALSE)
  BY <1>5, <1>6, <1>8, FiveKCovers
<1>10. attempt' \in Nat /\ attempt' # 0
  BY <1>1
<1>11. FiveKPage(page, pool, attempt', best', candidates')
  BY <1>1, <1>4, <1>9, <1>10 DEF FiveKPage
<1>12. FiveKState(pages, pool, attempt', best', candidates', beam', ticket', reply)
  BY <1>1, <1>3, <1>10, <1>11 DEF FiveKState
<1>13. SearchTypes'
  BY <1>1, <1>4, <1>8, <1>10 DEF SearchInv, SearchTypes, Fetches
<1> QED
  BY <1>1, <1>12, <1>13 DEF SearchInv

LEMMA FiveKAnswers ==
    ASSUME FiveKEnds, SearchInv
    PROVE  SearchInv'
<1>1. /\ strategy = "5k" /\ reply = "none" /\ pages # <<>> /\ beam = <<>>
      /\ pool = <<>> \/ attempt = Attempts
      /\ UNCHANGED <<candidates, beam, ticket, wanted, pages, strategy, pool, attempt>>
      /\ best' = BestSoFar
      /\ reply' = IF best' = <<>> THEN "422" ELSE "200"
  BY DEF FiveKEnds, Idle, Answer, Reply, search
<1>2. FiveKState(pages, pool, attempt, best, candidates, beam, ticket, reply)
  BY <1>1 DEF SearchInv
<1>3. PICK page \in Slates : pages = <<page>> /\ FiveKPage(page, pool, attempt, best, candidates)
  BY <1>1, <1>2 DEF FiveKState
<1>4. /\ BestSoFar \in Seq(Picks)
      /\ FiveKPage(page, pool, attempt, BestSoFar, candidates)
      /\ BestSoFar = <<>> => best = <<>> /\ ticket = <<>>
  BY <1>2, <1>3, BestIsSound DEF FiveKState
<1>5. pool = <<>> \/ attempt # 0
  BY <1>1, GeneratorsAssumption
<1>6. attempt = 0 => best' = <<>>
  <2>1. attempt = 0 => ticket = <<>> /\ best = <<>>
    BY <1>2 DEF FiveKState
  <2> QED
    BY <2>1, <1>1 DEF BestSoFar
<1>7. FiveKState(pages, pool, attempt, best', candidates, beam, ticket, reply')
  BY <1>1, <1>2, <1>3, <1>4, <1>5, <1>6 DEF FiveKState
<1>8. SearchTypes'
  BY <1>1, <1>4 DEF SearchInv, SearchTypes, Fetches
<1> QED
  BY <1>1, <1>7, <1>8 DEF SearchInv

LEMMA OthersKeep ==
    ASSUME WeeklyStart \/ WeeklyStep \/ WeeklyEnds \/ RouteFetches \/ RouteOutage \/ RouteEnds,
           SearchInv
    PROVE  SearchInv'
<1>1. CASE strategy \in Routes \cup {"weekly"} /\ strategy' = strategy /\ SearchTypes'
  BY <1>1 DEF SearchInv, SearchTypes, Routes
<1>2. SearchTypes
  BY DEF SearchInv
<1>3. CASE WeeklyStart
  <2>1. /\ strategy = "weekly"
        /\ UNCHANGED <<candidates, beam, ticket, wanted, reply, strategy, pool, attempt, best>>
        /\ \E page \in Slates : pages' = <<page>>
    BY <1>3 DEF WeeklyStart, Fresh, search, fiveK
  <2>2. SearchTypes'
    BY <2>1, <1>2, OnePage DEF SearchTypes, Routes
  <2> QED
    BY <1>1, <2>1, <2>2
<1>4. CASE WeeklyStep
  <2>1. UNCHANGED <<candidates, beam, ticket, wanted, pages, reply, strategy, pool, attempt, best>>
    BY <1>4 DEF WeeklyStep, vars, fiveK
  <2>2. Events(pool)' = Events(pool) /\ Fetches' = Fetches
    BY <2>1 DEF Events, Fetches
  <2> QED
    BY <2>1, <2>2 DEF SearchInv, SearchTypes
<1>5. CASE WeeklyEnds
  <2>1. /\ strategy = "weekly" /\ strategy' = strategy
        /\ UNCHANGED <<candidates, beam, ticket, wanted, pages, pool, attempt, best>>
        /\ reply' \in {"200", "422"}
    BY <1>5 DEF WeeklyEnds, Idle, Answer, Reply, search, fiveK
  <2>2. SearchTypes'
    BY <2>1, <1>2 DEF SearchTypes, Fetches
  <2> QED
    BY <1>1, <2>1, <2>2
<1>6. CASE RouteFetches
  <2>1. /\ strategy \in Routes /\ strategy' = strategy /\ Len(pages) < Fetches
        /\ UNCHANGED <<candidates, beam, ticket, wanted, reply, pool, attempt, best>>
    BY <1>6 DEF RouteFetches, search, fiveK
  <2>2. PICK page \in Feed \cup {<<>>} : pages' = Append(pages, page)
    BY <1>6 DEF RouteFetches
  <2>3. pages \in Seq(Feed \cup Slates \cup {<<>>})
    BY <1>2 DEF SearchTypes
  <2>4. /\ pages' \in Seq(Feed \cup Slates \cup {<<>>}) /\ Len(pages') = Len(pages) + 1
        /\ Len(pages) \in Nat
    BY <2>2, <2>3, AppendProperties, LenProperties
  <2>5. Fetches' = Fetches /\ Fetches \in Nat
    BY <2>1 DEF Fetches
  <2>6. Len(pages') <= Fetches'
    BY <2>1, <2>4, <2>5
  <2>7. SearchTypes'
    BY <2>1, <2>4, <2>6, <1>2 DEF SearchTypes
  <2> QED
    BY <1>1, <2>1, <2>7
<1>7. CASE RouteOutage \/ RouteEnds
  <2>1. /\ strategy \in Routes /\ strategy' = strategy
        /\ UNCHANGED <<candidates, beam, ticket, wanted, pages, pool, attempt, best>>
        /\ reply' \in {"422", "500", "502"}
    BY <1>7 DEF RouteOutage, RouteEnds, Reply, search, fiveK
  <2>2. SearchTypes'
    BY <2>1, <1>2 DEF SearchTypes, Fetches
  <2> QED
    BY <1>1, <2>1, <2>2
<1> QED
  BY <1>3, <1>4, <1>5, <1>6, <1>7

LEMMA SearchInvKept ==
    ASSUME SearchInv, [GeneratorsNext]_allVars
    PROVE  SearchInv'
<1>1. CASE Custom
  <2>1. strategy = "custom" /\ strategy' = strategy /\ UNCHANGED <<fiveK, weekly>> /\ Next
    BY <1>1 DEF Custom
  <2>2. CASE Search
    BY <2>1, <2>2, SearchPages
  <2>3. CASE Refuse \/ NoEvents \/ Outage \/ Found \/ GiveUp
    BY <2>1, <2>3, SearchAnswers
  <2>4. CASE OptimizerRound
    BY <2>1, <2>4, RoundKeeps DEF OptimizerRound
  <2>5. CASE Answered
    <3>1. UNCHANGED <<candidates, beam, ticket, wanted, pages, reply, strategy, pool, attempt, best>>
      BY <2>1, <2>5 DEF Answered, vars, fiveK
    <3>2. Events(pool)' = Events(pool) /\ Fetches' = Fetches
      BY <3>1 DEF Events, Fetches
    <3> QED
      BY <3>1, <3>2 DEF SearchInv, SearchTypes
  <2> QED
    BY <2>1, <2>2, <2>3, <2>4, <2>5 DEF Next
<1>2. CASE StrategyRound
  BY <1>2, RoundKeeps DEF StrategyRound, OptimizerRound
<1>3. CASE OneK \/ OneKEnds \/ FiveK \/ FiveKAttempt \/ FiveKEnds
  BY <1>3, OneKStarts, OneKAnswers, FiveKStarts, AttemptKeeps, FiveKAnswers
<1>4. CASE WeeklyStart \/ WeeklyStep \/ WeeklyEnds \/ RouteFetches \/ RouteOutage \/ RouteEnds
  BY <1>4, OthersKeep
<1>5. CASE GeneratorAnswered \/ UNCHANGED allVars
  <2>1. UNCHANGED <<candidates, beam, ticket, wanted, pages, reply, strategy, pool, attempt, best>>
    BY <1>5 DEF GeneratorAnswered, allVars, vars, fiveK
  <2>2. Events(pool)' = Events(pool) /\ Fetches' = Fetches
    BY <2>1 DEF Events, Fetches
  <2> QED
    BY <2>1, <2>2 DEF SearchInv, SearchTypes
<1> QED
  BY <1>1, <1>2, <1>3, <1>4, <1>5 DEF GeneratorsNext

(* The first state of the beam is the heaviest of its length, and nothing of  *)
(* its length or less exceeds the target (while states of optimize).          *)
THEOREM SearchIsInvariant == GeneratorsSpec => []SearchInv
  BY SearchInvStarts, SearchInvKept, PTL DEF GeneratorsSpec

-----------------------------------------------------------------------------
(* What it says of an answer.                                              *)

LEMMA OffersAre ==
    ASSUME NEW page, SearchTypes
    PROVE  /\ strategy = "custom" =>
                 Offers(page) = OffersOf("custom", wanted, Events(pool), page)
           /\ strategy \in {"1k", "5k"} =>
                 Offers(page) = OffersOf(strategy, Unfiltered, Events(pool), page)
           /\ Offering(page) = EventsOffered(Offers(page))
<1>1. Offers(page) = OffersOf(strategy, wanted, Events(pool), page)
  BY DEF Offers, OffersOf
<1> QED
  BY <1>1 DEF Offering, EventsOffered, SearchTypes

(* The ticket of a 200 is sound and has the fewest legs; its page is the last. *)
LEMMA ResultIsSound ==
    ASSUME SearchInv, Optimizing, reply = "200"
    PROVE  /\ Sound(Result, Offers(pages[Len(pages)]))
           /\ Fewest(Result, Offers(pages[Len(pages)]), Apart)
<1> DEFINE page == pages[Len(pages)]
<1>0. SearchTypes /\ strategy \in {"custom", "1k", "5k"}
  BY DEF SearchInv, Optimizing
<1>1. /\ candidates \in Seq(Picks)
      /\ ticket # <<>> => Shortest(ticket, ToSet(candidates))
  BY DEF SearchInv, SearchTypes, SearchOf
<1>2. CASE strategy = "custom"
  <2>1. ticket # <<>> /\ pages # <<>> /\ pages \in Seq(Feed)
    BY <1>2 DEF SearchInv, CustomState
  <2>2. page \in Feed
    <3>1. Len(pages) \in Nat \ {0}
      BY <2>1, EmptySeq
    <3> QED
      BY <3>1, <2>1, LenProperties
  <2> DEFINE offers == OffersOf("custom", wanted, Events(pool), page)
  <2>3. Covers(candidates, offers, FALSE)
    BY <1>2, <2>1 DEF SearchInv, CustomState
  <2>4. offers \in SUBSET Outcomes /\ IsFiniteSet(offers)
    BY <2>2, OffersElements
  <2>5. offers = Offers(page)
    BY <1>0, <1>2, OffersAre
  <2> HIDE DEF offers, page
  <2>6. Sound(ticket, offers) /\ Fewest(ticket, offers, FALSE)
    BY <1>1, <2>1, <2>3, <2>4, ShortestIsSound
  <2>7. Result = ticket /\ Apart = FALSE
    BY <1>2 DEF Result, Apart
  <2> QED
    BY <2>5, <2>6, <2>7 DEF page
<1>3. CASE strategy = "1k"
  <2>1. ticket # <<>> /\ pages # <<>>
    BY <1>3 DEF SearchInv, OneKState
  <2>2. PICK slate \in Slates :
           pages = <<slate>> /\ Covers(candidates, OffersOf("1k", Unfiltered, Events(pool), slate), TRUE)
    BY <1>3, <2>1 DEF SearchInv, OneKState
  <2> DEFINE offers == OffersOf("1k", Unfiltered, Events(pool), slate)
  <2>3. page = slate
    BY <2>2
  <2>4. offers \in SUBSET Outcomes /\ IsFiniteSet(offers)
    BY OffersElements
  <2>5. offers = Offers(page)
    BY <1>0, <1>3, <2>3, OffersAre
  <2>6. Covers(candidates, offers, TRUE)
    BY <2>2
  <2> HIDE DEF offers, page
  <2>7. Sound(ticket, offers) /\ Fewest(ticket, offers, TRUE)
    BY <1>1, <2>1, <2>4, <2>6, ShortestIsSound
  <2>8. Result = ticket /\ Apart = TRUE
    BY <1>3 DEF Result, Apart
  <2> QED
    BY <2>5, <2>7, <2>8 DEF page
<1>4. CASE strategy = "5k"
  <2>1. FiveKState(pages, pool, attempt, best, candidates, beam, ticket, reply)
    BY <1>4 DEF SearchInv
  <2>2. pages # <<>> /\ best # <<>>
    BY <2>1 DEF FiveKState
  <2>3. PICK slate \in Slates : pages = <<slate>> /\ FiveKPage(slate, pool, attempt, best, candidates)
    BY <2>1, <2>2 DEF FiveKState
  <2> DEFINE offers == OffersOf("5k", Unfiltered, Events(pool), slate)
  <2>4. page = slate
    BY <2>3
  <2>5. Sound(best, offers) /\ Fewest(best, offers, FALSE)
    BY <2>2, <2>3 DEF FiveKPage
  <2>6. offers = Offers(page)
    BY <1>0, <1>4, <2>4, OffersAre
  <2> HIDE DEF offers, page
  <2>7. Result = best /\ Apart = FALSE
    BY <1>4 DEF Result, Apart
  <2> QED
    BY <2>5, <2>6, <2>7 DEF page
<1> QED
  BY <1>0, <1>2, <1>3, <1>4

(* An answered ticket reaches the target odds with live outcomes of the last *)
(* page, one of each event, and without its last selection it would not      *)
(* exceed them (OddsOptimizer.optimize and what its callers give it).        *)
THEOREM TicketIsSoundAlways == GeneratorsSpec => []TicketIsSound
<1>1. SearchInv => TicketIsSound
  BY ResultIsSound DEF TicketIsSound, Sound
<1> QED
  BY <1>1, SearchIsInvariant, PTL

(* No ticket of fewer events of that page exceeds the target: what the beam  *)
(* cuts off was never a shorter way (optimize, states[:beam_width]).         *)
THEOREM FewestLegsAlways == GeneratorsSpec => []FewestLegs
<1>1. ASSUME SearchInv, Optimizing, reply = "200"
      PROVE  \A events \in SUBSET Offering(pages[Len(pages)]) :
                Cardinality(events) < Len(Result) =>
                    EventsLog(Offers(pages[Len(pages)]), Apart, events) <= Target
  <2> DEFINE page == pages[Len(pages)]
  <2>1. Fewest(Result, Offers(page), Apart)
    BY <1>1, ResultIsSound
  <2>2. Offering(page) = EventsOffered(Offers(page))
    BY <1>1, OffersAre DEF SearchInv
  <2> HIDE DEF page
  <2>3. \A events \in SUBSET Offering(page) :
           Cardinality(events) < Len(Result) => EventsLog(Offers(page), Apart, events) <= Target
    BY <2>1, <2>2 DEF Fewest
  <2> QED
    BY <2>3 DEF page
<1>2. SearchInv => FewestLegs
  BY <1>1 DEF FewestLegs
<1> QED
  BY <1>2, SearchIsInvariant, PTL

LEMMA NothingOffered ==
    ASSUME NEW apart
    PROVE  Hopeless({}, apart)
<1>1. EventsOffered({}) = {}
  BY DEF EventsOffered
<1> DEFINE f == [e \in {} |-> EventLog({}, apart, e)]
<1>2. f \in [{} -> Int]
  OBVIOUS
<1>3. EventsLog({}, apart, {}) = SumFunction(f)
  BY DEF EventsLog
<1> HIDE DEF f
<1>4. EventsLog({}, apart, {}) = 0
  BY <1>2, <1>3, SumEmpty
<1> QED
  BY <1>1, <1>4, OddsOptimizerAssumption DEF Hopeless

LEMMA PassedIsHopeless ==
    ASSUME SearchInv, Optimizing, NEW n \in DOMAIN pages,
           n < Len(pages) \/ reply \in {"422", "502"}
    PROVE  Hopeless(Offers(pages[n]), Apart)
<1>0. SearchTypes /\ strategy \in {"custom", "1k", "5k"}
  BY DEF SearchInv, Optimizing
<1>1. /\ candidates \in Seq(Picks)
      /\ beam = <<>> /\ ticket = <<>> => Exhausted(ToSet(candidates))
  BY DEF SearchInv, SearchTypes, SearchOf
<1>2. pages \in Seq(Feed \cup Slates \cup {<<>>})
  BY <1>0 DEF SearchTypes
<1>3. Len(pages) \in Nat /\ n \in 1..Len(pages) /\ pages # <<>>
  BY <1>2, LenProperties
<1>4. CASE strategy = "custom"
  <2>1. CustomState(wanted, pages, Events(pool), candidates, beam, ticket, reply)
    BY <1>4 DEF SearchInv
  <2>2. Offers(pages[n]) = OffersOf("custom", wanted, Events(pool), pages[n]) /\ Apart = FALSE
    BY <1>0, <1>4, OffersAre DEF Apart
  <2>3. CASE n < Len(pages)
    <3>1. n \in 1..(Len(pages) - 1)
      BY <2>3, <1>3
    <3> QED
      BY <3>1, <2>1, <2>2 DEF CustomState
  <2>4. CASE ~(n < Len(pages))
    <3>1. n = Len(pages) /\ beam = <<>> /\ ticket = <<>>
      BY <2>1, <2>4, <1>3 DEF CustomState
    <3> QED
      BY <3>1, <2>2, <1>3, <1>4, PageHopeless
  <2> QED
    BY <2>3, <2>4
<1>5. CASE strategy = "1k"
  <2>1. OneKState(pages, Events(pool), candidates, beam, ticket, reply)
    BY <1>5 DEF SearchInv
  <2>2. PICK slate \in Slates :
           pages = <<slate>> /\ Covers(candidates, OffersOf("1k", Unfiltered, Events(pool), slate), TRUE)
    BY <2>1, <1>3 DEF OneKState
  <2> DEFINE offers == OffersOf("1k", Unfiltered, Events(pool), slate)
  <2>3. n = 1 /\ pages[n] = slate /\ ~(n < Len(pages))
    BY <2>2, <1>3
  <2>4. Exhausted(ToSet(candidates))
    BY <2>1, <2>3, <1>1 DEF OneKState
  <2>5. offers \in SUBSET Outcomes /\ IsFiniteSet(offers)
    BY OffersElements
  <2>6. offers = Offers(pages[n]) /\ Apart = TRUE
    BY <1>0, <1>5, <2>3, OffersAre DEF Apart
  <2>7. Covers(candidates, offers, TRUE)
    BY <2>2
  <2> HIDE DEF offers
  <2>8. Hopeless(offers, TRUE)
    BY <1>1, <2>4, <2>5, <2>7, ExhaustedIsHopeless
  <2> QED
    BY <2>6, <2>8
<1>6. CASE strategy = "5k"
  <2>1. FiveKState(pages, pool, attempt, best, candidates, beam, ticket, reply)
    BY <1>6 DEF SearchInv
  <2>2. PICK slate \in Slates : pages = <<slate>> /\ FiveKPage(slate, pool, attempt, best, candidates)
    BY <2>1, <1>3 DEF FiveKState
  <2> DEFINE offers == OffersOf("5k", Unfiltered, Events(pool), slate)
  <2>3. n = 1 /\ pages[n] = slate /\ ~(n < Len(pages))
    BY <2>2, <1>3
  <2>4. beam = <<>> /\ ticket = <<>> /\ (pool = <<>> \/ attempt # 0)
    BY <2>1, <2>3 DEF FiveKState
  <2>5. offers \in SUBSET Outcomes /\ IsFiniteSet(offers)
    BY OffersElements
  <2>6. offers = Offers(pages[n]) /\ Apart = FALSE
    BY <1>0, <1>6, <2>3, OffersAre DEF Apart
  <2>7. CASE pool = <<>>
    <3>1. offers = {}
      BY <2>7, NoElements DEF OffersOf
    <3> QED
      BY <3>1, <2>6, NothingOffered
  <2>8. CASE attempt # 0
    <3>1. Covers(candidates, offers, FALSE)
      BY <2>2, <2>8 DEF FiveKPage
    <3> HIDE DEF offers
    <3>2. Hopeless(offers, FALSE)
      BY <1>1, <2>4, <2>5, <3>1, ExhaustedIsHopeless
    <3> QED
      BY <3>2, <2>6
  <2> QED
    BY <2>4, <2>7, <2>8
<1> QED
  BY <1>0, <1>4, <1>5, <1>6

(* A request moves past a page, or answers that there is no ticket, only     *)
(* when all events of the page together do not exceed the target: the beam   *)
(* search loses no ticket (OddsOptimizer.optimize, generate_custom).         *)
THEOREM NothingMissedAlways == GeneratorsSpec => []NothingMissed
<1>1. ASSUME SearchInv, Optimizing, NEW n \in DOMAIN pages,
             n < Len(pages) \/ reply \in {"422", "502"}
      PROVE  EventsLog(Offers(pages[n]), Apart, Offering(pages[n])) <= Target
  <2>1. Hopeless(Offers(pages[n]), Apart)
    BY <1>1, PassedIsHopeless
  <2>2. Offering(pages[n]) = EventsOffered(Offers(pages[n]))
    BY <1>1, OffersAre DEF SearchInv
  <2> QED
    BY <2>1, <2>2 DEF Hopeless
<1>2. SearchInv => NothingMissed
  BY <1>1 DEF NothingMissed
<1> QED
  BY <1>2, SearchIsInvariant, PTL

-----------------------------------------------------------------------------
(* The merged list of the weekly endpoint.                                 *)

(* f lists the numbers of L in ascending order. *)
Enumerates(N, L, f) ==
    /\ f \in [1..N -> L]
    /\ \A x \in L : \E n \in 1..N : f[n] = x
    /\ \A m, n \in 1..N : m < n => f[m] < f[n]

LEMMA OneEnumeration ==
    ASSUME NEW N \in Nat, NEW L \in SUBSET Int, NEW f, NEW h,
           Enumerates(N, L, f), Enumerates(N, L, h)
    PROVE  \A n \in 1..N : f[n] = h[n]
<1> USE DEF Enumerates
<1> DEFINE D == {n \in 1..N : f[n] # h[n]}
<1> SUFFICES ASSUME D # {} PROVE FALSE
  OBVIOUS
<1>1. D \in SUBSET Nat
  OBVIOUS
<1>2. PICK n \in D : \A m \in D : n <= m
  <2> HIDE DEF D
  <2> QED
    BY <1>1, LeastOf
<1>3. n \in 1..N /\ f[n] # h[n] /\ f[n] \in L /\ h[n] \in L /\ f[n] \in Int /\ h[n] \in Int
  OBVIOUS
<1>4. \A m \in 1..N : m < n => f[m] = h[m]
  BY <1>2, <1>3
<1> HIDE DEF D
<1>5. CASE f[n] < h[n]
  <2>1. PICK j \in 1..N : h[j] = f[n]
    BY <1>3
  <2>2. ~(j < n)
    BY <2>1, <1>3, <1>4
  <2>3. ~(n < j) /\ j # n
    BY <2>1, <1>3, <1>5
  <2> QED
    BY <2>2, <2>3, <1>3
<1>6. CASE h[n] < f[n]
  <2>1. PICK j \in 1..N : f[j] = h[n]
    BY <1>3
  <2>2. ~(j < n)
    BY <2>1, <1>3, <1>4
  <2>3. ~(n < j) /\ j # n
    BY <2>1, <1>3, <1>6
  <2> QED
    BY <2>2, <2>3, <1>3
<1> QED
  BY <1>3, <1>5, <1>6

(* The elements of s at K are those of u at L, one by one. *)
Corresponds(s, K, u, L) ==
    \E g \in [K -> L] :
        /\ \A j \in L : \E i \in K : g[i] = j
        /\ \A i, j \in K : i < j => g[i] < g[j]
        /\ \A i \in K : s[i] = u[g[i]]

LEMMA SameKept ==
    ASSUME NEW E, NEW s \in Seq(E), NEW u \in Seq(E),
           NEW K \in SUBSET DOMAIN s, NEW L \in SUBSET DOMAIN u, Corresponds(s, K, u, L)
    PROVE  Kept(s, K) = Kept(u, L)
<1> DEFINE N == Cardinality(K)
           M == Cardinality(L)
<1>1. PICK g \in [K -> L] :
         /\ \A j \in L : \E i \in K : g[i] = j
         /\ \A i, j \in K : i < j => g[i] < g[j]
         /\ \A i \in K : s[i] = u[g[i]]
  BY DEF Corresponds
<1>2. /\ IsFiniteSet(K) /\ N \in Nat /\ Kept(s, K) \in Seq(E) /\ Len(Kept(s, K)) = N
      /\ Selects(s, K, Kept(s, K))
  BY KeptElements
<1>3. /\ IsFiniteSet(L) /\ M \in Nat /\ Kept(u, L) \in Seq(E) /\ Len(Kept(u, L)) = M
      /\ Selects(u, L, Kept(u, L))
  BY KeptElements
<1>4. K \in SUBSET Int /\ L \in SUBSET Int
  <2>1. DOMAIN s \in SUBSET Int /\ DOMAIN u \in SUBSET Int
    BY LenProperties
  <2> QED
    BY <2>1
<1>5. M = N
  <2>1. \A i, j \in K : g[i] = g[j] => i = j
    <3> SUFFICES ASSUME NEW i \in K, NEW j \in K, g[i] = g[j], i # j PROVE FALSE
      OBVIOUS
    <3>1. i < j \/ j < i
      BY <1>4
    <3>2. g[i] \in Int
      BY <1>1, <1>4
    <3> QED
      BY <3>1, <3>2, <1>1
  <2>2. g \in Injection(K, L)
    BY <1>1, <2>1 DEF Injection, IsInjective
  <2>3. g \in Surjection(K, L)
    BY <1>1 DEF Surjection
  <2> QED
    BY <2>2, <2>3, <1>2, <1>3, FS_Injection
<1> HIDE DEF N, M
<1>6. PICK at \in [1..N -> K] :
         /\ \A n \in 1..N : Kept(s, K)[n] = s[at[n]]
         /\ \A i \in K : \E n \in 1..N : at[n] = i
         /\ \A m, n \in 1..N : m < n => at[m] < at[n]
  BY <1>2 DEF Selects, N
<1>7. PICK to \in [1..N -> L] :
         /\ \A n \in 1..N : Kept(u, L)[n] = u[to[n]]
         /\ \A i \in L : \E n \in 1..N : to[n] = i
         /\ \A m, n \in 1..N : m < n => to[m] < to[n]
  BY <1>3, <1>5 DEF Selects, M
<1> DEFINE f == [n \in 1..N |-> g[at[n]]]
<1>8. f \in [1..N -> L] /\ \A n \in 1..N : f[n] = g[at[n]]
  BY <1>1, <1>6
<1> HIDE DEF f
<1>9. \A x \in L : \E n \in 1..N : f[n] = x
  BY <1>1, <1>6, <1>8
<1>10. ASSUME NEW m \in 1..N, NEW n \in 1..N, m < n PROVE f[m] < f[n]
  <2>1. at[m] \in K /\ at[n] \in K /\ at[m] < at[n]
    BY <1>6, <1>10
  <2>2. g[at[m]] < g[at[n]]
    BY <2>1, <1>1
  <2> QED
    BY <2>2, <1>8
<1>11. \A n \in 1..N : f[n] = to[n]
  <2>1. Enumerates(N, L, f)
    BY <1>8, <1>9, <1>10 DEF Enumerates
  <2>2. Enumerates(N, L, to)
    BY <1>7 DEF Enumerates
  <2> QED
    BY <2>1, <2>2, <1>2, <1>4, OneEnumeration
<1>12. \A n \in 1..N : Kept(s, K)[n] = Kept(u, L)[n]
  <2> TAKE n \in 1..N
  <2>1. at[n] \in K /\ g[at[n]] = to[n]
    BY <1>6, <1>8, <1>11
  <2> QED
    BY <2>1, <1>1, <1>6, <1>7
<1> QED
  BY <1>2, <1>3, <1>5, <1>12, SeqEqual

(* The outcomes of one market of an event. *)
At(list, key) == {n \in DOMAIN list : EventMarketOf(list[n]) = key}

Keys(list) == {EventMarketOf(o) : o \in ToSet(list)}

LEMMA KeysAre ==
    ASSUME NEW E, NEW list \in Seq(E)
    PROVE  \A key : key \in Keys(list) <=> At(list, key) # {}
<1>1. ToSet(list) = {list[n] : n \in DOMAIN list}
  BY DEF ToSet
<1> QED
  BY <1>1 DEF Keys, At

(* The first list and what only the second has. *)
NewIn(first, second) == {n \in DOMAIN second : EventMarketOf(second[n]) \notin Keys(first)}

Both(first, second) == first \o Kept(second, NewIn(first, second))

LEMMA BothElements ==
    ASSUME NEW first \in Seq(Outcomes), NEW second \in Seq(Outcomes)
    PROVE  /\ Both(first, second) \in Seq(Outcomes)
           /\ \A key \in Keys(first) :
                 Corresponds(Both(first, second), At(Both(first, second), key),
                             first, At(first, key))
           /\ \A key : key \notin Keys(first) =>
                 Corresponds(Both(first, second), At(Both(first, second), key),
                             second, At(second, key))
<1> DEFINE K == NewIn(first, second)
           both == Both(first, second)
           N == Len(first)
           M == Cardinality(K)
           rest == Kept(second, K)
<1>0. both = first \o rest
  BY DEF Both
<1>1. /\ K \in SUBSET DOMAIN second
      /\ \A n \in DOMAIN second : n \in K <=> EventMarketOf(second[n]) \notin Keys(first)
  BY DEF NewIn
<1> HIDE DEF K, both
<1>2. M \in Nat /\ rest \in Seq(Outcomes) /\ Len(rest) = M /\ Selects(second, K, rest)
  BY <1>1, KeptElements
<1> HIDE DEF M, rest
<1>3. PICK at \in [1..M -> K] :
         /\ \A n \in 1..M : rest[n] = second[at[n]]
         /\ \A i \in K : \E n \in 1..M : at[n] = i
         /\ \A m, n \in 1..M : m < n => at[m] < at[n]
  BY <1>2 DEF Selects, M
<1>4. N \in Nat /\ DOMAIN first = 1..N
  BY LenProperties
<1> HIDE DEF N
<1>5. /\ both \in Seq(Outcomes) /\ DOMAIN both = 1..(N + M)
      /\ \A n \in 1..N : both[n] = first[n]
      /\ \A n \in 1..M : both[N + n] = rest[n]
  <2>2. both \in Seq(Outcomes) /\ Len(both) = N + M
    BY <1>0, <1>2, ConcatProperties DEF N
  <2>3. \A n \in 1..(N + M) : both[n] = IF n <= N THEN first[n] ELSE rest[n - N]
    BY <1>0, <1>2, ConcatProperties DEF N
  <2>4. \A n \in 1..N : both[n] = first[n]
    BY <2>3, <1>2, <1>4
  <2>5. ASSUME NEW n \in 1..M PROVE both[N + n] = rest[n]
    <3>1. N + n \in 1..(N + M) /\ ~(N + n <= N) /\ (N + n) - N = n
      BY <1>2, <1>4
    <3> QED
      BY <3>1, <2>3
  <2>6. DOMAIN both = 1..(N + M)
    BY <2>2, LenProperties
  <2> QED
    BY <2>2, <2>4, <2>5, <2>6
<1>6. \A n \in 1..M : EventMarketOf(both[N + n]) \notin Keys(first)
  <2> TAKE n \in 1..M
  <2>1. both[N + n] = second[at[n]] /\ at[n] \in K
    BY <1>3, <1>5
  <2> QED
    BY <2>1, <1>1
<1>7. \A n \in 1..N : EventMarketOf(both[n]) \in Keys(first)
  BY <1>4, <1>5 DEF Keys, ToSet
<1>8. \A i \in 1..(N + M) : i \in 1..N \/ (i - N \in 1..M /\ i = N + (i - N))
  BY <1>2, <1>4
<1>9. ASSUME NEW key \in Keys(first)
      PROVE  Corresponds(both, At(both, key), first, At(first, key))
  <2>1. At(both, key) = At(first, key)
    <3>1. ASSUME NEW i \in At(both, key) PROVE i \in At(first, key)
      <4>1. i \in 1..(N + M) /\ EventMarketOf(both[i]) = key
        BY <1>5 DEF At
      <4>2. i \in 1..N
        BY <4>1, <1>6, <1>8
      <4> QED
        BY <4>1, <4>2, <1>4, <1>5 DEF At
    <3>2. ASSUME NEW i \in At(first, key) PROVE i \in At(both, key)
      <4>1. i \in 1..N /\ EventMarketOf(first[i]) = key
        BY <1>4 DEF At
      <4>2. i \in 1..(N + M)
        BY <4>1, <1>2, <1>4
      <4> QED
        BY <4>1, <4>2, <1>5 DEF At
    <3> QED
      BY <3>1, <3>2
  <2> DEFINE g == [i \in At(both, key) |-> i]
  <2>2. g \in [At(both, key) -> At(first, key)] /\ \A i \in At(both, key) : g[i] = i
    BY <2>1
  <2>3. \A i \in At(both, key) : both[i] = first[i]
    BY <2>1, <1>4, <1>5 DEF At
  <2> HIDE DEF g
  <2>4. \A j \in At(first, key) : \E i \in At(both, key) : g[i] = j
    BY <2>1, <2>2
  <2>5. \A i, j \in At(both, key) : i < j => g[i] < g[j]
    BY <2>2
  <2>6. \A i \in At(both, key) : both[i] = first[g[i]]
    BY <2>2, <2>3
  <2> QED
    BY <2>2, <2>4, <2>5, <2>6 DEF Corresponds
<1>10. ASSUME NEW key, key \notin Keys(first)
       PROVE  Corresponds(both, At(both, key), second, At(second, key))
  <2> DEFINE A == At(both, key)
             B == At(second, key)
             g == [i \in A |-> at[i - N]]
  <2>1. ASSUME NEW i \in A
        PROVE  i - N \in 1..M /\ i \in Nat /\ at[i - N] \in B /\ both[i] = second[at[i - N]]
    <3>1. i \in 1..(N + M) /\ EventMarketOf(both[i]) = key
      BY <1>5 DEF At
    <3>2. i - N \in 1..M /\ i = N + (i - N)
      BY <3>1, <1>7, <1>8, <1>10
    <3>3. both[i] = second[at[i - N]] /\ at[i - N] \in K
      BY <3>2, <1>3, <1>5
    <3>4. at[i - N] \in B
      BY <3>1, <3>3, <1>1 DEF At
    <3>5. i \in Nat
      BY <3>1
    <3> QED
      BY <3>2, <3>3, <3>4, <3>5
  <2>2. ASSUME NEW j \in B
        PROVE  \E i \in A : at[i - N] = j
    <3>1. j \in K
      BY <1>1, <1>10 DEF At
    <3>2. PICK n \in 1..M : at[n] = j
      BY <3>1, <1>3
    <3>3. N + n \in 1..(N + M) /\ (N + n) - N = n
      BY <1>2, <1>4
    <3>4. both[N + n] = second[j]
      BY <3>2, <1>3, <1>5
    <3>5. N + n \in A
      BY <3>3, <3>4, <1>5 DEF At
    <3> QED
      BY <3>2, <3>3, <3>5
  <2>3. ASSUME NEW i \in A, NEW j \in A, i < j PROVE at[i - N] < at[j - N]
    <3>1. i - N \in 1..M /\ j - N \in 1..M /\ i - N < j - N
      BY <2>1, <2>3, <1>4
    <3> QED
      BY <3>1, <1>3
  <2> HIDE DEF A, B
  <2>4. g \in [A -> B] /\ \A i \in A : g[i] = at[i - N]
    BY <2>1
  <2> HIDE DEF g
  <2>5. Corresponds(both, A, second, B)
    <3>1. \A j \in B : \E i \in A : g[i] = j
      BY <2>2, <2>4
    <3>2. \A i, j \in A : i < j => g[i] < g[j]
      BY <2>3, <2>4
    <3>3. \A i \in A : both[i] = second[g[i]]
      BY <2>1, <2>4
    <3> QED
      BY <2>4, <3>1, <3>2, <3>3 DEF Corresponds
  <2> QED
    BY <2>5 DEF A, B
<1> QED
  BY <1>5, <1>9, <1>10 DEF both

(* The positions of a sequence with the event of the outcome. *)
OfEvent(list, event) == {m \in DOMAIN list : list[m].event = event}

LEMMA MergedElements ==
    ASSUME NEW first \in Seq(Outcomes), NEW second \in Seq(Outcomes)
    PROVE  /\ Merged(first, second) \in Seq(Outcomes)
           /\ \A key : Corresponds(Merged(first, second), At(Merged(first, second), key),
                                   Both(first, second), At(Both(first, second), key))
<1> DEFINE both == Both(first, second)
           t == Merged(first, second)
           key == [o \in Outcomes |-> o.event]
           K == {i \in DOMAIN both : \A j \in 1..(i - 1) : both[j].event # both[i].event}
           evs == Kept(both, K)
           N == Cardinality(K)
           blocks == [n \in DOMAIN evs |-> Kept(both, OfEvent(both, evs[n].event))]
<1>1. both \in Seq(Outcomes)
  BY BothElements
<1>2. t = FlattenSeq(blocks)
  BY DEF Merged, Both, NewIn, Keys, FirstOfKey, OfEvent
<1> HIDE DEF both, t
<1>3. /\ Len(both) \in Nat /\ DOMAIN both = 1..Len(both)
      /\ \A i \in DOMAIN both : both[i] \in Outcomes /\ key[both[i]] = both[i].event
  BY <1>1, LenProperties
<1> HIDE DEF key
<1>4. K = Firsts(both, key)
  <2>1. \A i \in DOMAIN both : \A j \in 1..(i - 1) : j \in DOMAIN both
    BY <1>3
  <2> QED
    BY <2>1, <1>3 DEF Firsts
<1>5. K \in SUBSET DOMAIN both
  OBVIOUS
<1> HIDE DEF K
<1>6. /\ \A i \in DOMAIN both : \E k \in K : both[k].event = both[i].event
      /\ \A i, j \in K : both[i].event = both[j].event => i = j
  <2>1. /\ \A i \in DOMAIN both : \E k \in K : key[both[k]] = key[both[i]] /\ k <= i
        /\ \A i, j \in K : key[both[i]] = key[both[j]] => i = j
    BY <1>1, <1>4, FirstsCover
  <2>2. \A i \in K : key[both[i]] = both[i].event
    BY <1>3, <1>5
  <2> QED
    BY <2>1, <2>2, <1>3
<1>7. /\ N \in Nat /\ evs \in Seq(Outcomes) /\ Len(evs) = N /\ Selects(both, K, evs)
  BY <1>1, <1>5, KeptElements
<1>8. PICK to \in [1..N -> K] :
         /\ \A n \in 1..N : evs[n] = both[to[n]]
         /\ \A i \in K : \E n \in 1..N : to[n] = i
         /\ \A m, n \in 1..N : m < n => to[m] < to[n]
  BY <1>7 DEF Selects
<1> HIDE DEF evs, N
<1>9. /\ \A n \in 1..N : evs[n].event = both[to[n]].event
      /\ \A m, n \in 1..N : to[m] = to[n] => m = n
  <2>1. ASSUME NEW m \in 1..N, NEW n \in 1..N, to[m] = to[n] PROVE m = n
    <3>1. to[m] \in Int /\ to[n] \in Int
      BY <1>3, <1>5, <1>8
    <3>2. ~(m < n) /\ ~(n < m)
      BY <2>1, <3>1, <1>8
    <3> QED
      BY <3>2, <1>7
  <2>2. \A n \in 1..N : evs[n].event = both[to[n]].event
    BY <1>8
  <2> QED
    BY <2>1, <2>2
(* Every event has one block. *)
<1>10. \A m, n \in 1..N : evs[m].event = evs[n].event => m = n
  <2> TAKE m \in 1..N, n \in 1..N
  <2>1. to[m] \in K /\ to[n] \in K
    BY <1>8
  <2> QED
    BY <2>1, <1>6, <1>9
<1>11. ASSUME NEW j \in DOMAIN both PROVE \E n \in 1..N : evs[n].event = both[j].event
  <2>1. PICK k \in K : both[k].event = both[j].event
    BY <1>6
  <2>2. PICK n \in 1..N : to[n] = k
    BY <1>8
  <2> QED
    BY <2>1, <2>2, <1>9
<1> DEFINE P(n) == OfEvent(both, evs[n].event)
           Lists(n, at) == /\ at \in [1..Cardinality(P(n)) -> P(n)]
                           /\ \A m \in 1..Cardinality(P(n)) : Kept(both, P(n))[m] = both[at[m]]
                           /\ \A i \in P(n) : \E m \in 1..Cardinality(P(n)) : at[m] = i
                           /\ \A l, m \in 1..Cardinality(P(n)) : l < m => at[l] < at[m]
           w == [n \in 1..N |-> CHOOSE at : Lists(n, at)]
<1>12. DOMAIN evs = 1..N
  BY <1>7, LenProperties
<1>13. \A n : P(n) \in SUBSET DOMAIN both
  BY DEF OfEvent
<1>14. blocks = [n \in 1..N |-> Kept(both, P(n))]
  BY <1>12
<1>15. \A n : \A i \in DOMAIN both : i \in P(n) <=> both[i].event = evs[n].event
  BY DEF OfEvent
<1> HIDE DEF P
<1>16. ASSUME NEW n \in 1..N
       PROVE  /\ Kept(both, P(n)) \in Seq(Outcomes) /\ Len(Kept(both, P(n))) = Cardinality(P(n))
              /\ Lists(n, w[n])
  <2>1. /\ Kept(both, P(n)) \in Seq(Outcomes) /\ Len(Kept(both, P(n))) = Cardinality(P(n))
        /\ Selects(both, P(n), Kept(both, P(n)))
    BY <1>1, <1>13, KeptElements
  <2>2. \E at : Lists(n, at)
    BY <2>1 DEF Selects
  <2> HIDE DEF Lists
  <2> QED
    BY <2>1, <2>2
<1> HIDE DEF w, blocks
<1>17. blocks \in Seq(Seq(Outcomes)) /\ Len(blocks) = N /\ \A n \in 1..N : blocks[n] = Kept(both, P(n))
  BY <1>7, <1>14, <1>16
<1>18. t \in Seq(Outcomes) /\ Placed(blocks, N, t)
  BY <1>2, <1>17, FlattenElements
<1>19. PICK b, o : Places(blocks, N, t, b, o)
  BY <1>18 DEF Placed
<1> DEFINE l == Len(t)
<1>20. DOMAIN t = 1..l
  BY <1>18, LenProperties
<1> HIDE DEF l
<1>21. /\ \A i \in 1..l : /\ b[i] \in 1..N /\ o[i] \in 1..Len(blocks[b[i]])
                          /\ t[i] = blocks[b[i]][o[i]]
       /\ \A k \in 1..N : \A m \in 1..Len(blocks[k]) : \E i \in 1..l : b[i] = k /\ o[i] = m
       /\ \A i, j \in 1..l : i < j => b[i] < b[j] \/ (b[i] = b[j] /\ o[i] < o[j])
  BY <1>19 DEF Places, l
<1> DEFINE q == [i \in 1..l |-> w[b[i]][o[i]]]
<1>22. ASSUME NEW i \in 1..l
       PROVE  /\ q[i] = w[b[i]][o[i]] /\ q[i] \in DOMAIN both /\ t[i] = both[q[i]]
              /\ both[q[i]].event = evs[b[i]].event
  <2>1. b[i] \in 1..N /\ o[i] \in 1..Cardinality(P(b[i])) /\ t[i] = Kept(both, P(b[i]))[o[i]]
    BY <1>16, <1>17, <1>21
  <2>2. q[i] \in P(b[i]) /\ t[i] = both[q[i]]
    BY <2>1, <1>16
  <2> QED
    BY <2>1, <2>2, <1>13, <1>15
<1> HIDE DEF q
<1>23. ASSUME NEW k
       PROVE  Corresponds(t, At(t, k), both, At(both, k))
  <2> DEFINE A == At(t, k)
             B == At(both, k)
             g == [i \in A |-> q[i]]
  <2>1. \A i : i \in A <=> i \in 1..l /\ EventMarketOf(t[i]) = k
    BY <1>20 DEF At
  <2>2. \A i : i \in B <=> i \in DOMAIN both /\ EventMarketOf(both[i]) = k
    BY DEF At
  <2> HIDE DEF A, B
  <2>3. g \in [A -> B] /\ \A i \in A : g[i] = q[i] /\ t[i] = both[q[i]]
    BY <2>1, <2>2, <1>22
  <2> HIDE DEF g
  <2>4. ASSUME NEW i \in A, NEW j \in A, i < j PROVE g[i] < g[j]
    <3>1. both[q[i]].event = both[q[j]].event
      <4>1. EventMarketOf(both[q[i]]) = EventMarketOf(both[q[j]])
        BY <2>1, <2>3
      <4> QED
        BY <4>1 DEF EventMarketOf
    <3>0. i \in 1..l /\ j \in 1..l
      BY <2>1
    <3>2. b[i] = b[j] /\ b[i] \in 1..N
      <4>1. b[i] \in 1..N /\ b[j] \in 1..N
        BY <3>0, <1>21
      <4>2. evs[b[i]].event = evs[b[j]].event
        BY <3>0, <3>1, <1>22
      <4> QED
        BY <4>1, <4>2, <1>10
    <3>3. o[i] < o[j]
      <4>1. b[i] < b[j] \/ (b[i] = b[j] /\ o[i] < o[j])
        BY <2>1, <2>4, <1>21
      <4> QED
        BY <4>1, <3>2
    <3>4. o[i] \in 1..Cardinality(P(b[i])) /\ o[j] \in 1..Cardinality(P(b[i]))
      <4>1. o[i] \in 1..Len(blocks[b[i]]) /\ o[j] \in 1..Len(blocks[b[i]])
        BY <3>0, <3>2, <1>21
      <4>2. Len(blocks[b[i]]) = Cardinality(P(b[i]))
        BY <3>2, <1>16, <1>17
      <4> QED
        BY <4>1, <4>2
    <3>5. w[b[i]][o[i]] < w[b[i]][o[j]]
      BY <3>2, <3>3, <3>4, <1>16
    <3> QED
      BY <3>2, <3>5, <2>1, <2>3, <1>22
  <2>5. ASSUME NEW j \in B PROVE \E i \in A : g[i] = j
    <3>1. PICK n \in 1..N : evs[n].event = both[j].event
      BY <2>2, <1>11
    <3>2. j \in P(n)
      BY <3>1, <2>2, <1>15
    <3>3. PICK m \in 1..Cardinality(P(n)) : w[n][m] = j
      BY <3>2, <1>16
    <3>4. PICK i \in 1..l : b[i] = n /\ o[i] = m
      <4>1. Len(blocks[n]) = Cardinality(P(n))
        BY <1>16, <1>17
      <4>2. m \in 1..Len(blocks[n])
        BY <4>1
      <4> QED
        BY <4>2, <1>21
    <3>5. q[i] = j /\ t[i] = both[j]
      BY <3>3, <3>4, <1>22
    <3>6. i \in A
      BY <3>5, <2>1, <2>2
    <3> QED
      BY <3>5, <3>6, <2>3
  <2>6. Corresponds(t, A, both, B)
    BY <2>3, <2>4, <2>5 DEF Corresponds
  <2> QED
    BY <2>6 DEF A, B
<1> QED
  BY <1>18, <1>23 DEF both, t

LEMMA MergeKeeps ==
    ASSUME NEW first \in Seq(Outcomes), NEW second \in Seq(Outcomes),
           NEW list, list = Merged(first, second)
    PROVE  /\ Keys(list) = Keys(first) \cup Keys(second)
           /\ \A key \in Keys(list) :
                 \/ Kept(list, At(list, key)) = Kept(first, At(first, key))
                 \/ Kept(list, At(list, key)) = Kept(second, At(second, key))
<1> DEFINE both == Both(first, second)
<1>1. /\ list \in Seq(Outcomes) /\ both \in Seq(Outcomes)
      /\ \A key : Corresponds(list, At(list, key), both, At(both, key))
      /\ \A key \in Keys(first) : Corresponds(both, At(both, key), first, At(first, key))
      /\ \A key : key \notin Keys(first) =>
            Corresponds(both, At(both, key), second, At(second, key))
  BY BothElements, MergedElements
<1> HIDE DEF both
<1>2. \A key : /\ At(list, key) \in SUBSET DOMAIN list
               /\ At(both, key) \in SUBSET DOMAIN both
               /\ At(first, key) \in SUBSET DOMAIN first
               /\ At(second, key) \in SUBSET DOMAIN second
  BY DEF At
<1>3. \A s, K, u, L : Corresponds(s, K, u, L) => (K = {} <=> L = {})
  BY DEF Corresponds
<1>4. \A key : /\ key \in Keys(list) <=> At(list, key) # {}
               /\ key \in Keys(first) <=> At(first, key) # {}
               /\ key \in Keys(second) <=> At(second, key) # {}
  BY <1>1, KeysAre
<1>5. \A key : key \in Keys(list) <=> key \in Keys(first) \/ key \in Keys(second)
  <2> TAKE key
  <2>1. At(list, key) = {} <=> At(both, key) = {}
    BY <1>1, <1>3
  <2>2. CASE key \in Keys(first)
    BY <2>1, <2>2, <1>1, <1>3, <1>4
  <2>3. CASE key \notin Keys(first)
    BY <2>1, <2>3, <1>1, <1>3, <1>4
  <2> QED
    BY <2>2, <2>3
<1>6. ASSUME NEW key
      PROVE  \/ Kept(list, At(list, key)) = Kept(first, At(first, key))
             \/ Kept(list, At(list, key)) = Kept(second, At(second, key))
  <2>1. Kept(list, At(list, key)) = Kept(both, At(both, key))
    BY <1>1, <1>2, SameKept
  <2>2. CASE key \in Keys(first)
    <3>1. Kept(both, At(both, key)) = Kept(first, At(first, key))
      BY <2>2, <1>1, <1>2, SameKept
    <3> QED
      BY <2>1, <3>1
  <2>3. CASE key \notin Keys(first)
    <3>1. Kept(both, At(both, key)) = Kept(second, At(second, key))
      BY <2>3, <1>1, <1>2, SameKept
    <3> QED
      BY <2>1, <3>1
  <2> QED
    BY <2>2, <2>3
<1> QED
  BY <1>5, <1>6

(* The list the weekly endpoint merges has every market of an event that     *)
(* either answer had, as one of the answers had it (_merge of weekly_safe).  *)
THEOREM MergeKeepsMarketsAlways == GeneratorsSpec => []MergeKeepsMarkets
<1>1. ASSUME SearchInv, strategy = "weekly_route", Len(pages) = 2
      PROVE  /\ Keys(Fetched) = Keys(pages[1]) \cup Keys(pages[2])
             /\ \A key \in Keys(Fetched) : \E n \in {1, 2} :
                   Kept(Fetched, At(Fetched, key)) = Kept(pages[n], At(pages[n], key))
  <2>1. pages \in Seq(Feed \cup Slates \cup {<<>>})
    BY <1>1 DEF SearchInv, SearchTypes
  <2>2. pages[1] \in Feed \cup Slates \cup {<<>>} /\ pages[2] \in Feed \cup Slates \cup {<<>>}
    BY <2>1, <1>1, LenProperties
  <2>3. <<>> \in Seq(Outcomes)
    OBVIOUS
  <2>4. pages[1] \in Seq(Outcomes) /\ pages[2] \in Seq(Outcomes)
    BY <2>2, <2>3, OutcomesAssumption
  <2>5. Fetched = Merged(pages[1], pages[2])
    BY <1>1 DEF Fetched
  <2> QED
    BY <2>4, <2>5, MergeKeeps
<1>2. SearchInv => MergeKeepsMarkets
  BY <1>1 DEF MergeKeepsMarkets, Keys, At
<1> QED
  BY <1>2, SearchIsInvariant, PTL

-----------------------------------------------------------------------------
(* The operators of WeeklySafe are those of the optimizer's lists.         *)

LEMMA SameLists ==
    /\ \A s : Weekly!ToSet(s) = ToSet(s)
    /\ \A s, K : Weekly!Kept(s, K) = Kept(s, K)
    /\ \A S, R : Weekly!InOrder(S, R) = InOrder(S, R)
    /\ \A S : Weekly!Ascending(S) = Ascending(S)
    /\ \A s : Weekly!FlattenSeq(s) = FlattenSeq(s)
<1>1. \A s : Weekly!ToSet(s) = ToSet(s)
  BY DEF Weekly!ToSet, ToSet
<1>2. \A S, R : Weekly!InOrder(S, R) = InOrder(S, R)
  BY DEF Weekly!InOrder, InOrder, Weekly!Cardinality, Cardinality
<1>3. \A S : Weekly!Ascending(S) = Ascending(S)
  BY <1>2 DEF Weekly!Ascending, Ascending
<1>4. \A s, K : Weekly!Kept(s, K) = Kept(s, K)
  BY <1>3 DEF Weekly!Kept, Kept
<1>5. \A s : Weekly!FlattenSeq(s) = FlattenSeq(s)
  BY DEF Weekly!FlattenSeq, FlattenSeq
<1> QED
  BY <1>1, <1>2, <1>3, <1>4, <1>5

LEMMA SameSums ==
    /\ \A s : Weekly!Log(s) = Log(s)
    /\ \A s : Weekly!Probability(s) = Probability(s)
    /\ \A s : Weekly!EventsOf(s) = Events(s)
<1>1. \A f : Weekly!SumFunction(f) = SumFunction(f)
  BY DEF Weekly!SumFunction, SumFunction, Weekly!SumFunctionOnSet, SumFunctionOnSet,
         Weekly!FoldFunctionOnSet, FoldFunctionOnSet, Weekly!MapThenFoldSet, MapThenFoldSet
<1>2. \A s : Weekly!Log(s) = Log(s)
  BY <1>1 DEF Weekly!Log, Log
<1>3. \A s : Weekly!Probability(s) = Probability(s)
  BY <1>1 DEF Weekly!Probability, Probability
<1>4. \A s : Weekly!EventsOf(s) = Events(s)
  BY SameLists DEF Weekly!EventsOf, Events
<1> QED
  BY <1>2, <1>3, <1>4

(* The best predictions of a day, no more than the limit. *)
DayBest(all, day, limit) ==
    LET played == Weekly!Kept(all, {n \in DOMAIN all : all[n].day = day})
        ranked == Weekly!StableSort(Weekly!BestOfKey(played, LAMBDA p : p.event,
                                                    Weekly!MoreConfident),
                                   Weekly!MoreConfident)
    IN  SubSeq(ranked, 1, IF limit < Len(ranked) THEN limit ELSE Len(ranked))

LEMMA DayBestElements ==
    ASSUME NEW s \in Seq(Picks), NEW day, NEW limit \in Nat \ {0}
    PROVE  /\ DayBest(s, day, limit) \in Seq(Picks)
           /\ \A p \in ToSet(DayBest(s, day, limit)) : p \in ToSet(s) /\ p.day = day
           /\ \A m, n \in DOMAIN DayBest(s, day, limit) :
                 m # n => DayBest(s, day, limit)[m].event # DayBest(s, day, limit)[n].event
           /\ \A p \in ToSet(s) : p.day = day => ToSet(DayBest(s, day, limit)) # {}
<1> DEFINE Q == {n \in DOMAIN s : s[n].day = day}
           r == Weekly!Kept(s, Q)
           key == [p \in Picks |-> p.event]
           rank == [p \in Picks |-> p.quality]
           u == Weekly!BestOfKey(r, LAMBDA p : p.event, Weekly!MoreConfident)
           W == {p \in (DOMAIN u) \X (DOMAIN u) : Weekly!MoreConfident(u[p[1]], u[p[2]])}
           t == Weekly!StableSort(u, Weekly!MoreConfident)
           m == IF limit < Len(t) THEN limit ELSE Len(t)
           d == DayBest(s, day, limit)
<1> USE DEF Weekly!MoreConfident
<1>0. \A p \in Picks : key[p] = p.event /\ rank[p] = p.quality /\ p.quality \in Int
  BY PickFields
<1>1. r \in Seq(Picks) /\ ToSet(r) = {p \in ToSet(s) : p.day = day}
  <2>1. Q \in SUBSET DOMAIN s
    OBVIOUS
  <2>2. {s[i] : i \in Q} = {p \in ToSet(s) : p.day = day}
    BY DEF ToSet
  <2>3. r = Kept(s, Q)
    BY SameLists
  <2> HIDE DEF Q, r
  <2> QED
    BY <2>1, <2>2, <2>3, KeptElements, KeptRange
<1>2. rank \in [Picks -> Int]
  BY PickFields
<1> HIDE DEF key, rank
<1>3. BestList(r, key, rank, u)
  <2> HIDE DEF r
  <2>1. Len(r) \in Nat /\ DOMAIN r = 1..Len(r) /\ \A i \in DOMAIN r : r[i] \in Picks
    BY <1>1, LenProperties
  <2>2. \A i \in DOMAIN r : key[r[i]] = r[i].event /\ rank[r[i]] = r[i].quality
    BY <2>1, <1>0
  <2>3. \A i \in DOMAIN r : \A j \in 1..(i - 1) : j \in DOMAIN r
    BY <2>1
  <2> DEFINE K == {i \in DOMAIN r : \A j \in 1..(i - 1) : r[j].event # r[i].event}
             keys == Weekly!Kept(r, K)
             better(k) == CHOOSE b \in DOMAIN r :
                           /\ r[b].event = k
                           /\ \A i \in DOMAIN r : r[i].event = k =>
                                 /\ ~(r[i].quality > r[b].quality)
                                 /\ i < b => r[b].quality > r[i].quality
  <2>4. K = Firsts(r, key)
    BY <2>2, <2>3 DEF Firsts
  <2>5. u = [n \in DOMAIN keys |-> r[better(keys[n].event)]]
    BY DEF Weekly!BestOfKey, Weekly!FirstOfKey
  <2>6. K \in SUBSET DOMAIN r
    OBVIOUS
  <2> HIDE DEF K
  <2>7a. keys = Kept(r, K)
    BY SameLists
  <2> HIDE DEF keys
  <2>7. keys \in Seq(Picks) /\ ToSet(keys) = {r[i] : i \in K}
    BY <1>1, <2>6, <2>7a, KeptElements, KeptRange
  <2>8. \A n \in DOMAIN keys : \E i \in DOMAIN r : keys[n] = r[i]
    <3>1. \A n \in DOMAIN keys : keys[n] \in ToSet(keys)
      BY DEF ToSet
    <3> QED
      BY <3>1, <2>6, <2>7
  <2>9. ASSUME NEW n \in DOMAIN keys
        PROVE  \E b \in Bests(r, key, rank, key[keys[n]]) : u[n] = r[b]
    <3>1. PICK i \in DOMAIN r : keys[n] = r[i]
      BY <2>8
    <3> DEFINE k == keys[n].event
    <3>2. k = key[keys[n]] /\ k = key[r[i]]
      BY <3>1, <2>2
    <3>3. Bests(r, key, rank, key[r[i]]) # {}
      BY <1>1, <1>2, BestExists
    <3> HIDE DEF k
    <3>4. \A b \in DOMAIN r :
             b \in Bests(r, key, rank, k) <=>
                /\ r[b].event = k
                /\ \A j \in DOMAIN r : r[j].event = k =>
                      /\ ~(r[j].quality > r[b].quality)
                      /\ j < b => r[b].quality > r[j].quality
      BY <2>2 DEF Bests
    <3>5. Bests(r, key, rank, k) \in SUBSET DOMAIN r
      BY DEF Bests
    <3>6. better(k) \in Bests(r, key, rank, k)
      BY <3>2, <3>3, <3>4, <3>5
    <3>7. u[n] = r[better(k)]
      BY <2>5 DEF k
    <3> QED
      BY <3>2, <3>6, <3>7
  <2>10. u = [n \in DOMAIN keys |-> u[n]]
    BY <2>5
  <2> QED
    BY <2>4, <2>7a, <2>9, <2>10 DEF BestList
<1> HIDE DEF u
<1>4. u \in Seq(Picks) /\ ToSet(u) \subseteq ToSet(r) /\ OneOfEach(r, key, rank, u)
  <2> HIDE DEF r
  <2> QED
    BY <1>1, <1>2, <1>3, BestElements
<1>5. Len(u) \in Nat /\ DOMAIN u = 1..Len(u) /\ \A i \in DOMAIN u : u[i] \in Picks
  BY <1>4, LenProperties
<1>6. WeakOrder(W, DOMAIN u)
  <2>1. \A i \in DOMAIN u : u[i].quality \in Int
    BY <1>5, <1>0
  <2>2. \A i, j \in DOMAIN u : <<i, j>> \in W <=> u[i].quality > u[j].quality
    OBVIOUS
  <2> HIDE DEF W
  <2> QED
    BY <2>1, <2>2 DEF WeakOrder
<1>7. t = Arranged(u, Stable(u, W))
  <2>1. {p \in (DOMAIN u) \X (DOMAIN u) :
           \/ Weekly!MoreConfident(u[p[1]], u[p[2]])
           \/ ~Weekly!MoreConfident(u[p[2]], u[p[1]]) /\ p[1] < p[2]} = Stable(u, W)
    BY DEF Stable
  <2>2. \A S, R : Weekly!InOrder(S, R) = InOrder(S, R)
    BY SameLists
  <2> HIDE DEF W
  <2> QED
    BY <2>1, <2>2 DEF Weekly!StableSort, Arranged
<1>8. d = SubSeq(t, 1, m)
  BY DEF DayBest, u
<1> HIDE DEF r, W, t, d
<1>9. t \in Seq(Picks) /\ DOMAIN t = DOMAIN u /\ ToSet(t) = ToSet(u) /\ Reordered(u, W, t)
  BY <1>4, <1>6, <1>7, SortedElements
<1>10. PICK at \in [DOMAIN u -> DOMAIN u] :
         /\ \A n \in DOMAIN u : t[n] = u[at[n]]
         /\ \A i, n \in DOMAIN u : i # n => at[i] # at[n]
  BY <1>9 DEF Reordered
<1>11. ASSUME NEW i \in DOMAIN t, NEW n \in DOMAIN t, i # n
       PROVE  t[i].event # t[n].event
  <2>1. at[i] \in DOMAIN u /\ at[n] \in DOMAIN u /\ at[i] # at[n]
    BY <1>9, <1>10, <1>11
  <2>2. key[u[at[i]]] # key[u[at[n]]]
    BY <2>1, <1>4 DEF OneOfEach
  <2> QED
    BY <2>1, <2>2, <1>0, <1>5, <1>9, <1>10
<1>12. m \in Nat /\ m <= Len(t) /\ Len(t) \in Nat /\ DOMAIN t = 1..Len(t)
  BY <1>9, LenProperties
<1>13. Len(t) # 0 => m >= 1
  BY <1>12
<1> HIDE DEF m
<1>14. /\ d \in Seq(Picks) /\ Len(d) = m
       /\ \A i \in 1..m : d[i] = t[i]
       /\ ToSet(d) = {t[i] : i \in 1..m} /\ ToSet(d) \subseteq ToSet(t)
  BY <1>8, <1>9, <1>12, PrefixElements
<1>15. DOMAIN d = 1..m
  BY <1>14, LenProperties
<1>16. \A p \in ToSet(d) : p \in ToSet(s) /\ p.day = day
  BY <1>1, <1>4, <1>9, <1>14
<1>17. ASSUME NEW i \in DOMAIN d, NEW n \in DOMAIN d, i # n
       PROVE  d[i].event # d[n].event
  <2>1. i \in DOMAIN t /\ n \in DOMAIN t /\ i \in 1..m /\ n \in 1..m
    BY <1>12, <1>15
  <2> QED
    BY <2>1, <1>11, <1>14, <1>17
<1>18. ASSUME NEW p \in ToSet(s), p.day = day
       PROVE  ToSet(d) # {}
  <2>1. p \in ToSet(r)
    BY <1>1, <1>18
  <2>2. PICK n \in DOMAIN u : TRUE
    BY <2>1, <1>4 DEF OneOfEach
  <2>3. Len(t) # 0
    BY <2>2, <1>9, <1>12
  <2>4. 1 \in 1..m
    BY <2>3, <1>12, <1>13
  <2> QED
    BY <2>4, <1>14
<1> QED
  BY <1>14, <1>16, <1>17, <1>18 DEF d

-----------------------------------------------------------------------------
(* The shortlist of the weekly generator.                                  *)

LEMMA EligibleElements ==
    ASSUME NEW s \in Seq(Picks), NEW w
    PROVE  /\ Weekly!Eligible(s, w) \in Seq(Picks)
           /\ \A p \in ToSet(Weekly!Eligible(s, w)) : p \in ToSet(s) /\ p.log > 0
<1> DEFINE Q == {n \in DOMAIN s :
                    LET p == s[n]
                    IN  /\ p.probability >= w.probability
                        /\ Weekly!Confidence(p.probability) >= w.confidence
                        /\ p.log > 0}
<1>1. Q \in SUBSET DOMAIN s /\ \A n \in Q : s[n].log > 0
  OBVIOUS
<1>2. Weekly!Eligible(s, w) = Weekly!Kept(s, Q)
  BY DEF Weekly!Eligible
<1> HIDE DEF Q
<1>3. Weekly!Eligible(s, w) = Kept(s, Q)
  BY <1>2, SameLists
<1>4. Kept(s, Q) \in Seq(Picks) /\ ToSet(Kept(s, Q)) = {s[i] : i \in Q}
  BY <1>1, KeptElements, KeptRange
<1>5. \A i \in Q : s[i] \in ToSet(s)
  BY <1>1 DEF ToSet
<1> QED
  BY <1>1, <1>3, <1>4, <1>5

LEMMA DaysAre ==
    ASSUME NEW s \in Seq(Picks)
    PROVE  /\ Weekly!Days(s) = {p.day : p \in ToSet(s)}
           /\ Weekly!Days(s) \in SUBSET Int /\ IsFiniteSet(Weekly!Days(s))
           /\ Cardinality(Weekly!Days(s)) \in Nat
<1> DEFINE S == ToSet(s)
           D == {p.day : p \in S}
           f == [p \in S |-> p.day]
<1>1. Weekly!Days(s) = D
  BY SameLists DEF Weekly!Days
<1>2. S \subseteq Picks /\ IsFiniteSet(S)
  BY SeqElements
<1> HIDE DEF S
<1>3. f \in Surjection(S, D)
  BY DEF Surjection
<1>4. D \in SUBSET Int
  BY <1>2, PickFields
<1> HIDE DEF f, D
<1>5. IsFiniteSet(D)
  BY <1>2, <1>3, FS_Surjection
<1>6. Cardinality(D) \in Nat
  BY <1>5, FS_CardinalityType
<1> QED
  BY <1>1, <1>4, <1>5, <1>6 DEF D, S

(* An event is played on one day. *)
OneDay(s) == \A p, q \in ToSet(s) : p.event = q.event => p.day = q.day

DistinctEvents(s) == \A m, n \in DOMAIN s : m # n => s[m].event # s[n].event

LEMMA PreparedElements ==
    ASSUME NEW s \in Seq(Picks), OneDay(s), NEW w \in Wishes
    PROVE  /\ Weekly!Prepared(s, w) \in Seq(Picks)
           /\ ToSet(Weekly!Prepared(s, w)) \subseteq ToSet(Weekly!Eligible(s, w))
           /\ DistinctEvents(Weekly!Prepared(s, w))
           /\ Weekly!Days(Weekly!Prepared(s, w)) = Weekly!Days(Weekly!Eligible(s, w))
<1> DEFINE limit == w.perDay
           all == Weekly!Eligible(s, w)
           days == Weekly!Ascending(Weekly!Days(all))
           blocks == [n \in DOMAIN days |-> DayBest(all, days[n], limit)]
           t == Weekly!Prepared(s, w)
           N == Cardinality(Weekly!Days(all))
<1>0. limit \in Nat \ {0}
  BY GeneratorsAssumption
<1>1. all \in Seq(Picks) /\ \A p \in ToSet(all) : p \in ToSet(s)
  BY EligibleElements
<1>2. t = FlattenSeq(blocks)
  <2>1. t = Weekly!FlattenSeq(blocks)
    BY DEF Weekly!Prepared, DayBest
  <2> HIDE DEF blocks, t
  <2> QED
    BY <2>1, SameLists
<1> HIDE DEF all, t, limit
<1>3. /\ Weekly!Days(all) = {p.day : p \in ToSet(all)}
      /\ Weekly!Days(all) \in SUBSET Int /\ IsFiniteSet(Weekly!Days(all)) /\ N \in Nat
  BY <1>1, DaysAre
<1>4. days = Ascending(Weekly!Days(all))
  BY SameLists
<1> HIDE DEF days, N
<1>5. /\ days \in [1..N -> Weekly!Days(all)]
      /\ \A x \in Weekly!Days(all) : \E n \in 1..N : days[n] = x
      /\ \A m, n \in 1..N : m < n => days[m] < days[n]
  BY <1>3, <1>4, AscendingEnumerates DEF N
<1>6. DOMAIN days = 1..N
  BY <1>5
<1>7. ASSUME NEW n \in 1..N
      PROVE  /\ DayBest(all, days[n], limit) \in Seq(Picks)
             /\ \A p \in ToSet(DayBest(all, days[n], limit)) : p \in ToSet(all) /\ p.day = days[n]
             /\ DistinctEvents(DayBest(all, days[n], limit))
             /\ ToSet(DayBest(all, days[n], limit)) # {}
  <2>1. PICK p \in ToSet(all) : p.day = days[n]
    BY <1>3, <1>5
  <2> QED
    BY <2>1, <1>0, <1>1, DayBestElements DEF DistinctEvents
<1>8. \A n \in 1..N : blocks[n] = DayBest(all, days[n], limit)
  BY <1>6
<1>9. blocks \in Seq(Seq(Picks)) /\ Len(blocks) = N
  BY <1>3, <1>6, <1>7
<1> HIDE DEF blocks
<1>10. t \in Seq(Picks) /\ Placed(blocks, N, t)
  BY <1>2, <1>9, FlattenElements
<1>11. PICK b, o : Places(blocks, N, t, b, o)
  BY <1>10 DEF Placed
<1> DEFINE l == Len(t)
<1>12. l \in Nat /\ DOMAIN t = 1..l
  BY <1>10, LenProperties
<1> HIDE DEF l
<1>13. /\ \A i \in 1..l : /\ b[i] \in 1..N /\ o[i] \in 1..Len(blocks[b[i]])
                          /\ t[i] = blocks[b[i]][o[i]]
       /\ \A k \in 1..N : \A m \in 1..Len(blocks[k]) : \E i \in 1..l : b[i] = k /\ o[i] = m
       /\ \A i, j \in 1..l : i < j => b[i] < b[j] \/ (b[i] = b[j] /\ o[i] < o[j])
  BY <1>11 DEF Places, l
<1>14. ASSUME NEW n \in 1..N
       PROVE  /\ DOMAIN blocks[n] = 1..Len(blocks[n]) /\ DistinctEvents(blocks[n])
              /\ \A m \in 1..Len(blocks[n]) :
                    blocks[n][m] \in ToSet(all) /\ blocks[n][m].day = days[n]
              /\ \E m \in 1..Len(blocks[n]) : TRUE
  <2>1. blocks[n] \in Seq(Picks) /\ DistinctEvents(blocks[n]) /\ ToSet(blocks[n]) # {}
    BY <1>7, <1>8
  <2>2. DOMAIN blocks[n] = 1..Len(blocks[n])
    BY <2>1, LenProperties
  <2>3. \A m \in 1..Len(blocks[n]) : blocks[n][m] \in ToSet(blocks[n])
    BY <2>1, SeqElements
  <2>4. \A x \in ToSet(blocks[n]) : \E m \in 1..Len(blocks[n]) : blocks[n][m] = x
    BY <2>1, SeqElements
  <2>5. \A x \in ToSet(blocks[n]) : x \in ToSet(all) /\ x.day = days[n]
    BY <1>7, <1>8
  <2> QED
    BY <2>1, <2>2, <2>3, <2>4, <2>5
<1>15. ASSUME NEW i \in 1..l
       PROVE  t[i] \in ToSet(all) /\ t[i].day = days[b[i]] /\ b[i] \in 1..N
  <2>1. b[i] \in 1..N /\ o[i] \in 1..Len(blocks[b[i]]) /\ t[i] = blocks[b[i]][o[i]]
    BY <1>13
  <2>2. \A m \in 1..Len(blocks[b[i]]) :
           blocks[b[i]][m] \in ToSet(all) /\ blocks[b[i]][m].day = days[b[i]]
    BY <2>1, <1>14
  <2> QED
    BY <2>1, <2>2
<1>16. ToSet(t) \subseteq ToSet(all)
  BY <1>12, <1>15 DEF ToSet
<1>17. ASSUME NEW i \in 1..l, NEW j \in 1..l, i < j
       PROVE  t[i].event # t[j].event
  <2>1. b[i] \in 1..N /\ b[j] \in 1..N
    BY <1>13
  <2>2. CASE b[i] < b[j]
    <3>1. days[b[i]] < days[b[j]] /\ days[b[i]] \in Int /\ days[b[j]] \in Int
      BY <2>1, <2>2, <1>3, <1>5
    <3>2. t[i].day # t[j].day
      BY <3>1, <1>15
    <3>3. t[i] \in ToSet(s) /\ t[j] \in ToSet(s)
      BY <1>1, <1>15
    <3> QED
      BY <3>2, <3>3 DEF OneDay
  <2>3. CASE b[i] = b[j] /\ o[i] < o[j]
    <3>1. o[i] \in 1..Len(blocks[b[i]]) /\ o[j] \in 1..Len(blocks[b[i]]) /\ o[i] # o[j]
      BY <2>3, <1>13
    <3>2. t[i] = blocks[b[i]][o[i]] /\ t[j] = blocks[b[i]][o[j]]
      BY <2>3, <1>13
    <3>3. DOMAIN blocks[b[i]] = 1..Len(blocks[b[i]]) /\ DistinctEvents(blocks[b[i]])
      BY <2>1, <1>14
    <3> QED
      BY <3>1, <3>2, <3>3 DEF DistinctEvents
  <2>4. b[i] < b[j] \/ (b[i] = b[j] /\ o[i] < o[j])
    BY <1>13, <1>17
  <2> QED
    BY <2>2, <2>3, <2>4
<1>18. DistinctEvents(t)
  <2> SUFFICES ASSUME NEW i \in 1..l, NEW j \in 1..l, i # j PROVE t[i].event # t[j].event
    BY <1>12 DEF DistinctEvents
  <2>1. i < j \/ j < i
    BY <1>12
  <2> QED
    BY <2>1, <1>17
<1>19. {p.day : p \in ToSet(t)} = {p.day : p \in ToSet(all)}
  <2>1. ASSUME NEW p \in ToSet(all) PROVE \E q \in ToSet(t) : q.day = p.day
    <3>1. PICK n \in 1..N : days[n] = p.day
      BY <1>3, <1>5
    <3>2. PICK m \in 1..Len(blocks[n]) : TRUE
      BY <1>14
    <3>3. PICK i \in 1..l : b[i] = n /\ o[i] = m
      BY <1>13
    <3>4. t[i].day = p.day /\ t[i] \in ToSet(t)
      BY <3>1, <3>3, <1>12, <1>15 DEF ToSet
    <3> QED
      BY <3>4
  <2> QED
    BY <2>1, <1>16
<1>20. Weekly!Days(t) = Weekly!Days(all)
  BY <1>1, <1>10, <1>19, DaysAre
<1> QED
  BY <1>10, <1>16, <1>18, <1>20 DEF all, t

LEMMA LoopOneDay ==
    ASSUME NEW page \in Slates
    PROVE  OneDay(LoopPredictions(page))
<1>1. \A p \in ToSet(LoopPredictions(page)) : \E o \in ToSet(page) :
         p.event = o.event /\ p.day = o.day
  <2>1. page \in Seq(Outcomes)
    BY OutcomesAssumption
  <2>2. ToSet(Live(page, Unfiltered)) \subseteq ToSet(page)
    BY <2>1, LiveElements
  <2> QED
    BY <2>2, LoopOutcomes DEF Predict
<1> QED
  BY <1>1, OutcomesAssumption DEF OneDay

-----------------------------------------------------------------------------
(* Selections of different events weigh more the more there are.           *)

LEMMA WeightGrows ==
    ASSUME NEW B, IsFiniteSet(B), NEW w, \A x \in B : w[x] \in Int /\ w[x] > 0,
           NEW A \in SUBSET B
    PROVE  Weight(A, w) <= Weight(B, w) /\ (A # B => Weight(A, w) < Weight(B, w))
<1> DEFINE Grows(X) == /\ Weight(A, w) <= Weight(X, w)
                       /\ A # X => Weight(A, w) < Weight(X, w)
           Good == {n \in Nat : \A X \in SUBSET B :
                       A \subseteq X /\ Cardinality(X) = n => Grows(X)}
<1>1. \A X \in SUBSET B : IsFiniteSet(X) /\ Cardinality(X) \in Nat /\ Weight(X, w) \in Int
  BY FS_Subset, FS_CardinalityType, WeightType
<1>2. Grows(A)
  BY <1>1
<1>3. ASSUME NEW n \in Nat, \A X \in SUBSET B : A \subseteq X /\ Cardinality(X) = n => Grows(X),
             NEW X \in SUBSET B, A \subseteq X, Cardinality(X) = n + 1
      PROVE  Grows(X)
  <2> SUFFICES ASSUME A # X PROVE Weight(A, w) < Weight(X, w)
    BY <1>2, <1>1
  <2>1. PICK x \in X : x \notin A
    BY <1>3
  <2> DEFINE Y == X \ {x}
  <2>2. /\ Cardinality(Y) = n /\ Weight(Y, w) \in Int /\ w[x] \in Int /\ w[x] > 0
        /\ Weight(X, w) = Weight(Y, w) + w[x]
    BY <1>1, <1>3, RemoveOne, WeightRemove
  <2>3. Y \in SUBSET B /\ A \subseteq Y
    BY <1>3, <2>1
  <2> HIDE DEF Y
  <2>4. Weight(A, w) <= Weight(Y, w)
    BY <1>3, <2>2, <2>3
  <2> QED
    BY <2>2, <2>4, <1>1
<1> HIDE DEF Grows
<1>4. 0 \in Good
  <2> SUFFICES ASSUME NEW X \in SUBSET B, A \subseteq X, Cardinality(X) = 0 PROVE Grows(X)
    OBVIOUS
  <2>1. X = {}
    BY <1>1, FS_EmptySet
  <2> QED
    BY <2>1, <1>2
<1>5. \A n \in Nat : n \in Good => n + 1 \in Good
  BY <1>3
<1>6. Nat \subseteq Good
  <2> HIDE DEF Good
  <2> QED
    BY <1>4, <1>5, Inductive
<1>7. Grows(B)
  BY <1>1, <1>6
<1> QED
  BY <1>7 DEF Grows

LEMMA AccumulatorsOfMore ==
    ASSUME NEW C \in SUBSET Picks, \A c \in C : c.log > 0,
           NEW a, Accumulator(a, C), NEW b, Accumulator(b, C), ToSet(a) \subseteq ToSet(b)
    PROVE  /\ Log(a) <= Log(b)
           /\ Cardinality(Weekly!Days(a)) <= Cardinality(Weekly!Days(b))
           /\ ToSet(a) # ToSet(b) => Log(a) < Log(b) /\ Events(a) # Events(b)
           /\ Log(a) \in Int /\ Log(b) \in Int
           /\ Cardinality(Weekly!Days(a)) \in Nat /\ Cardinality(Weekly!Days(b)) \in Nat
<1>1. a \in Seq(Picks) /\ b \in Seq(Picks) /\ ToSet(b) \subseteq C /\ ToSet(a) \subseteq C
  BY SeqMonotonic DEF Accumulator, Selection
<1>2. IsFiniteSet(ToSet(b)) /\ IsFiniteSet(ToSet(a))
  BY <1>1, SeqElements
<1>3. \A p \in ToSet(b) : LogOf[p] \in Int /\ LogOf[p] > 0
  BY <1>1, WeightsOfPicks
<1>4. /\ Weight(ToSet(a), LogOf) <= Weight(ToSet(b), LogOf)
      /\ ToSet(a) # ToSet(b) => Weight(ToSet(a), LogOf) < Weight(ToSet(b), LogOf)
  BY <1>2, <1>3, WeightGrows
<1>5. Log(a) = Weight(ToSet(a), LogOf) /\ Log(b) = Weight(ToSet(b), LogOf)
  BY DEF Accumulator
<1>6. Log(a) \in Int /\ Log(b) \in Int
  BY <1>1, SumsOfPicks
<1>7. /\ Weekly!Days(a) = {p.day : p \in ToSet(a)} /\ Weekly!Days(b) = {p.day : p \in ToSet(b)}
      /\ IsFiniteSet(Weekly!Days(b))
      /\ Cardinality(Weekly!Days(a)) \in Nat /\ Cardinality(Weekly!Days(b)) \in Nat
  BY <1>1, DaysAre
<1>8. Weekly!Days(a) \subseteq Weekly!Days(b)
  BY <1>7
<1>9. Cardinality(Weekly!Days(a)) <= Cardinality(Weekly!Days(b))
  BY <1>7, <1>8, FS_Subset
<1>10. ASSUME ToSet(a) # ToSet(b) PROVE Events(a) # Events(b)
  <2>1. PICK p \in ToSet(b) : p \notin ToSet(a)
    BY <1>10
  <2>2. p.event \in Events(b)
    BY DEF Events
  <2>3. \A q \in ToSet(a) : q.event # p.event
    BY <2>1 DEF Accumulator, Selection
  <2>4. p.event \notin Events(a)
    BY <2>3 DEF Events
  <2> QED
    BY <2>2, <2>4
<1> QED
  BY <1>4, <1>5, <1>6, <1>7, <1>9, <1>10

(* Candidates of different events are an accumulator as far as one goes.   *)
LEMMA PrefixAccumulator ==
    ASSUME NEW t \in Seq(Picks), DistinctEvents(t)
    PROVE  /\ \A n \in 0..Len(t) : Accumulator(SubSeq(t, 1, n), ToSet(t))
           /\ \A n \in 0..(Len(t) - 1) :
                 /\ SubSeq(t, 1, n + 1) = Append(SubSeq(t, 1, n), t[n + 1])
                 /\ t[n + 1] \in ToSet(t)
                 /\ t[n + 1].event \notin Events(SubSeq(t, 1, n))
           /\ SubSeq(t, 1, Len(t)) = t /\ SubSeq(t, 1, 0) = <<>>
<1> DEFINE N == Len(t)
           P(n) == SubSeq(t, 1, n)
           C == ToSet(t)
           Good == {n \in Nat : n <= N => Accumulator(P(n), C)}
<1>1. N \in Nat /\ DOMAIN t = 1..N /\ C \in SUBSET Picks /\ \A i \in 1..N : t[i] \in C
  BY LenProperties, SeqElements
<1>2. P(0) = <<>> /\ P(N) = t
  BY <1>1
<1>3. ASSUME NEW n \in Nat, n + 1 <= N
      PROVE  P(n + 1) = Append(P(n), t[n + 1]) /\ t[n + 1] \in C
             /\ t[n + 1].event \notin Events(P(n))
  <2>1. n \in Nat /\ n <= Len(t) /\ n + 1 \in Nat /\ n + 1 <= Len(t)
    BY <1>1, <1>3
  <2>2. /\ P(n) \in Seq(Picks) /\ Len(P(n)) = n /\ \A i \in 1..n : P(n)[i] = t[i]
        /\ ToSet(P(n)) = {t[i] : i \in 1..n}
    BY <2>1, PrefixElements
  <2>3. P(n + 1) \in Seq(Picks) /\ Len(P(n + 1)) = n + 1 /\ \A i \in 1..(n + 1) : P(n + 1)[i] = t[i]
    BY <2>1, PrefixElements
  <2>4. n + 1 \in 1..N /\ t[n + 1] \in Picks
    BY <2>1, <1>1
  <2> HIDE DEF P
  <2>5. P(n + 1) = Append(P(n), t[n + 1])
    <3> DEFINE a == P(n + 1)
               b == Append(P(n), t[n + 1])
    <3>1. /\ b \in Seq(Picks) /\ Len(b) = n + 1 /\ \A i \in 1..n : b[i] = P(n)[i]
          /\ b[n + 1] = t[n + 1]
      BY <2>2, <2>4, AppendProperties
    <3>2. \A i \in 1..(n + 1) : i \in 1..n \/ i = n + 1
      OBVIOUS
    <3> HIDE DEF b, a
    <3>3. \A i \in 1..(n + 1) : a[i] = b[i]
      BY <2>2, <2>3, <3>1, <3>2 DEF a
    <3>4. a \in Seq(Picks) /\ Len(a) = n + 1
      BY <2>3 DEF a
    <3>5. a = b
      BY <3>1, <3>3, <3>4, SeqEqual
    <3> QED
      BY <3>5 DEF a, b
  <2>6. ASSUME t[n + 1].event \in Events(P(n)) PROVE FALSE
    <3>1. PICK i \in 1..n : t[i].event = t[n + 1].event
      BY <2>2, <2>6 DEF Events
    <3>2. i \in DOMAIN t /\ n + 1 \in DOMAIN t /\ i # n + 1
      BY <2>1, <1>1
    <3> QED
      BY <3>1, <3>2 DEF DistinctEvents
  <2> QED
    BY <2>4, <2>5, <2>6, <1>1
<1> HIDE DEF P, C, N
<1>4. 0 \in Good
  BY <1>2, EmptyAccumulator
<1>5. ASSUME NEW n \in Nat, n \in Good PROVE n + 1 \in Good
  <2> SUFFICES ASSUME n + 1 <= N PROVE Accumulator(P(n + 1), C)
    OBVIOUS
  <2>1. Accumulator(P(n), C)
    BY <1>1, <1>5
  <2> QED
    BY <2>1, <1>1, <1>3, GrowingAccumulator
<1>6. Nat \subseteq Good
  <2> HIDE DEF Good
  <2> QED
    BY <1>4, <1>5, Inductive
<1>7. \A n \in 0..N : Accumulator(P(n), C)
  BY <1>1, <1>6
<1>8. \A n \in 0..(N - 1) : n \in Nat /\ n + 1 <= N
  BY <1>1
<1> QED
  BY <1>2, <1>3, <1>7, <1>8 DEF P, C, N

-----------------------------------------------------------------------------
(* _prune of the weekly generator.                                         *)

LEMMA WeeklyScoreType ==
    ASSUME NEW s \in Seq(Picks)
    PROVE  /\ Weekly!Score(s) \in Int /\ Weekly!Log(s) \in Int
           /\ Cardinality(Weekly!Days(s)) \in Nat
           /\ Weekly!Cardinality(Weekly!Days(s)) = Cardinality(Weekly!Days(s))
<1>1. Len(s) \in Nat /\ DOMAIN s = 1..Len(s) /\ \A n \in 1..Len(s) : s[n] \in Picks
  BY LenProperties
<1>2. Cardinality(Weekly!Days(s)) \in Nat
  BY DaysAre
<1>3. Weekly!Cardinality(Weekly!Days(s)) = Cardinality(Weekly!Days(s))
  BY DEF Weekly!Cardinality, Cardinality
<1>4. Weekly!Log(s) \in Int
  BY SameSums, SumsOfPicks
<1>5. Weekly!Probability(s) \in Int
  <2> DEFINE f == [n \in DOMAIN s |-> s[n].probability]
  <2>1. f \in [DOMAIN s -> Int]
    BY <1>1, PickFields
  <2>2. IsFiniteSet(DOMAIN s)
    BY <1>1, FS_Interval
  <2>3. Probability(s) = SumFunction(f)
    BY DEF Probability
  <2> HIDE DEF f
  <2>4. SumFunction(f) \in Int
    BY <2>1, <2>2, SumType
  <2> QED
    BY <2>3, <2>4, SameSums
<1>6. CASE s = <<>>
  BY <1>2, <1>3, <1>4, <1>6 DEF Weekly!Score
<1>7. CASE s # <<>>
  <2>1. Len(s) \in Nat \ {0}
    BY <1>1, <1>7
  <2>2. \A n \in Nat \ {0} : 60 \div n \in Int
    OBVIOUS
  <2>3. 60 \div Len(s) \in Int
    BY <2>1, <2>2
  <2> DEFINE q == 60 \div Len(s)
             p == Weekly!Probability(s)
             c == Cardinality(Weekly!Days(s))
  <2>4. Weekly!Score(s) = q * p + 600 * c
    BY <1>3, <1>7 DEF Weekly!Score
  <2>5. q \in Int /\ p \in Int /\ c \in Int
    BY <1>2, <1>5, <2>3
  <2> HIDE DEF q, p, c
  <2>6. q * p \in Int /\ 600 * c \in Int
    BY <2>5
  <2> DEFINE x == q * p
             y == 600 * c
  <2>7. x \in Int /\ y \in Int
    BY <2>6
  <2> HIDE DEF x, y
  <2>8. x + y \in Int
    BY <2>7
  <2> QED
    BY <2>4, <2>8, <1>2, <1>3, <1>4 DEF x, y
<1> QED
  BY <1>6, <1>7

(* The rank of a state, as _prune compares it. *)
Beats(a, b) ==
    LET da == Cardinality(Weekly!Days(a))
        db == Cardinality(Weekly!Days(b))
    IN  \/ da > db
        \/ da = db /\ Log(a) > Log(b)
        \/ da = db /\ Log(a) = Log(b) /\ Weekly!Score(a) > Weekly!Score(b)

LEMMA PreferredBeats ==
    ASSUME NEW a \in Seq(Picks), NEW b \in Seq(Picks)
    PROVE  Weekly!Prefers(a, b) <=> Beats(a, b)
<1>1. /\ Weekly!Cardinality(Weekly!Days(a)) = Cardinality(Weekly!Days(a))
      /\ Weekly!Cardinality(Weekly!Days(b)) = Cardinality(Weekly!Days(b))
  BY WeeklyScoreType
<1>2. Weekly!Log(a) = Log(a) /\ Weekly!Log(b) = Log(b)
  BY SameSums
<1> QED
  BY <1>1, <1>2 DEF Weekly!Prefers, Beats

LEMMA PruneElements ==
    ASSUME NEW s \in Seq(Seq(Picks))
    PROVE  /\ Weekly!Prune(s) \in Seq(Seq(Picks)) /\ Len(Weekly!Prune(s)) <= BeamWidth
           /\ ToSet(Weekly!Prune(s)) \subseteq ToSet(s)
           /\ \A p \in ToSet(s) :
                 (\A x \in ToSet(s) : x = p \/ (Events(x) # Events(p) /\ Beats(p, x)))
                    => p \in ToSet(Weekly!Prune(s))
<1> DEFINE E == Seq(Picks)
           key == [a \in E |-> <<Weekly!EventsOf(a), Weekly!Days(a)>>]
           rank == [a \in E |-> Weekly!Score(a)]
           u == Weekly!BestOfKey(s, LAMBDA a : <<Weekly!EventsOf(a), Weekly!Days(a)>>,
                                 LAMBDA a, b : Weekly!Score(a) > Weekly!Score(b))
           W == {p \in (DOMAIN u) \X (DOMAIN u) : Weekly!Prefers(u[p[1]], u[p[2]])}
           t == Weekly!StableSort(u, Weekly!Prefers)
           m == IF BeamWidth < Len(t) THEN BeamWidth ELSE Len(t)
           d == Weekly!Prune(s)
<1>0. \A a \in E : /\ key[a] = <<Weekly!EventsOf(a), Weekly!Days(a)>>
                   /\ rank[a] = Weekly!Score(a) /\ rank[a] \in Int
  BY WeeklyScoreType
<1>1. rank \in [E -> Int]
  BY WeeklyScoreType
<1>2. s \in Seq(E) /\ Len(s) \in Nat /\ DOMAIN s = 1..Len(s) /\ \A i \in DOMAIN s : s[i] \in E
  BY LenProperties
<1>3. d = SubSeq(t, 1, m)
  BY DEF Weekly!Prune
<1> HIDE DEF key, rank, d, E
<1>4. BestList(s, key, rank, u)
  <2> DEFINE of(a) == <<Weekly!EventsOf(a), Weekly!Days(a)>>
             fits(k, b) == /\ of(s[b]) = k
                           /\ \A i \in DOMAIN s : of(s[i]) = k =>
                                 /\ ~(Weekly!Score(s[i]) > Weekly!Score(s[b]))
                                 /\ i < b => Weekly!Score(s[b]) > Weekly!Score(s[i])
             K == {i \in DOMAIN s : \A j \in 1..(i - 1) : of(s[j]) # of(s[i])}
             keys == Weekly!Kept(s, K)
             better(k) == CHOOSE b \in DOMAIN s : fits(k, b)
  <2>1. \A i \in DOMAIN s : key[s[i]] = of(s[i]) /\ rank[s[i]] = Weekly!Score(s[i])
    BY <1>0, <1>2
  <2>2. \A i \in DOMAIN s : \A j \in 1..(i - 1) : j \in DOMAIN s
    BY <1>2
  <2>3. u = [n \in DOMAIN keys |-> s[better(of(keys[n]))]]
    BY DEF Weekly!BestOfKey, Weekly!FirstOfKey
  <2> HIDE DEF of, u
  <2>4. K = Firsts(s, key)
    <3>1. ASSUME NEW i \in DOMAIN s, NEW j \in 1..(i - 1)
          PROVE  of(s[j]) # of(s[i]) <=> key[s[j]] # key[s[i]]
      BY <2>1, <2>2
    <3> QED
      BY <3>1 DEF Firsts
  <2>5. K \in SUBSET DOMAIN s
    OBVIOUS
  <2> HIDE DEF K
  <2>6. keys = Kept(s, K)
    BY SameLists
  <2> HIDE DEF keys
  <2>7. keys \in Seq(E) /\ ToSet(keys) = {s[i] : i \in K}
    BY <1>2, <2>5, <2>6, KeptElements, KeptRange
  <2>8. \A n \in DOMAIN keys : \E i \in DOMAIN s : keys[n] = s[i]
    <3>1. \A n \in DOMAIN keys : keys[n] \in ToSet(keys)
      BY DEF ToSet
    <3> QED
      BY <3>1, <2>5, <2>7
  <2>9. ASSUME NEW n \in DOMAIN keys
        PROVE  \E b \in Bests(s, key, rank, key[keys[n]]) : u[n] = s[b]
    <3>1. PICK i \in DOMAIN s : keys[n] = s[i]
      BY <2>8
    <3> DEFINE k == of(keys[n])
    <3>2. k = key[keys[n]] /\ k = key[s[i]]
      BY <3>1, <2>1
    <3>3. Bests(s, key, rank, key[s[i]]) # {}
      BY <1>1, <1>2, BestExists
    <3>4. u[n] = s[better(k)]
      BY <2>3
    <3> HIDE DEF k
    <3>5. \A b \in DOMAIN s : b \in Bests(s, key, rank, k) <=> fits(k, b)
      BY <2>1 DEF Bests
    <3>6. Bests(s, key, rank, k) \in SUBSET DOMAIN s
      BY DEF Bests
    <3> HIDE DEF fits
    <3>7. better(k) \in Bests(s, key, rank, k)
      BY <3>2, <3>3, <3>5, <3>6
    <3> QED
      BY <3>2, <3>4, <3>7
  <2>10. u = [n \in DOMAIN keys |-> u[n]]
    BY <2>3
  <2> QED
    BY <2>4, <2>6, <2>9, <2>10 DEF BestList
<1> HIDE DEF u
<1>5. u \in Seq(E) /\ ToSet(u) \subseteq ToSet(s) /\ OneOfEach(s, key, rank, u)
  BY <1>1, <1>2, <1>4, BestElements
<1>6. Len(u) \in Nat /\ DOMAIN u = 1..Len(u) /\ \A i \in DOMAIN u : u[i] \in E
  BY <1>5, LenProperties
<1>7. \A i, j \in DOMAIN u : <<i, j>> \in W <=> Beats(u[i], u[j])
  <2>1. \A i \in DOMAIN u : u[i] \in Seq(Picks)
    BY <1>6 DEF E
  <2>2. \A i, j \in DOMAIN u : <<i, j>> \in W <=> Weekly!Prefers(u[i], u[j])
    OBVIOUS
  <2> QED
    BY <2>1, <2>2, PreferredBeats
<1>8. t = Arranged(u, Stable(u, W))
  <2>1. {p \in (DOMAIN u) \X (DOMAIN u) :
           \/ Weekly!Prefers(u[p[1]], u[p[2]])
           \/ ~Weekly!Prefers(u[p[2]], u[p[1]]) /\ p[1] < p[2]} = Stable(u, W)
    BY DEF Stable
  <2>2. \A S, R : Weekly!InOrder(S, R) = InOrder(S, R)
    BY SameLists
  <2> HIDE DEF W
  <2> QED
    BY <2>1, <2>2 DEF Weekly!StableSort, Arranged
<1> HIDE DEF W, t
<1>9. WeakOrder(W, DOMAIN u)
  <2>1. \A i \in DOMAIN u : /\ Cardinality(Weekly!Days(u[i])) \in Nat
                            /\ Weekly!Score(u[i]) \in Int /\ Log(u[i]) \in Int
    <3>1. \A i \in DOMAIN u : u[i] \in Seq(Picks)
      BY <1>6 DEF E
    <3> QED
      BY <3>1, WeeklyScoreType, SumsOfPicks
  <2>2. \A i, j \in DOMAIN u : Beats(u[i], u[j]) => ~Beats(u[j], u[i])
    BY <2>1 DEF Beats
  <2>3. \A i, j, k \in DOMAIN u : Beats(u[i], u[k]) => Beats(u[i], u[j]) \/ Beats(u[j], u[k])
    BY <2>1 DEF Beats
  <2> QED
    BY <1>7, <2>2, <2>3 DEF WeakOrder
<1>10. t \in Seq(E) /\ DOMAIN t = DOMAIN u /\ ToSet(t) = ToSet(u) /\ Reordered(u, W, t)
  BY <1>5, <1>8, <1>9, SortedElements
<1>11. m \in Nat /\ m <= Len(t) /\ m <= BeamWidth /\ Len(t) \in Nat /\ DOMAIN t = 1..Len(t)
       /\ (Len(t) >= 1 => m >= 1)
  BY <1>10, LenProperties, OddsOptimizerAssumption
<1> HIDE DEF m
<1>12. /\ d \in Seq(E) /\ Len(d) = m
       /\ \A i \in 1..m : d[i] = t[i]
       /\ ToSet(d) = {t[i] : i \in 1..m} /\ ToSet(d) \subseteq ToSet(t)
  BY <1>3, <1>10, <1>11, PrefixElements
<1>13. ASSUME NEW p \in ToSet(s),
              \A x \in ToSet(s) : x = p \/ (Events(x) # Events(p) /\ Beats(p, x))
       PROVE  p \in ToSet(d)
  <2>1. PICK at \in [DOMAIN u -> DOMAIN u] :
           /\ \A n \in DOMAIN u : t[n] = u[at[n]]
           /\ \A i \in DOMAIN u : \E n \in DOMAIN u : at[n] = i
           /\ \A i, n \in DOMAIN u : i < n => <<at[n], at[i]>> \notin W
    BY <1>10 DEF Reordered
  <2>2. \A x \in ToSet(s) : x \in E
    BY <1>2 DEF ToSet
  <2>3. PICK i \in DOMAIN u : key[u[i]] = key[p]
    BY <1>5 DEF OneOfEach
  <2>4. u[i] \in ToSet(s)
    BY <1>5 DEF ToSet
  <2>5. Events(u[i]) = Events(p)
    <3>1. Weekly!EventsOf(u[i]) = Weekly!EventsOf(p)
      BY <2>2, <2>3, <2>4, <1>0
    <3> QED
      BY <3>1, SameSums
  <2>6. u[i] = p
    BY <1>13, <2>4, <2>5
  <2>7. PICK n \in DOMAIN u : at[n] = i
    BY <2>1
  <2>8. 1 \in DOMAIN u /\ (n = 1 \/ 1 < n) /\ Len(t) >= 1
    BY <1>6, <1>10, <1>11
  <2>9. t[1] = u[at[1]] /\ at[1] \in DOMAIN u
    BY <2>1, <2>8
  <2>10. t[1] = p
    <3>1. CASE n = 1
      BY <3>1, <2>6, <2>7, <2>9
    <3>2. CASE 1 < n
      <4>1. <<i, at[1]>> \notin W
        BY <3>2, <2>1, <2>7, <2>8
      <4>2. ~Beats(p, t[1])
        BY <4>1, <2>6, <2>9, <1>7
      <4>3. t[1] \in ToSet(s)
        BY <2>9, <1>5 DEF ToSet
      <4> QED
        BY <4>2, <4>3, <1>13
    <3> QED
      BY <3>1, <3>2, <2>8
  <2>11. 1 \in 1..m
    BY <2>8, <1>11
  <2> QED
    BY <2>10, <2>11, <1>12
<1>14. ToSet(d) \subseteq ToSet(s)
  BY <1>5, <1>10, <1>12
<1> QED
  BY <1>11, <1>12, <1>13, <1>14 DEF d, E

-----------------------------------------------------------------------------
(* The search of the weekly generator: the candidates tried so far, all of  *)
(* them together, are a state that no pruning drops.                        *)

Reaches(s, days) == Log(s) >= WeeklyTarget /\ Cardinality(Weekly!Days(s)) >= days

LEMMA QualifiesMeans == \A s : Weekly!Qualifies(s) <=> Reaches(s, wish.days)
<1>1. \A S : Weekly!Cardinality(S) = Cardinality(S)
  BY DEF Weekly!Cardinality, Cardinality
<1>2. \A s : Weekly!Log(s) = Log(s)
  BY SameSums
<1> QED
  BY <1>1, <1>2 DEF Weekly!Qualifies, Reaches

WeeklyPage(ps, w, list) ==
    /\ w \in Wishes
    /\ \E page \in Slates :
          ps = <<page>> /\ list = Weekly!Prepared(LoopPredictions(page), w)

Shortlisted(list) ==
    list \in Seq(Picks) /\ DistinctEvents(list) /\ \A c \in ToSet(list) : c.log > 0

LEMMA ShortlistElements ==
    ASSUME NEW page \in Slates, NEW w \in Wishes, NEW list,
           list = Weekly!Prepared(LoopPredictions(page), w)
    PROVE  /\ Shortlisted(list)
           /\ ToSet(list) \subseteq ToSet(Weekly!Eligible(LoopPredictions(page), w))
           /\ Weekly!Days(list) = Weekly!Days(Weekly!Eligible(LoopPredictions(page), w))
<1>1. LoopPredictions(page) \in Seq(Picks) /\ OneDay(LoopPredictions(page))
  BY LoopOutcomes, LoopOneDay
<1>2. \A p \in ToSet(Weekly!Eligible(LoopPredictions(page), w)) : p.log > 0
  BY <1>1, EligibleElements
<1> QED
  BY <1>1, <1>2, PreparedElements DEF Shortlisted

Tried(list, n) == SubSeq(list, 1, n)

(* A selection of the candidates tried: all of them, or fewer. *)
Made(s, list, n) ==
    /\ Accumulator(s, ToSet(list))
    /\ ToSet(s) \subseteq ToSet(Tried(list, n))
    /\ s = Tried(list, n) \/ ToSet(s) # ToSet(Tried(list, n))

LEMMA MadeGrows ==
    ASSUME NEW list, Shortlisted(list), NEW n \in 0..(Len(list) - 1), NEW s, Made(s, list, n)
    PROVE  /\ list[n + 1] \in Picks /\ list[n + 1].event \notin Events(s)
           /\ Made(s, list, n + 1) /\ Made(Append(s, list[n + 1]), list, n + 1)
           /\ Tried(list, n + 1) = Append(Tried(list, n), list[n + 1])
<1> DEFINE c == list[n + 1]
           p == Tried(list, n)
           q == Tried(list, n + 1)
           C == ToSet(list)
<1>1. list \in Seq(Picks) /\ C \in SUBSET Picks /\ Len(list) \in Nat
  BY SeqElements, LenProperties DEF Shortlisted
<1>2. n \in 0..Len(list) /\ n + 1 \in 0..Len(list)
  BY <1>1
<1>3. /\ Accumulator(p, C) /\ q = Append(p, c) /\ c \in C /\ c.event \notin Events(p)
  BY <1>1, <1>2, PrefixAccumulator DEF Shortlisted, Tried
<1> HIDE DEF c, p, q, C
<1>4. p \in Seq(C) /\ s \in Seq(C)
  BY <1>3 DEF Accumulator, Made, C
<1>5. ToSet(q) = ToSet(p) \cup {c} /\ ToSet(Append(s, c)) = ToSet(s) \cup {c}
  BY <1>3, <1>4, AppendElements
<1>6. \A x \in ToSet(p) : x.event # c.event
  BY <1>3 DEF Events
<1>7. ToSet(s) \subseteq ToSet(p) /\ (s = p \/ ToSet(s) # ToSet(p)) /\ Accumulator(s, C)
  BY DEF Made, p, C
<1>8. c \notin ToSet(p) /\ c \notin ToSet(s) /\ c.event \notin Events(s)
  BY <1>6, <1>7 DEF Events
<1>9. Accumulator(Append(s, c), C)
  BY <1>1, <1>3, <1>7, <1>8, GrowingAccumulator
<1>10. ToSet(Append(s, c)) \subseteq ToSet(q) /\ ToSet(s) \subseteq ToSet(q) /\ ToSet(s) # ToSet(q)
  BY <1>5, <1>7, <1>8
<1>11. Append(s, c) = q \/ ToSet(Append(s, c)) # ToSet(q)
  BY <1>3, <1>5, <1>7, <1>8
<1>12. Made(s, list, n + 1) /\ Made(Append(s, c), list, n + 1)
  BY <1>7, <1>9, <1>10, <1>11 DEF Made, q, C
<1> QED
  BY <1>1, <1>3, <1>8, <1>12 DEF c, p, q

LEMMA AllTriedBeat ==
    ASSUME NEW list, Shortlisted(list), NEW n \in 0..Len(list), NEW s, Made(s, list, n)
    PROVE  /\ s = Tried(list, n) \/ (/\ Events(s) # Events(Tried(list, n))
                                     /\ Beats(Tried(list, n), s))
           /\ \A days \in Nat : Reaches(s, days) => Reaches(list, days)
<1> DEFINE p == Tried(list, n)
           C == ToSet(list)
<1>1. list \in Seq(Picks) /\ C \in SUBSET Picks /\ Len(list) \in Nat /\ \A c \in C : c.log > 0
  BY SeqElements, LenProperties DEF Shortlisted
<1>2. Accumulator(p, C) /\ Accumulator(Tried(list, Len(list)), C) /\ Tried(list, Len(list)) = list
  BY <1>1, PrefixAccumulator DEF Shortlisted, Tried
<1>3. ToSet(s) \subseteq ToSet(p) /\ (s = p \/ ToSet(s) # ToSet(p)) /\ Accumulator(s, C)
  BY DEF Made
<1> HIDE DEF p, C
<1>4. ToSet(s) \subseteq ToSet(list)
  BY <1>3 DEF Accumulator, Selection, C
<1>5. /\ Log(s) <= Log(list) /\ Log(s) \in Int /\ Log(list) \in Int
      /\ Cardinality(Weekly!Days(s)) <= Cardinality(Weekly!Days(list))
      /\ Cardinality(Weekly!Days(s)) \in Nat /\ Cardinality(Weekly!Days(list)) \in Nat
  BY <1>1, <1>2, <1>3, <1>4, AccumulatorsOfMore
<1>6. \A days \in Nat : Reaches(s, days) => Reaches(list, days)
  BY <1>5, GeneratorsAssumption DEF Reaches
<1>7. ASSUME s # p PROVE Events(s) # Events(p) /\ Beats(p, s)
  <2>1. /\ Log(s) < Log(p) /\ Events(s) # Events(p)
        /\ Log(s) \in Int /\ Log(p) \in Int
        /\ Cardinality(Weekly!Days(s)) <= Cardinality(Weekly!Days(p))
        /\ Cardinality(Weekly!Days(s)) \in Nat /\ Cardinality(Weekly!Days(p)) \in Nat
    BY <1>1, <1>2, <1>3, <1>7, AccumulatorsOfMore
  <2>2. Beats(p, s)
    BY <2>1 DEF Beats
  <2> QED
    BY <2>1, <2>2
<1> QED
  BY <1>6, <1>7 DEF p

Finding(ss, list, n, days) ==
    /\ ss \in Seq(Seq(Picks)) /\ Len(ss) <= BeamWidth
    /\ n \in 0..Len(list)
    /\ Tried(list, n) \in ToSet(ss)
    /\ \A s \in ToSet(ss) : Made(s, list, n) /\ ~Reaches(s, days)

Finished(t, list, days) ==
    /\ t # <<>> <=> Reaches(list, days)
    /\ t # <<>> => /\ Accumulator(t, ToSet(list))
                   /\ Reaches(t, days) /\ ~Reaches(Front(t), days)

WeeklyState(ps, w, list, n, ss, t, r) ==
    /\ ps = <<>> => ss = <<>> /\ list = <<>> /\ t = <<>> /\ r = "none"
    /\ ps # <<>> => WeeklyPage(ps, w, list)
    /\ ss # <<>> => Finding(ss, list, n, w.days) /\ t = <<>> /\ r = "none"
    /\ ps # <<>> /\ ss = <<>> => Finished(t, list, w.days)
    /\ r \in {"none", "200", "422"}
    /\ r # "none" => (r = "200" <=> t # <<>>)

WeeklyInv ==
    IF strategy = "weekly"
    THEN WeeklyState(pages, wish, shortlist, tried, states, chosen, reply)
    ELSE states = <<>> /\ shortlist = <<>> /\ chosen = <<>>

LEMMA ExtendedElements ==
    ASSUME states \in Seq(Seq(Picks)), NEW c \in Picks
    PROVE  /\ Weekly!Extended(c) \in Seq(Seq(Picks))
           /\ \A e \in ToSet(Weekly!Extended(c)) : \E s \in ToSet(states) :
                 c.event \notin Events(s) /\ e = Append(s, c)
           /\ \A s \in ToSet(states) :
                 c.event \notin Events(s) => Append(s, c) \in ToSet(Weekly!Extended(c))
<1> DEFINE K == {n \in DOMAIN states : c.event \notin Events(states[n])}
           open == Kept(states, K)
           t == Weekly!Extended(c)
<1>1. t = [n \in DOMAIN open |-> Append(open[n], c)]
  <2>1. {n \in DOMAIN states : c.event \notin Weekly!EventsOf(states[n])} = K
    BY SameSums
  <2> HIDE DEF K
  <2>2. Weekly!Kept(states, K) = open
    BY SameLists
  <2> HIDE DEF open
  <2> QED
    BY <2>1, <2>2 DEF Weekly!Extended
<1>2. K \in SUBSET DOMAIN states
  OBVIOUS
<1>3. {states[i] : i \in K} = {s \in ToSet(states) : c.event \notin Events(s)}
  BY DEF ToSet
<1> HIDE DEF K
<1>4. open \in Seq(Seq(Picks)) /\ ToSet(open) = {states[i] : i \in K}
  BY <1>2, KeptElements, KeptRange
<1> HIDE DEF open, t
<1>5. Len(open) \in Nat /\ DOMAIN open = 1..Len(open) /\ \A n \in 1..Len(open) : open[n] \in Seq(Picks)
  BY <1>4, LenProperties
<1>6. \A n \in 1..Len(open) : Append(open[n], c) \in Seq(Picks)
  BY <1>5, AppendProperties
<1>7. t \in Seq(Seq(Picks)) /\ DOMAIN t = DOMAIN open
  BY <1>1, <1>5, <1>6
<1>8. ToSet(t) = {Append(s, c) : s \in ToSet(open)}
  BY <1>1, <1>7 DEF ToSet
<1> QED
  BY <1>3, <1>4, <1>7, <1>8 DEF t

(* One candidate more. *)
LEMMA NextTried ==
    ASSUME Shortlisted(shortlist), Finding(states, shortlist, tried, wish.days),
           wish.days \in Nat, Weekly!TryCandidate
    PROVE  /\ states' # <<>> =>
                 Finding(states', shortlist, tried + 1, wish.days) /\ chosen' = chosen
           /\ states' = <<>> => Finished(chosen', shortlist, wish.days)
<1> DEFINE c == shortlist[tried + 1]
           x == Weekly!Extended(c)
           I == {i \in 1..Len(x) : Weekly!Qualifies(x[i])}
           k == Weekly!SelectInSeq(x, Weekly!Qualifies)
           all == states \o x
<1>1. /\ tried < Len(shortlist)
      /\ k # 0 => chosen' = x[k] /\ states' = <<>>
      /\ k = 0 => states' = Weekly!Prune(all) /\ chosen' = chosen
  BY DEF Weekly!TryCandidate
<1>2. k = IF I # {} THEN Weekly!Min(I) ELSE 0
  BY DEF Weekly!SelectInSeq
<1> HIDE DEF k
<1>3. /\ shortlist \in Seq(Picks) /\ Len(shortlist) \in Nat /\ tried \in 0..(Len(shortlist) - 1)
      /\ tried + 1 \in 0..Len(shortlist)
  BY <1>1, LenProperties DEF Finding, Shortlisted
<1>4. \A s \in ToSet(states) : Made(s, shortlist, tried) /\ ~Reaches(s, wish.days)
  BY DEF Finding
<1>5. Tried(shortlist, tried) \in ToSet(states) /\ states \in Seq(Seq(Picks))
  BY DEF Finding
<1>6. \A s \in ToSet(states) :
         /\ c \in Picks /\ c.event \notin Events(s)
         /\ Made(s, shortlist, tried + 1) /\ Made(Append(s, c), shortlist, tried + 1)
  BY <1>3, <1>4, MadeGrows
<1>7. c \in Picks /\ Tried(shortlist, tried + 1) = Append(Tried(shortlist, tried), c)
  BY <1>3, <1>4, <1>5, MadeGrows
<1> HIDE DEF c
<1>8. /\ x \in Seq(Seq(Picks))
      /\ \A e \in ToSet(x) : \E s \in ToSet(states) : c.event \notin Events(s) /\ e = Append(s, c)
      /\ \A s \in ToSet(states) : c.event \notin Events(s) => Append(s, c) \in ToSet(x)
  BY <1>5, <1>7, ExtendedElements
<1> HIDE DEF x
<1>9. \A s \in ToSet(states) : s \in Seq(Picks)
  BY <1>5, SeqElements
<1>10. CASE I # {}
  <2>1. I \in SUBSET Nat
    BY <1>8, LenProperties
  <2> HIDE DEF I
  <2>2. PICK m \in I : \A n \in I : m <= n
    BY <2>1, <1>10, LeastOf
  <2>3. k \in I
    BY <2>2, <1>2, <1>10 DEF Weekly!Min
  <2>4. k # 0 /\ k \in 1..Len(x) /\ Weekly!Qualifies(x[k])
    BY <2>3 DEF I
  <2>5. x[k] \in ToSet(x) /\ Reaches(x[k], wish.days)
    BY <2>4, <1>8, SeqElements, QualifiesMeans
  <2>6. PICK s \in ToSet(states) : x[k] = Append(s, c)
    BY <2>5, <1>8
  <2>7. Front(x[k]) = s /\ Len(x[k]) = Len(s) + 1 /\ Len(s) \in Nat
    BY <2>6, <1>7, <1>9, AppendElements, LenProperties
  <2>8. x[k] # <<>> /\ ~Reaches(Front(x[k]), wish.days)
    BY <2>7, <1>4
  <2>9. Made(x[k], shortlist, tried + 1)
    BY <2>6, <1>6
  <2>10. Reaches(shortlist, wish.days) /\ Accumulator(x[k], ToSet(shortlist))
    BY <2>5, <2>9, <1>3, AllTriedBeat DEF Made
  <2>11. Finished(x[k], shortlist, wish.days)
    BY <2>5, <2>8, <2>10 DEF Finished
  <2> QED
    BY <2>4, <2>11, <1>1
<1>11. CASE I = {}
  <2>1. k = 0
    BY <1>2, <1>11
  <2>2. \A e \in ToSet(x) : ~Reaches(e, wish.days)
    <3>1. \A e \in ToSet(x) : \E i \in 1..Len(x) : x[i] = e
      BY <1>8, SeqElements
    <3> QED
      BY <3>1, <1>11, QualifiesMeans
  <2>3. all \in Seq(Seq(Picks)) /\ ToSet(all) = ToSet(states) \cup ToSet(x)
    <3>1. /\ Len(states) \in Nat /\ Len(x) \in Nat /\ Len(all) = Len(states) + Len(x)
          /\ all \in Seq(Seq(Picks))
          /\ \A i \in 1..Len(all) :
                all[i] = IF i <= Len(states) THEN states[i] ELSE x[i - Len(states)]
      BY <1>5, <1>8, ConcatProperties, LenProperties
    <3> DEFINE N == Len(states)
               L == Len(x)
    <3>2. /\ \A s \in ToSet(states) : \E i \in 1..N : states[i] = s
          /\ \A i \in 1..N : states[i] \in ToSet(states)
          /\ \A s \in ToSet(x) : \E i \in 1..L : x[i] = s
          /\ \A i \in 1..L : x[i] \in ToSet(x)
      BY <1>5, <1>8, SeqElements
    <3>3. /\ \A s \in ToSet(all) : \E i \in 1..(N + L) : all[i] = s
          /\ \A i \in 1..(N + L) : all[i] \in ToSet(all)
      BY <3>1, SeqElements
    <3>4. N \in Nat /\ L \in Nat
          /\ \A i \in 1..(N + L) : all[i] = IF i <= N THEN states[i] ELSE x[i - N]
      BY <3>1
    <3> HIDE DEF N, L, all
    <3>5. \A i \in 1..N : i \in 1..(N + L) /\ all[i] = states[i]
      BY <3>4
    <3>6. \A i \in 1..L : i + N \in 1..(N + L) /\ all[i + N] = x[i]
      <4> SUFFICES ASSUME NEW i \in 1..L PROVE i + N \in 1..(N + L) /\ all[i + N] = x[i]
        OBVIOUS
      <4>1. i + N \in 1..(N + L) /\ ~(i + N <= N) /\ (i + N) - N = i
        BY <3>4
      <4> QED
        BY <4>1, <3>4
    <3>7. ASSUME NEW i \in 1..(N + L) PROVE all[i] \in ToSet(states) \cup ToSet(x)
      <4>1. CASE i <= N
        BY <4>1, <3>2, <3>4
      <4>2. CASE ~(i <= N)
        <5>1. i - N \in 1..L
          BY <4>2, <3>4
        <5> QED
          BY <5>1, <4>2, <3>2, <3>4
      <4> QED
        BY <4>1, <4>2
    <3>8. ASSUME NEW s \in ToSet(states) \cup ToSet(x) PROVE s \in ToSet(all)
      <4>1. CASE s \in ToSet(states)
        BY <4>1, <3>2, <3>3, <3>5
      <4>2. CASE s \in ToSet(x)
        BY <4>2, <3>2, <3>3, <3>6
      <4> QED
        BY <4>1, <4>2
    <3>9. ToSet(all) = ToSet(states) \cup ToSet(x)
      BY <3>3, <3>7, <3>8
    <3> QED
      BY <3>1, <3>9
  <2> HIDE DEF all
  <2>4. \A s \in ToSet(all) : Made(s, shortlist, tried + 1) /\ ~Reaches(s, wish.days)
    BY <2>2, <2>3, <1>4, <1>6, <1>8
  <2> DEFINE p == Tried(shortlist, tried + 1)
  <2>5. p \in ToSet(all)
    BY <2>3, <1>5, <1>6, <1>7, <1>8
  <2>6. \A s \in ToSet(all) : s = p \/ (Events(s) # Events(p) /\ Beats(p, s))
    BY <2>4, <1>3, AllTriedBeat
  <2>7. /\ Weekly!Prune(all) \in Seq(Seq(Picks)) /\ Len(Weekly!Prune(all)) <= BeamWidth
        /\ ToSet(Weekly!Prune(all)) \subseteq ToSet(all) /\ p \in ToSet(Weekly!Prune(all))
    BY <2>3, <2>5, <2>6, PruneElements
  <2>8. Finding(Weekly!Prune(all), shortlist, tried + 1, wish.days)
    BY <2>4, <2>7, <1>3 DEF Finding
  <2>9. Weekly!Prune(all) # <<>>
    BY <2>7, NoElements
  <2> QED
    BY <2>1, <2>8, <2>9, <1>1
<1> QED
  BY <1>10, <1>11

(* With no candidate left, none of the states qualifies. *)
LEMMA NoneQualifies ==
    ASSUME Shortlisted(shortlist), Finding(states, shortlist, tried, wish.days),
           wish.days \in Nat, Weekly!Conclude
    PROVE  chosen' = <<>> /\ Finished(chosen', shortlist, wish.days)
<1> DEFINE Q == {n \in DOMAIN states : Weekly!Qualifies(states[n])}
           kept == Weekly!Kept(states, Q)
           q == Weekly!StableSort(kept, LAMBDA a, b : Weekly!Score(a) > Weekly!Score(b))
<1>1. tried = Len(shortlist) /\ chosen' = IF q = <<>> THEN <<>> ELSE q[1]
  BY DEF Weekly!Conclude
<1>2. Q = {}
  <2>1. \A n \in DOMAIN states : states[n] \in ToSet(states)
    BY DEF ToSet
  <2> QED
    BY <2>1, QualifiesMeans DEF Finding
<1>3. q = [i \in DOMAIN kept |-> q[i]]
  BY DEF Weekly!StableSort
<1> HIDE DEF q
<1>4. kept = Kept(states, Q) /\ states \in Seq(Seq(Picks))
  BY SameLists DEF Finding
<1> HIDE DEF kept, Q
<1>5. Q \in SUBSET DOMAIN states /\ Cardinality(Q) = 0
  BY <1>2, FS_EmptySet
<1>6. kept \in Seq(Seq(Picks)) /\ Len(kept) = 0
  BY <1>4, <1>5, KeptElements
<1>7. kept = <<>>
  BY <1>6, EmptySeq
<1>8. q = <<>>
  BY <1>3, <1>7
<1>9. chosen' = <<>>
  BY <1>1, <1>8
<1>10. ~Reaches(shortlist, wish.days)
  <2>1. Tried(shortlist, tried) = shortlist
    BY <1>1, PrefixAccumulator DEF Tried, Shortlisted
  <2> QED
    BY <2>1 DEF Finding
<1> QED
  BY <1>9, <1>10 DEF Finished

LEMMA WeeklyPageElements ==
    ASSUME NEW ps, NEW w, NEW list, WeeklyPage(ps, w, list)
    PROVE  /\ Shortlisted(list) /\ w.days \in Nat
           /\ ToSet(list) \subseteq ToSet(Weekly!Eligible(LoopPredictions(ps[1]), w))
           /\ Weekly!Days(list) = Weekly!Days(Weekly!Eligible(LoopPredictions(ps[1]), w))
<1>1. PICK page \in Slates : ps = <<page>> /\ list = Weekly!Prepared(LoopPredictions(page), w)
  BY DEF WeeklyPage
<1>2. w \in Wishes /\ ps[1] = page
  BY <1>1 DEF WeeklyPage
<1>3. w.days \in Nat
  BY <1>2, GeneratorsAssumption
<1> QED
  BY <1>1, <1>2, <1>3, ShortlistElements

LEMMA WeeklyInvStarts ==
    ASSUME GeneratorsInit
    PROVE  WeeklyInv
  BY DEF GeneratorsInit, Init, WeeklyInv, WeeklyState

LEMMA WeeklyStarts ==
    ASSUME WeeklyInv, WeeklyStart
    PROVE  WeeklyInv'
<1>1. /\ strategy = "weekly" /\ strategy' = strategy /\ reply = "none" /\ reply' = reply
      /\ \E page \in Slates, w \in Wishes :
            pages' = <<page>> /\ Weekly!Generate(LoopPredictions(page), w)
  BY DEF WeeklyStart, Fresh
<1>2. PICK page \in Slates, w \in Wishes :
         /\ pages' = <<page>>
         /\ wish' = w /\ shortlist' = Weekly!Prepared(LoopPredictions(page), w)
         /\ tried' = 0 /\ states' = << <<>> >> /\ chosen' = <<>>
  BY <1>1 DEF Weekly!Generate
<1>3. WeeklyPage(pages', wish', shortlist')
  BY <1>2 DEF WeeklyPage
<1>4. Shortlisted(shortlist') /\ wish'.days \in Nat
  BY <1>3, WeeklyPageElements
<1>5. states' \in Seq(Seq(Picks)) /\ Len(states') <= BeamWidth /\ ToSet(states') = {<<>>}
  <2>1. << <<>> >> \in Seq(Seq(Picks)) /\ Len(<< <<>> >>) = 1 /\ 1 <= BeamWidth
    BY OddsOptimizerAssumption
  <2>2. ToSet(<< <<>> >>) = {<<>>}
    BY DEF ToSet
  <2> QED
    BY <1>2, <2>1, <2>2
<1>6. Tried(shortlist', 0) = <<>> /\ 0 \in 0..Len(shortlist')
  BY <1>4, PrefixAccumulator, LenProperties DEF Tried, Shortlisted
<1>7. ~Reaches(<<>>, wish'.days)
  BY SumsOfNone, GeneratorsAssumption DEF Reaches
<1>8. Made(<<>>, shortlist', 0)
  BY <1>6, EmptyAccumulator DEF Made
<1>9. Finding(states', shortlist', tried', wish'.days)
  BY <1>2, <1>5, <1>6, <1>7, <1>8 DEF Finding
<1>10. pages' # <<>> /\ states' # <<>>
  BY <1>2
<1>11. WeeklyState(pages', wish', shortlist', tried', states', chosen', reply')
  BY <1>1, <1>2, <1>3, <1>9, <1>10 DEF WeeklyState
<1> QED
  BY <1>1, <1>11 DEF WeeklyInv

LEMMA WeeklyStepKeeps ==
    ASSUME WeeklyInv, WeeklyStep
    PROVE  WeeklyInv'
<1>1. /\ Weekly!TryCandidate \/ Weekly!Conclude
      /\ pages' = pages /\ reply' = reply /\ strategy' = strategy
  BY DEF WeeklyStep, vars
<1>2. states # <<>>
  BY <1>1 DEF Weekly!TryCandidate, Weekly!Conclude, Weekly!Searching
<1>3. strategy = "weekly" /\ WeeklyState(pages, wish, shortlist, tried, states, chosen, reply)
  BY <1>2 DEF WeeklyInv
<1>4. /\ pages # <<>> /\ WeeklyPage(pages, wish, shortlist)
      /\ Finding(states, shortlist, tried, wish.days) /\ chosen = <<>> /\ reply = "none"
  BY <1>2, <1>3 DEF WeeklyState
<1>5. Shortlisted(shortlist) /\ wish.days \in Nat
  BY <1>4, WeeklyPageElements
<1>6. CASE Weekly!TryCandidate
  <2>1. wish' = wish /\ shortlist' = shortlist /\ tried' = tried + 1
    BY <1>6 DEF Weekly!TryCandidate
  <2>2. /\ states' # <<>> => /\ Finding(states', shortlist', tried', wish'.days)
                             /\ chosen' = <<>>
        /\ states' = <<>> => Finished(chosen', shortlist', wish'.days)
    BY <2>1, <1>4, <1>5, <1>6, NextTried
  <2>3. WeeklyState(pages', wish', shortlist', tried', states', chosen', reply')
    BY <2>1, <2>2, <1>1, <1>4 DEF WeeklyState
  <2> QED
    BY <2>3, <1>1, <1>3 DEF WeeklyInv
<1>7. CASE Weekly!Conclude
  <2>1. wish' = wish /\ shortlist' = shortlist /\ states' = <<>>
    BY <1>7 DEF Weekly!Conclude
  <2>2. Finished(chosen', shortlist', wish'.days)
    BY <2>1, <1>4, <1>5, <1>7, NoneQualifies
  <2>3. WeeklyState(pages', wish', shortlist', tried', states', chosen', reply')
    BY <2>1, <2>2, <1>1, <1>4 DEF WeeklyState
  <2> QED
    BY <2>3, <1>1, <1>3 DEF WeeklyInv
<1> QED
  BY <1>1, <1>6, <1>7

LEMMA WeeklyAnswers ==
    ASSUME WeeklyInv, WeeklyEnds
    PROVE  WeeklyInv'
<1>1. /\ strategy = "weekly" /\ strategy' = strategy /\ pages # <<>> /\ states = <<>>
      /\ reply' = (IF chosen = <<>> THEN "422" ELSE "200") /\ pages' = pages
      /\ wish' = wish /\ shortlist' = shortlist /\ tried' = tried /\ states' = states
      /\ chosen' = chosen
  BY DEF WeeklyEnds, Idle, Answer, Reply, weekly
<1>2. WeeklyState(pages, wish, shortlist, tried, states, chosen, reply)
  BY <1>1 DEF WeeklyInv
<1>3. WeeklyState(pages', wish', shortlist', tried', states', chosen', reply')
  BY <1>1, <1>2 DEF WeeklyState
<1> QED
  BY <1>1, <1>3 DEF WeeklyInv

LEMMA WeeklyInvKept ==
    ASSUME WeeklyInv, [GeneratorsNext]_allVars
    PROVE  WeeklyInv'
<1>1. ASSUME UNCHANGED allVars PROVE WeeklyInv'
  <2>1. /\ strategy' = strategy /\ pages' = pages /\ reply' = reply
        /\ wish' = wish /\ shortlist' = shortlist /\ tried' = tried /\ states' = states
        /\ chosen' = chosen
    BY <1>1 DEF allVars, vars, weekly
  <2> QED
    BY <2>1 DEF WeeklyInv
<1>2. ASSUME strategy # "weekly", UNCHANGED <<strategy, weekly>> PROVE WeeklyInv'
  BY <1>2 DEF WeeklyInv, weekly
<1>3. CASE Custom \/ OneK \/ OneKEnds \/ StrategyRound \/ FiveK \/ FiveKAttempt \/ FiveKEnds
  <2>1. strategy # "weekly" /\ UNCHANGED <<strategy, weekly>>
    BY <1>3 DEF Custom, OneK, OneKEnds, StrategyRound, FiveK, FiveKAttempt, FiveKEnds,
                Fresh, Idle
  <2> QED
    BY <2>1, <1>2
<1>4. CASE RouteFetches \/ RouteOutage \/ RouteEnds
  <2>1. strategy # "weekly" /\ UNCHANGED <<strategy, weekly>>
    BY <1>4 DEF RouteFetches, RouteOutage, RouteEnds, Routes
  <2> QED
    BY <2>1, <1>2
<1>5. CASE GeneratorAnswered
  BY <1>5, <1>1 DEF GeneratorAnswered
<1> QED
  BY <1>1, <1>3, <1>4, <1>5, WeeklyStarts, WeeklyStepKeeps, WeeklyAnswers DEF GeneratorsNext

(* The prefix of all candidates tried is always a state: it leads in days and *)
(* in odds, so that _prune of the weekly generator never drops it.            *)
THEOREM WeeklyIsInvariant == GeneratorsSpec => []WeeklyInv
  BY WeeklyInvStarts, WeeklyInvKept, PTL DEF GeneratorsSpec

(* The weekly generator (weekly_safe_generator.py) finds a ticket exactly     *)
(* when its candidates, all together, reach the target and cover the days,    *)
(* whatever _prune drops; no day is lost, and the ticket is sound.            *)
THEOREM WeeklyIsExactAlways == GeneratorsSpec => []WeeklyIsExact
<1>1. WeeklyInv => WeeklyIsExact
  <2> SUFFICES ASSUME WeeklyInv, strategy = "weekly", reply # "none"
               PROVE  LET confident == Weekly!Eligible(LoopPredictions(pages[1]), wish)
                      IN  /\ reply = "200" <=> Weekly!Qualifies(shortlist)
                          /\ Weekly!Days(shortlist) = Weekly!Days(confident)
                          /\ reply = "200" =>
                                /\ Weekly!Qualifies(chosen)
                                /\ ~Weekly!Qualifies(Front(chosen))
                                /\ ToSet(chosen) \subseteq ToSet(confident)
                                /\ Cardinality(Events(chosen)) = Len(chosen)
    BY DEF WeeklyIsExact
  <2> DEFINE confident == Weekly!Eligible(LoopPredictions(pages[1]), wish)
  <2>1. WeeklyState(pages, wish, shortlist, tried, states, chosen, reply)
    BY DEF WeeklyInv
  <2>2. pages # <<>> /\ states = <<>> /\ Finished(chosen, shortlist, wish.days)
        /\ (reply = "200" <=> chosen # <<>>) /\ WeeklyPage(pages, wish, shortlist)
    BY <2>1 DEF WeeklyState
  <2>3. /\ ToSet(shortlist) \subseteq ToSet(confident)
        /\ Weekly!Days(shortlist) = Weekly!Days(confident)
    BY <2>2, WeeklyPageElements
  <2> HIDE DEF confident
  <2>4. reply = "200" <=> Weekly!Qualifies(shortlist)
    BY <2>2, QualifiesMeans DEF Finished
  <2>5. ASSUME reply = "200"
        PROVE  /\ Weekly!Qualifies(chosen)
               /\ ~Weekly!Qualifies(Front(chosen))
               /\ ToSet(chosen) \subseteq ToSet(confident)
               /\ Cardinality(Events(chosen)) = Len(chosen)
    <3>1. /\ Accumulator(chosen, ToSet(shortlist))
          /\ Reaches(chosen, wish.days) /\ ~Reaches(Front(chosen), wish.days)
      BY <2>2, <2>5 DEF Finished
    <3>2. ToSet(chosen) \subseteq ToSet(shortlist) /\ Cardinality(Events(chosen)) = Len(chosen)
      BY <3>1 DEF Accumulator, Selection
    <3> QED
      BY <3>1, <3>2, <2>3, QualifiesMeans
  <2> QED
    BY <2>3, <2>4, <2>5 DEF confident
<1> QED
  BY <1>1, WeeklyIsInvariant, PTL

(* The state has its types; no round of either search keeps more states than  *)
(* its beam is wide (_dedupe_states, _prune), all states of a round of the     *)
(* optimizer are as long, and everything selected is one of the candidates.   *)
THEOREM TypeOKAlways == GeneratorsSpec => []TypeOK
<1>1. ASSUME SearchInv, WeeklyInv PROVE TypeOK
  <2>1. /\ wanted \in Markets \cup {Unfiltered, Unknown}
        /\ reply \in {"none", "200", "422", "500", "502"}
        /\ Len(pages) <= (IF strategy \in Routes THEN Fetches ELSE MaxPages)
        /\ pages \in Seq(Feed \cup Slates \cup {<<>>})
        /\ SearchOf(candidates, beam, ticket)
    BY <1>1 DEF SearchInv, SearchTypes
  <2>2. ToSet(pages) \subseteq Feed \cup Slates \cup {<<>>}
    BY <2>1, SeqElements
  <2>3. /\ Len(beam) <= BeamWidth
        /\ beam # <<>> => ticket = <<>> /\ LeadsRound(beam, ToSet(candidates))
        /\ ticket # <<>> => Shortest(ticket, ToSet(candidates))
    BY <2>1 DEF SearchOf
  <2>4. ToSet(<<>>) = {} /\ Len(<<>>) = 0
    BY NoElements
  <2>5. \A a, b \in ToSet(beam) : Len(a) = Len(b)
    BY <2>3, <2>4 DEF LeadsRound
  <2>6. \A s \in ToSet(beam) : ToSet(s) \subseteq ToSet(candidates)
    <3>1. \A s \in ToSet(beam) : Accumulator(s, ToSet(candidates))
      BY <2>3, <2>4 DEF LeadsRound
    <3> QED
      BY <3>1 DEF Accumulator, Selection
  <2>7. ToSet(ticket) \subseteq ToSet(candidates)
    BY <2>3, <2>4 DEF Shortest, Accumulator, Selection
  <2>8. /\ Len(states) <= BeamWidth
        /\ \A s \in ToSet(states) \cup {chosen} : ToSet(s) \subseteq ToSet(shortlist)
    <3>0. 0 <= BeamWidth
      BY OddsOptimizerAssumption
    <3>1. CASE strategy # "weekly"
      BY <3>0, <3>1, <1>1, <2>4 DEF WeeklyInv
    <3>2. CASE strategy = "weekly"
      <4>1. WeeklyState(pages, wish, shortlist, tried, states, chosen, reply)
        BY <3>2, <1>1 DEF WeeklyInv
      <4>2. CASE states # <<>>
        <5>1. Finding(states, shortlist, tried, wish.days) /\ chosen = <<>>
          BY <4>1, <4>2 DEF WeeklyState
        <5>2. \A s \in ToSet(states) : Accumulator(s, ToSet(shortlist))
          BY <5>1 DEF Finding, Made
        <5>3. \A s \in ToSet(states) : ToSet(s) \subseteq ToSet(shortlist)
          BY <5>2 DEF Accumulator, Selection
        <5> QED
          BY <5>1, <5>3, <2>4 DEF Finding
      <4>3. CASE states = <<>>
        <5>1. chosen # <<>> => Accumulator(chosen, ToSet(shortlist))
          BY <4>1, <4>3 DEF WeeklyState, Finished
        <5>2. ToSet(chosen) \subseteq ToSet(shortlist)
          BY <5>1, <2>4 DEF Accumulator, Selection
        <5> QED
          BY <5>2, <4>3, <3>0, <2>4
      <4> QED
        BY <4>2, <4>3
    <3> QED
      BY <3>1, <3>2
  <2> QED
    BY <2>1, <2>2, <2>3, <2>5, <2>6, <2>7, <2>8 DEF TypeOK
<1> QED
  BY <1>1, SearchIsInvariant, WeeklyIsInvariant, PTL

=============================================================================
