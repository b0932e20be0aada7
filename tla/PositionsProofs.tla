---------------------------- MODULE PositionsProofs ----------------------------
(***************************************************************************)
(* What Pick(s, S) returns, for every list s and set S of its positions.   *)
(* The lemmas on counting stand where an induction would: a set of         *)
(* positions has a smallest initial part with n members.                   *)
(***************************************************************************)
EXTENDS Positions, FiniteSetTheorems, WellFoundedInduction, TLAPS

LEMMA SmallestFiniteSet ==
    ASSUME NEW S, IsFiniteSet(S), NEW F, \A X \in F : X \subseteq S, F # {}
    PROVE  \E X \in F : \A Y \in F : Y \subseteq X => Y = X
<1>1. F \subseteq FiniteSubsetsOf(S)
  BY FS_Subset DEF FiniteSubsetsOf
<1>2. PICK X \in F : \A Y \in F : <<Y, X>> \notin StrictSubsetOrdering(S)
  BY <1>1, FS_StrictSubsetOrderingWellFounded, WFMin
<1> QED BY <1>2 DEF StrictSubsetOrdering

Above(S, i) == {k \in S : k > i}

LEMMA GreatestExists ==
    ASSUME NEW S \in SUBSET Nat, IsFiniteSet(S), S # {}
    PROVE  \E m \in S : \A k \in S : k <= m
<1>1. PICK m \in S : \A j \in S : Above(S, j) \subseteq Above(S, m) => Above(S, j) = Above(S, m)
  <2> DEFINE F == {Above(S, i) : i \in S}
  <2>1. (\A X \in F : X \subseteq S) /\ F # {}
    BY DEF Above
  <2>2. \E X \in F : \A Y \in F : Y \subseteq X => Y = X
    <3> HIDE DEF F
    <3> QED BY <2>1, SmallestFiniteSet
  <2> QED BY <2>2
<1>2. ASSUME NEW k \in S, ~(k <= m) PROVE FALSE
  <2>1. k \in Nat /\ m \in Nat /\ k > m
    BY <1>2
  <2>2. k \in Above(S, m) /\ k \notin Above(S, k)
    BY <2>1 DEF Above
  <2>3. ASSUME NEW j \in S, j > k PROVE j > m
    BY <2>1, <2>3
  <2>4. Above(S, k) \subseteq Above(S, m)
    BY <2>3 DEF Above
  <2> QED BY <2>2, <2>4, <1>1
<1> QED BY <1>2

Below(S, i) == {k \in S : k < i}

LEMMA LeastExists ==
    ASSUME NEW S \in SUBSET Nat, IsFiniteSet(S), S # {}
    PROVE  \E m \in S : \A k \in S : m <= k
<1>1. PICK m \in S : \A j \in S : Below(S, j) \subseteq Below(S, m) => Below(S, j) = Below(S, m)
  <2> DEFINE F == {Below(S, i) : i \in S}
  <2>1. (\A X \in F : X \subseteq S) /\ F # {}
    BY DEF Below
  <2>2. \E X \in F : \A Y \in F : Y \subseteq X => Y = X
    <3> HIDE DEF F
    <3> QED BY <2>1, SmallestFiniteSet
  <2> QED BY <2>2
<1>2. ASSUME NEW k \in S, ~(m <= k) PROVE FALSE
  <2>1. k \in Nat /\ m \in Nat /\ k < m
    BY <1>2
  <2>2. k \in Below(S, m) /\ k \notin Below(S, k)
    BY <2>1 DEF Below
  <2>3. ASSUME NEW j \in S, j < k PROVE j < m
    BY <2>1, <2>3
  <2>4. Below(S, k) \subseteq Below(S, m)
    BY <2>3 DEF Below
  <2> QED BY <2>2, <2>4, <1>1
<1> QED BY <1>2

LEMMA NthExists ==
    ASSUME NEW S \in SUBSET Nat, IsFiniteSet(S), NEW n \in 1..Cardinality(S)
    PROVE  Nth(S, n) \in S /\ Cardinality({k \in S : k <= Nth(S, n)}) = n
<1> DEFINE Initial(T) == \A i \in T, k \in S : k <= i => k \in T
           F == {T \in SUBSET S : Initial(T) /\ Cardinality(T) >= n}
<1>1. (\A X \in F : X \subseteq S) /\ F # {}
  <2>1. Cardinality(S) \in Nat /\ n \in Nat
    BY FS_CardinalityType
  <2>2. S \in F
    BY <2>1
  <2> QED BY <2>2
<1>2. PICK X \in F : \A Y \in F : Y \subseteq X => Y = X
  <2> HIDE DEF F
  <2> QED BY <1>1, SmallestFiniteSet
<1>3. X \in SUBSET S /\ Initial(X) /\ Cardinality(X) >= n
  BY <1>2
<1>4. IsFiniteSet(X) /\ Cardinality(X) \in Nat
  BY <1>3, FS_Subset, FS_CardinalityType
<1>5. X # {}
  BY <1>3, FS_EmptySet
<1>6. PICK m \in X : \A k \in X : k <= m
  BY <1>3, <1>4, <1>5, GreatestExists
<1>7. X = {k \in S : k <= m}
  BY <1>3, <1>6
<1>8. Cardinality(X) = n
  <2> SUFFICES ASSUME Cardinality(X) > n PROVE FALSE
    BY <1>3, <1>4
  <2>1. Cardinality(X \ {m}) = Cardinality(X) - 1
    BY <1>4, <1>6, FS_RemoveElement
  <2>2. Cardinality(X \ {m}) >= n
    BY <2>1, <1>4
  <2>3. Initial(X \ {m})
    <3> SUFFICES ASSUME NEW i \in X \ {m}, NEW k \in S, k <= i PROVE k \in X /\ k # m
      OBVIOUS
    <3>1. i \in Nat /\ k \in Nat /\ m \in Nat /\ i <= m /\ i # m
      BY <1>3, <1>6
    <3>2. k # m
      BY <3>1
    <3> QED BY <3>2, <1>3
  <2>4. X \ {m} \in F
    BY <2>2, <2>3, <1>3
  <2> QED BY <2>4, <1>2, <1>6
<1> QED BY <1>3, <1>6, <1>7, <1>8 DEF Nth

LEMMA PickType ==
    ASSUME NEW T, NEW s \in Seq(T), NEW S \in SUBSET DOMAIN s
    PROVE  Pick(s, S) \in Seq(T)
<1>1. Len(s) \in Nat /\ DOMAIN s = 1..Len(s)
  OBVIOUS
<1>2. S \in SUBSET Nat /\ IsFiniteSet(S)
  <2>1. S \in SUBSET (1..Len(s)) /\ IsFiniteSet(1..Len(s))
    BY <1>1, FS_Interval
  <2>2. IsFiniteSet(S)
    BY <2>1, FS_Subset
  <2> QED BY <2>1, <2>2
<1>3. Cardinality(S) \in Nat
  BY <1>2, FS_CardinalityType
<1>4. ASSUME NEW n \in 1..Cardinality(S) PROVE s[Nth(S, n)] \in T
  <2>1. Nth(S, n) \in S
    BY <1>2, NthExists
  <2> QED BY <2>1, <1>1
<1> QED BY <1>3, <1>4 DEF Pick

LEMMA NthOfRank ==
    ASSUME NEW S \in SUBSET Nat, IsFiniteSet(S), NEW i \in S
    PROVE  \E n \in 1..Cardinality(S) : Nth(S, n) = i
<1> DEFINE UpTo(j) == {k \in S : k <= j}
           n == Cardinality(UpTo(i))
<1>1. \A j \in S : IsFiniteSet(UpTo(j)) /\ Cardinality(UpTo(j)) \in Nat
  BY FS_Subset, FS_CardinalityType
<1>2. n \in 1..Cardinality(S)
  <2>1. i \in UpTo(i) /\ UpTo(i) \in SUBSET S
    OBVIOUS
  <2> HIDE DEF UpTo
  <2>2. IsFiniteSet(UpTo(i)) /\ n \in Nat
    BY <1>1
  <2>3. n # 0
    BY <2>1, <2>2, FS_EmptySet
  <2>4. n <= Cardinality(S) /\ Cardinality(S) \in Nat
    BY <2>1, FS_Subset, FS_CardinalityType
  <2> QED BY <2>2, <2>3, <2>4
<1>3. Nth(S, n) \in S /\ Cardinality(UpTo(Nth(S, n))) = n
  BY <1>2, NthExists
<1> DEFINE j == Nth(S, n)
<1>4. i \in Nat /\ j \in Nat
  BY <1>3
<1>5. UpTo(i) \subseteq UpTo(j) \/ UpTo(j) \subseteq UpTo(i)
  <2>1. ASSUME NEW a \in Nat, NEW b \in Nat, a <= b PROVE UpTo(a) \subseteq UpTo(b)
    <3>1. ASSUME NEW k \in S, k <= a PROVE k <= b
      BY <2>1, <3>1
    <3> QED BY <3>1
  <2> HIDE DEF UpTo, j
  <2>2. i <= j \/ j <= i
    BY <1>4
  <2> QED BY <1>4, <2>1, <2>2
<1>6. UpTo(i) = UpTo(j)
  <2> HIDE DEF UpTo, n, j
  <2>1. Cardinality(UpTo(i)) = Cardinality(UpTo(j)) /\ IsFiniteSet(UpTo(i)) /\ IsFiniteSet(UpTo(j))
    BY <1>1, <1>3 DEF n, j
  <2> QED BY <1>5, <2>1, FS_Subset
<1>7. i <= j /\ j <= i
  <2>1. i \in UpTo(i) /\ j \in UpTo(j)
    BY <1>3, <1>4
  <2> QED BY <1>6, <2>1
<1>8. i = j
  BY <1>4, <1>7
<1> QED BY <1>2, <1>8

\* The entries of Pick(s, S) are those of s at S, each as often as there.
LEMMA PickEntries ==
    ASSUME NEW T, NEW s \in Seq(T), NEW S \in SUBSET DOMAIN s
    PROVE  /\ \A x : (\E n \in DOMAIN Pick(s, S) : Pick(s, S)[n] = x) <=> \E i \in S : s[i] = x
           /\ (\A i, j \in S : s[i] = s[j] => i = j) =>
                \A m, n \in DOMAIN Pick(s, S) : Pick(s, S)[m] = Pick(s, S)[n] => m = n
<1>1. S \in SUBSET Nat /\ IsFiniteSet(S)
  <2>1. Len(s) \in Nat /\ S \in SUBSET (1..Len(s)) /\ IsFiniteSet(1..Len(s))
    BY FS_Interval
  <2>2. IsFiniteSet(S)
    BY <2>1, FS_Subset
  <2> QED BY <2>1, <2>2
<1>2. DOMAIN Pick(s, S) = 1..Cardinality(S) /\ \A n \in 1..Cardinality(S) : Pick(s, S)[n] = s[Nth(S, n)]
  BY DEF Pick
<1>3. \A n \in 1..Cardinality(S) : Nth(S, n) \in S /\ Cardinality({k \in S : k <= Nth(S, n)}) = n
  BY <1>1, NthExists
<1>4. \A i \in S : \E n \in 1..Cardinality(S) : Nth(S, n) = i
  BY <1>1, NthOfRank
<1>5. \A m, n \in 1..Cardinality(S) : Nth(S, m) = Nth(S, n) => m = n
  BY <1>3
<1>6. ASSUME NEW x
      PROVE  (\E n \in DOMAIN Pick(s, S) : Pick(s, S)[n] = x) <=> \E i \in S : s[i] = x
  <2>1. ASSUME NEW n \in DOMAIN Pick(s, S), Pick(s, S)[n] = x PROVE \E i \in S : s[i] = x
    BY <1>2, <1>3, <2>1
  <2>2. ASSUME NEW i \in S, s[i] = x PROVE \E n \in DOMAIN Pick(s, S) : Pick(s, S)[n] = x
    BY <1>2, <1>4, <2>2
  <2> QED BY <2>1, <2>2
<1>7. ASSUME \A i, j \in S : s[i] = s[j] => i = j,
             NEW m \in DOMAIN Pick(s, S), NEW n \in DOMAIN Pick(s, S), Pick(s, S)[m] = Pick(s, S)[n]
      PROVE  m = n
  <2>1. Nth(S, m) \in S /\ Nth(S, n) \in S /\ s[Nth(S, m)] = s[Nth(S, n)]
    BY <1>2, <1>3, <1>7
  <2>2. Nth(S, m) = Nth(S, n)
    BY <1>7, <2>1
  <2> QED BY <1>2, <1>5, <2>2
<1> QED BY <1>6, <1>7

LEMMA NthGrows ==
    ASSUME NEW S \in SUBSET Nat, IsFiniteSet(S),
           NEW m \in 1..Cardinality(S), NEW n \in 1..Cardinality(S), m < n
    PROVE  Nth(S, m) < Nth(S, n)
<1> DEFINE UpTo(j) == {k \in S : k <= j}
<1>1. /\ Nth(S, m) \in S /\ Cardinality(UpTo(Nth(S, m))) = m
      /\ Nth(S, n) \in S /\ Cardinality(UpTo(Nth(S, n))) = n
  BY NthExists
<1>2. Nth(S, m) \in Nat /\ Nth(S, n) \in Nat /\ m \in Nat /\ n \in Nat
  <2>1. Cardinality(S) \in Nat
    BY FS_CardinalityType
  <2> HIDE DEF UpTo
  <2>2. m \in Nat /\ n \in Nat
    BY <2>1
  <2> QED BY <1>1, <2>2
<1>3. ASSUME Nth(S, n) <= Nth(S, m) PROVE FALSE
  <2>1. ASSUME NEW k \in S, k <= Nth(S, n) PROVE k <= Nth(S, m)
    BY <1>2, <1>3, <2>1
  <2>2. UpTo(Nth(S, n)) \in SUBSET UpTo(Nth(S, m))
    BY <2>1
  <2>3. IsFiniteSet(UpTo(Nth(S, m)))
    BY FS_Subset
  <2> HIDE DEF UpTo
  <2>4. Cardinality(UpTo(Nth(S, n))) <= Cardinality(UpTo(Nth(S, m)))
    BY <2>2, <2>3, FS_Subset
  <2>5. n <= m
    BY <1>1, <2>4
  <2> QED BY <1>2, <2>5
<1> QED BY <1>2, <1>3

\* The members of S in ascending order are the only such list.
LEMMA CountOf ==
    ASSUME NEW T, NEW k \in Nat, NEW e \in [1..k -> T],
           \A i, j \in 1..k : e[i] = e[j] => i = j,
           \A x \in T : \E i \in 1..k : e[i] = x
    PROVE  Cardinality(T) = k
<1>1. e \in Bijection(1..k, T)
  BY DEF Bijection, Injection, Surjection, IsInjective
<1>2. ExistsBijection(1..k, T)
  BY <1>1 DEF ExistsBijection
<1> QED BY <1>2, FS_CountingElements

LEMMA NthInOrder ==
    ASSUME NEW S \in SUBSET Nat, IsFiniteSet(S), NEW k \in Nat, NEW e \in [1..k -> S],
           \A m, n \in 1..k : m < n => e[m] < e[n],
           \A i \in S : \E n \in 1..k : e[n] = i
    PROVE  Cardinality(S) = k /\ \A n \in 1..k : Nth(S, n) = e[n]
<1> DEFINE UpTo(j) == {i \in S : i <= j}
<1>0. \A n \in 1..k : e[n] \in Nat
  OBVIOUS
<1>1. \A m, n \in 1..k : e[m] = e[n] => m = n
  <2> SUFFICES ASSUME NEW m \in 1..k, NEW n \in 1..k, m # n PROVE e[m] # e[n]
    OBVIOUS
  <2>1. m < n \/ n < m
    OBVIOUS
  <2>2. e[m] < e[n] \/ e[n] < e[m]
    BY <2>1
  <2> QED BY <1>0, <2>2
<1>2. Cardinality(S) = k
  <2>1. e \in Bijection(1..k, S)
    BY <1>1 DEF Bijection, Injection, Surjection, IsInjective
  <2>2. ExistsBijection(1..k, S)
    BY <2>1 DEF ExistsBijection
  <2> QED BY <2>2, FS_CountingElements
<1>3. ASSUME NEW n \in 1..k PROVE Cardinality(UpTo(e[n])) = n
  <2> DEFINE f == [m \in 1..n |-> e[m]]
  <2>1. ASSUME NEW m \in 1..n PROVE m \in 1..k /\ e[m] <= e[n]
    <3>1. m \in 1..k /\ (m < n \/ m = n)
      OBVIOUS
    <3>2. e[m] < e[n] \/ e[m] = e[n]
      BY <3>1
    <3> QED BY <1>0, <3>1, <3>2
  <2>2. f \in [1..n -> UpTo(e[n])]
    BY <2>1
  <2>3. \A i, j \in 1..n : f[i] = f[j] => i = j
    BY <1>1, <2>1
  <2>4. ASSUME NEW i \in UpTo(e[n]) PROVE \E m \in 1..n : f[m] = i
    <3>1. PICK m \in 1..k : e[m] = i
      OBVIOUS
    <3>2. ~(n < m)
      <4>1. e[m] <= e[n] /\ e[m] \in Nat /\ e[n] \in Nat
        BY <1>0, <3>1
      <4>2. n < m => e[n] < e[m]
        BY <3>1
      <4> QED BY <4>1, <4>2
    <3>3. m \in 1..n
      BY <3>2
    <3> QED BY <3>1, <3>3
  <2> HIDE DEF f, UpTo
  <2> QED BY <2>2, <2>3, <2>4, CountOf
<1>4. ASSUME NEW n \in 1..k PROVE Nth(S, n) = e[n]
  <2>1. Nth(S, n) \in S /\ Cardinality(UpTo(Nth(S, n))) = n
    BY <1>2, NthExists
  <2> HIDE DEF UpTo
  <2>2. PICK m \in 1..k : e[m] = Nth(S, n)
    BY <2>1
  <2>3. m = n
    BY <1>3, <2>1, <2>2
  <2> QED BY <2>2, <2>3
<1> QED BY <1>2, <1>4

=============================================================================
