---------------------------- MODULE NatSetLemmas ----------------------------
(***************************************************************************)
(* Facts about sets of natural numbers that the proofs of the components   *)
(* share: least and greatest elements, and induction in the form of a set  *)
(* that is closed under the successor.  They rest on the well-founded      *)
(* order of the natural numbers.                                           *)
(***************************************************************************)
EXTENDS Integers, FiniteSets, FiniteSetTheorems, WellFoundedInduction, TLAPS

\* A set of natural numbers that is not empty has a least element.
LEMMA NatMin ==
    ASSUME NEW T \in SUBSET Nat, T # {}
    PROVE  \E x \in T : \A y \in T : x <= y
<1> DEFINE R == {p \in Nat \X Nat : p[1] < p[2]}
<1>1. IsWellFoundedOn(R, Nat)
  BY NatLessThanWellFounded DEF OpToRel
<1>2. PICK x \in T : \A y \in T : <<y, x>> \notin R
  <2> HIDE DEF R
  <2> QED BY <1>1, WFMin
<1>3. \A y \in T : ~(y < x)
  BY <1>2
<1> QED BY <1>3

\* A bounded one has a greatest element.
LEMMA NatMax ==
    ASSUME NEW n \in Nat, NEW T \in SUBSET (0 .. n), T # {}
    PROVE  \E x \in T : \A y \in T : y <= x
<1> DEFINE U == {i \in 0 .. n : n - i \in T}
<1>1. U \in SUBSET Nat
  OBVIOUS
<1>2. U # {}
  <2>1. PICK t \in T : TRUE
    OBVIOUS
  <2>2. n - t \in 0 .. n /\ n - (n - t) = t
    OBVIOUS
  <2> QED BY <2>1, <2>2
<1>3. PICK x \in U : \A y \in U : x <= y
  <2> HIDE DEF U
  <2> QED BY <1>1, <1>2, NatMin
<1>4. \A y \in T : n - y \in U
  OBVIOUS
<1>5. n - x \in T
  BY <1>3
<1>6. \A y \in T : y <= n - x
  BY <1>3, <1>4
<1> QED BY <1>5, <1>6

\* Induction over the natural numbers.
LEMMA NatSetInduction ==
    ASSUME NEW S \in SUBSET Nat, 0 \in S, \A n \in S : n + 1 \in S
    PROVE  S = Nat
<1> SUFFICES ASSUME Nat \ S # {} PROVE FALSE
  OBVIOUS
<1>1. PICK x \in Nat \ S : \A y \in Nat \ S : x <= y
  BY NatMin
<1>2. x - 1 \in Nat /\ x - 1 < x
  BY <1>1
<1>3. x - 1 \in S
  BY <1>1, <1>2
<1> QED BY <1>1, <1>2, <1>3

\* A set closed downwards from 1 is the interval up to its cardinality.
LEMMA InitialSegment ==
    ASSUME NEW n \in Nat, NEW S \in SUBSET (1 .. n), \A k \in S : 1 .. k \subseteq S
    PROVE  Cardinality(S) \in 0 .. n /\ S = 1 .. Cardinality(S)
<1>1. CASE S = {}
  BY <1>1, FS_EmptySet
<1>2. CASE S # {}
  <2>1. S \in SUBSET (0 .. n)
    OBVIOUS
  <2>2. PICK m \in S : \A k \in S : k <= m
    BY <1>2, <2>1, NatMax
  <2>3. S = 1 .. m /\ m \in 1 .. n
    <3>1. m \in 1 .. n /\ 1 .. m \subseteq S
      BY <2>2
    <3>2. \A k \in S : k \in 1 .. m
      BY <2>2, <3>1
    <3> QED BY <3>1, <3>2
  <2>4. Cardinality(1 .. m) = m
    BY <2>3, FS_Interval
  <2> QED BY <2>3, <2>4
<1> QED BY <1>1, <1>2

\* A finite set of natural numbers can be listed in increasing order.
LEMMA IncreasingList ==
    ASSUME NEW T \in SUBSET Nat, IsFiniteSet(T)
    PROVE  \E q \in [1 .. Cardinality(T) -> T] : \A i, k \in DOMAIN q : i < k => q[i] < q[k]
<1> DEFINE Listed(A, n) == \E q \in [1 .. n -> A] : \A i, k \in 1 .. n : i < k => q[i] < q[k]
           S == {n \in Nat : \A A \in SUBSET Nat : IsFiniteSet(A) /\ Cardinality(A) = n => Listed(A, n)}
<1>1. 0 \in S
  <2>1. ASSUME NEW A \in SUBSET Nat PROVE Listed(A, 0)
    <3>1. [i \in 1 .. 0 |-> 0] \in [1 .. 0 -> A] /\ 1 .. 0 = {}
      OBVIOUS
    <3> QED BY <3>1
  <2> HIDE DEF Listed
  <2> QED BY <2>1
<1>2. ASSUME NEW n \in S PROVE n + 1 \in S
  <2>1. ASSUME NEW A \in SUBSET Nat, IsFiniteSet(A), Cardinality(A) = n + 1
        PROVE  Listed(A, n + 1)
    <3>1. A # {} /\ n \in Nat
      BY <2>1, FS_EmptySet
    <3>2. PICK x \in A : \A y \in A : x <= y
      BY <3>1, NatMin
    <3> DEFINE B == A \ {x}
    <3>3. IsFiniteSet(B) /\ Cardinality(B) = n /\ B \in SUBSET Nat
      <4>1. IsFiniteSet(A \ {x}) /\ Cardinality(A \ {x}) = Cardinality(A) - 1
        BY <2>1, FS_RemoveElement
      <4> QED BY <2>1, <3>1, <4>1
    <3>4. Listed(B, n)
      <4> HIDE DEF B, Listed
      <4> QED BY <3>3
    <3>5. PICK q \in [1 .. n -> B] : \A i, k \in 1 .. n : i < k => q[i] < q[k]
      BY <3>4
    <3> DEFINE r == [i \in 1 .. n + 1 |-> IF i = 1 THEN x ELSE q[i - 1]]
    <3>6. \A y \in B : y \in A /\ y \in Nat /\ x < y
      BY <3>2
    <3> HIDE DEF B
    <3>7. \A i \in 1 .. n + 1 : i # 1 => i - 1 \in 1 .. n /\ r[i] = q[i - 1] /\ q[i - 1] \in B
      BY <3>1
    <3>8. r \in [1 .. n + 1 -> A]
      BY <3>1, <3>6, <3>7
    <3>9. ASSUME NEW i \in 1 .. n + 1, NEW k \in 1 .. n + 1, i < k PROVE r[i] < r[k]
      <4>1. k # 1 /\ r[k] = q[k - 1] /\ q[k - 1] \in B /\ k - 1 \in 1 .. n
        BY <3>1, <3>7, <3>9
      <4>2. CASE i = 1
        <5>1. r[i] = x
          BY <4>2
        <5> QED BY <3>6, <4>1, <5>1
      <4>3. CASE i # 1
        <5>1. r[i] = q[i - 1] /\ i - 1 \in 1 .. n /\ i - 1 < k - 1
          BY <3>1, <3>7, <3>9, <4>3
        <5> QED BY <3>5, <4>1, <5>1
      <4> QED BY <4>2, <4>3
    <3> HIDE DEF r
    <3> QED BY <3>8, <3>9
  <2> HIDE DEF Listed
  <2> QED BY <2>1
<1>3. S = Nat
  <2>1. S \in SUBSET Nat
    OBVIOUS
  <2> HIDE DEF S
  <2> QED BY <1>1, <1>2, <2>1, NatSetInduction
<1>4. Cardinality(T) \in Nat
  BY FS_CardinalityType
<1>5. Listed(T, Cardinality(T))
  <2> HIDE DEF Listed
  <2> QED BY <1>3, <1>4
<1>6. PICK q \in [1 .. Cardinality(T) -> T] : \A i, k \in 1 .. Cardinality(T) : i < k => q[i] < q[k]
  BY <1>5
<1>7. DOMAIN q = 1 .. Cardinality(T)
  OBVIOUS
<1> QED BY <1>6, <1>7

\* Counting the members of a set up to a number.
LEMMA CountUpTo ==
    ASSUME NEW P, NEW k \in Nat
    PROVE  /\ IsFiniteSet({i \in 1 .. k : i \in P}) /\ Cardinality({i \in 1 .. k : i \in P}) \in Nat
           /\ Cardinality({i \in 1 .. (k + 1) : i \in P}) =
                Cardinality({i \in 1 .. k : i \in P}) + (IF k + 1 \in P THEN 1 ELSE 0)
           /\ \A j \in 0 .. k : Cardinality({i \in 1 .. j : i \in P}) <= Cardinality({i \in 1 .. k : i \in P})
<1> DEFINE S(n) == {i \in 1 .. n : i \in P}
<1>1. \A n \in Nat : IsFiniteSet(S(n)) /\ Cardinality(S(n)) \in Nat
  <2> TAKE n \in Nat
  <2>1. S(n) \subseteq 1 .. n /\ IsFiniteSet(1 .. n)
    BY FS_Interval
  <2> HIDE DEF S
  <2> QED BY <2>1, FS_Subset, FS_CardinalityType
<1>2. Cardinality(S(k + 1)) = Cardinality(S(k)) + (IF k + 1 \in P THEN 1 ELSE 0)
  <2>1. CASE k + 1 \in P
    <3>1. S(k + 1) = S(k) \cup {k + 1} /\ k + 1 \notin S(k)
      BY <2>1
    <3> HIDE DEF S
    <3> QED BY <1>1, <2>1, <3>1, FS_AddElement
  <2>2. CASE k + 1 \notin P
    <3>1. S(k + 1) = S(k)
      BY <2>2
    <3> HIDE DEF S
    <3> QED BY <1>1, <2>2, <3>1
  <2> QED BY <2>1, <2>2
<1>3. \A j \in 0 .. k : Cardinality(S(j)) <= Cardinality(S(k))
  <2> TAKE j \in 0 .. k
  <2>1. S(j) \subseteq S(k)
    OBVIOUS
  <2> HIDE DEF S
  <2> QED BY <1>1, <2>1, FS_Subset
<1> QED BY <1>1, <1>2, <1>3

\* Every number up to the count is reached, by a member of the set.
LEMMA CountReached ==
    ASSUME NEW P, NEW m \in Nat
    PROVE  \A v \in 1 .. Cardinality({i \in 1 .. m : i \in P}) :
                \E x \in 1 .. m : x \in P /\ Cardinality({i \in 1 .. x : i \in P}) = v
<1> DEFINE C(n) == Cardinality({i \in 1 .. n : i \in P})
<1>1. \A n \in Nat : C(n) \in Nat /\ C(n + 1) = C(n) + (IF n + 1 \in P THEN 1 ELSE 0)
  BY CountUpTo
<1> TAKE v \in 1 .. Cardinality({i \in 1 .. m : i \in P})
<1> DEFINE T == {n \in Nat : v <= C(n)}
<1>2. v \in Nat /\ v >= 1 /\ m \in T
  BY <1>1
<1>3. PICK x \in T : \A y \in T : x <= y
  <2> HIDE DEF C
  <2> QED BY <1>2, NatMin
<1>4. C(0) = 0
  <2>1. {i \in 1 .. 0 : i \in P} = {}
    OBVIOUS
  <2> QED BY <2>1, FS_EmptySet
<1> HIDE DEF C
<1>5. x # 0 /\ x - 1 \in Nat /\ x - 1 + 1 = x /\ x - 1 \notin T /\ x \in 1 .. m
  BY <1>2, <1>3, <1>4
<1>6. C(x - 1) \in Nat /\ C(x) = C(x - 1) + (IF x \in P THEN 1 ELSE 0) /\ v <= C(x) /\ ~(v <= C(x - 1))
  BY <1>1, <1>3, <1>5
<1>7. x \in P /\ C(x) = v
  BY <1>2, <1>6
<1> QED BY <1>5, <1>7 DEF C

\* The members of a set of positive numbers, counted up to each number.
LEMMA RankFacts ==
    ASSUME NEW L \in Nat, NEW E \in SUBSET (1 .. L)
    PROVE  /\ \A n \in 0 .. L : Cardinality({j \in E : j <= n}) \in Nat
           /\ \A n, m \in 0 .. L : n <= m =>
                Cardinality({j \in E : j <= n}) <= Cardinality({j \in E : j <= m})
           /\ \A n, m \in 0 .. L : n < m /\ m \in E =>
                Cardinality({j \in E : j <= n}) < Cardinality({j \in E : j <= m})
           /\ Cardinality({j \in E : j <= 0}) = 0
           /\ Cardinality({j \in E : j <= L}) = Cardinality(E) /\ Cardinality(E) \in 0 .. L
           /\ \A b \in 1 .. Cardinality(E) : \E i \in E : Cardinality({j \in E : j <= i}) = b
<1> DEFINE C(n) == Cardinality({j \in E : j <= n})
           D(n) == Cardinality({i \in 1 .. n : i \in E})
<1>0. \A j \in E : j \in Nat /\ j >= 1 /\ j <= L
  OBVIOUS
<1>1. \A n \in Nat : D(n) \in Nat /\ D(n + 1) = D(n) + (IF n + 1 \in E THEN 1 ELSE 0)
  BY CountUpTo
<1>2. \A n \in Nat : \A j \in 0 .. n : D(j) <= D(n)
  BY CountUpTo
<1>3. \A n \in Nat : C(n) = D(n)
  <2> TAKE n \in Nat
  <2>1. \A j \in E : j <= n <=> j \in 1 .. n
    BY <1>0
  <2>2. {j \in E : j <= n} = {i \in 1 .. n : i \in E}
    BY <2>1, Zenon
  <2> QED BY <2>2
<1>4. C(0) = 0
  <2>1. \A j \in E : ~(j <= 0)
    BY <1>0
  <2>2. {j \in E : j <= 0} = {}
    BY <2>1, Zenon
  <2> QED BY <2>2, FS_EmptySet
<1>5. C(L) = Cardinality(E) /\ Cardinality(E) \in 0 .. L
  <2>1. {j \in E : j <= L} = E
    BY <1>0, Zenon
  <2>2. IsFiniteSet(1 .. L) /\ Cardinality(1 .. L) = L
    BY FS_Interval
  <2>3. IsFiniteSet(E) /\ Cardinality(E) <= L
    BY <2>2, FS_Subset
  <2>4. Cardinality(E) \in Nat
    BY <2>3, FS_CardinalityType
  <2> QED BY <2>1, <2>3, <2>4
<1>6. ASSUME NEW b \in 1 .. Cardinality(E) PROVE \E i \in E : C(i) = b
  <2>2. \A v \in 1 .. Cardinality({i \in 1 .. L : i \in E}) :
          \E x \in 1 .. L : x \in E /\ Cardinality({i \in 1 .. x : i \in E}) = v
    BY CountReached
  <2>3. \A v \in 1 .. D(L) : \E x \in 1 .. L : x \in E /\ D(x) = v
    BY <2>2, Zenon
  <2> HIDE DEF C, D
  <2>4. D(L) = Cardinality(E) /\ \A x \in 1 .. L : C(x) = D(x)
    BY <1>3, <1>5
  <2> QED BY <2>3, <2>4
<1> HIDE DEF C, D
<1>7. ASSUME NEW n \in 0 .. L, NEW m \in 0 .. L, n < m, m \in E PROVE C(n) < C(m)
  <2>1. m - 1 \in Nat /\ n \in 0 .. (m - 1) /\ m - 1 + 1 = m /\ n \in Nat /\ m \in Nat
    BY <1>7
  <2>2. D(m) = D(m - 1) + 1 /\ D(m - 1) \in Nat /\ D(n) \in Nat /\ D(n) <= D(m - 1)
    BY <1>1, <1>2, <1>7, <2>1
  <2> QED BY <1>3, <2>1, <2>2
<1>8. \A n, m \in 0 .. L : n <= m => C(n) <= C(m)
  <2> TAKE n, m \in 0 .. L
  <2> HAVE n <= m
  <2>1. n \in Nat /\ m \in Nat /\ n \in 0 .. m
    OBVIOUS
  <2> QED BY <1>2, <1>3, <2>1
<1>9. \A n \in 0 .. L : C(n) \in Nat
  <2> TAKE n \in 0 .. L
  <2>1. n \in Nat
    OBVIOUS
  <2> QED BY <1>1, <1>3, <2>1
<1> QED BY <1>4, <1>5, <1>6, <1>7, <1>8, <1>9 DEF C
=============================================================================
