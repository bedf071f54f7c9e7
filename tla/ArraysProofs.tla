---------------------------- MODULE ArraysProofs ----------------------------
(***************************************************************************)
(* What the operators of Arrays compute, for slices of any length.  Each   *)
(* induction is on the least counterexample: a nonempty set of naturals    *)
(* has a least element.                                                    *)
(***************************************************************************)
EXTENDS Arrays, FiniteSetTheorems, FunctionTheorems, SequenceTheorems, TLAPS

\* A nonempty set of naturals has a least element.
LEMMA LeastElement ==
    ASSUME NEW T \in SUBSET Nat, T # {}
    PROVE  \E m \in T : \A k \in T : m <= k
  <1>1. PICK m \in T : \A k \in T : ~(<<k, m>> \in OpToRel(<, Nat))
    BY WFMin, NatLessThanWellFounded
  <1>2. \A k \in T : ~(k < m)
    BY <1>1 DEF OpToRel
  <1>3. \A k \in T : m <= k
    BY <1>2
  <1> QED
    BY <1>3

\* How many numbers there are up to n.
LEMMA UpTo == ASSUME NEW n \in Nat PROVE IsFiniteSet(1..n) /\ Cardinality(1..n) = n
  <1>1. IsFiniteSet(1..n) /\ Cardinality(1..n) = IF 1 > n THEN 0 ELSE n - 1 + 1
    BY FS_Interval
  <1> QED
    BY <1>1

\* Induction up to n, over a set instead of a predicate.
LEMMA Induction ==
    ASSUME NEW n \in Nat, NEW S,
           0 \in S, \A i \in 1..n : i - 1 \in S => i \in S
    PROVE  n \in S
  <1> DEFINE T == {i \in 0..n : i \notin S}
  <1>1. ASSUME T # {} PROVE FALSE
    <2>1. T \in SUBSET Nat
      OBVIOUS
    <2>2. PICK m \in T : \A k \in T : m <= k
      BY <1>1, <2>1, LeastElement
    <2>3. m \in 1..n /\ m - 1 \in 0..n /\ m - 1 \notin T
      BY <2>2
    <2> QED
      BY <2>2, <2>3
  <1> QED
    BY <1>1

\* A bounded set of integers that is not empty has a greatest element.
LEMMA GreatestElement ==
    ASSUME NEW n \in Nat, NEW T \in SUBSET (0..n), T # {}
    PROVE  \E m \in T : \A k \in T : k <= m
  <1> DEFINE U == {n - k : k \in T}
  <1>1. U \in SUBSET Nat /\ U # {}
    <2>1. \A k \in T : k \in Nat /\ n - k \in Nat
      OBVIOUS
    <2> QED
      BY <2>1
  <1>2. PICK u \in U : \A k \in U : u <= k
    BY <1>1, LeastElement
  <1>3. PICK m \in T : u = n - m
    OBVIOUS
  <1>4. \A k \in T : n - k \in U
    OBVIOUS
  <1>5. \A k \in T : k <= m
    BY <1>2, <1>3, <1>4
  <1> QED
    BY <1>5

----------------------------------------------------------------------------
(* Sums *)

PartialSums(s, f, n) == /\ f \in [0..n -> Int] /\ f[0] = 0
                        /\ \A i \in 1..n : f[i] = f[i - 1] + s[i]

\* The sums the loop goes through exist, and the last of them is the total.
LEMMA TotalIsLastSum ==
    ASSUME NEW s \in Seq(Int)
    PROVE  \E f : PartialSums(s, f, Len(s)) /\ Total(s) = f[Len(s)]
  <1> DEFINE n == Len(s)
             G(g) == [i \in 0..n |-> IF i = 0 THEN 0 ELSE g[i - 1] + s[i]]
             S == {m \in 0..n : \E f : PartialSums(s, f, m)}
  <1>1. n \in Nat /\ \A i \in 1..n : s[i] \in Int
    OBVIOUS
  <1> HIDE DEF n
  <1>2. 0 \in S
    <2>1. PartialSums(s, [i \in 0..0 |-> 0], 0)
      BY DEF PartialSums
    <2> QED
      BY <1>1, <2>1
  <1>3. ASSUME NEW m \in 1..n, m - 1 \in S PROVE m \in S
    <2>1. PICK f : PartialSums(s, f, m - 1)
      BY <1>3
    <2> DEFINE h == [i \in 0..m |-> IF i = m THEN f[m - 1] + s[m] ELSE f[i]]
    <2>2. m \in Nat \ {0} /\ s[m] \in Int /\ f[m - 1] \in Int /\ 0..m - 1 \subseteq 0..m
      BY <1>1, <2>1 DEF PartialSums
    <2>3. \A i \in 0..m - 1 : h[i] = f[i] /\ i # m
      BY <2>2
    <2>4. h[m] = f[m - 1] + s[m] /\ h[0] = 0
      BY <2>1, <2>2, <2>3 DEF PartialSums
    <2>5. h \in [0..m -> Int]
      BY <2>1, <2>2 DEF PartialSums
    <2>6. ASSUME NEW i \in 1..m PROVE h[i] = h[i - 1] + s[i]
      <3>1. CASE i = m
        BY <2>2, <2>3, <2>4, <3>1
      <3>2. CASE i \in 1..m - 1
        BY <2>1, <2>2, <2>3, <3>2 DEF PartialSums
      <3> QED
        BY <2>2, <3>1, <3>2
    <2> HIDE DEF h
    <2>7. PartialSums(s, h, m)
      BY <2>4, <2>5, <2>6 DEF PartialSums
    <2> QED
      BY <1>1, <2>7
  <1> HIDE DEF S
  <1>4. n \in S
    BY <1>1, <1>2, <1>3, Induction
  <1>5. PICK f : PartialSums(s, f, n)
    BY <1>4 DEF S
  <1>6. f = G(f)
    BY <1>1, <1>5 DEF PartialSums
  <1> DEFINE g == CHOOSE h : h = G(h)
  <1>7. g = G(g)
    BY <1>6
  <1>8. Total(s) = g[n]
    BY DEF Total, n
  <1> HIDE DEF g
  <1> DEFINE R == {i \in 0..n : g[i] = f[i]}
  <1>9. 0 \in R
    BY <1>1, <1>6, <1>7
  <1>10. ASSUME NEW i \in 1..n, i - 1 \in R PROVE i \in R
    BY <1>1, <1>6, <1>7, <1>10
  <1> HIDE DEF R
  <1>11. n \in R
    BY <1>1, <1>9, <1>10, Induction
  <1> QED
    BY <1>5, <1>8, <1>11 DEF R, n

\* The total of integers is an integer; of none it is 0.
LEMMA TotalType == ASSUME NEW s \in Seq(Int) PROVE Total(s) \in Int /\ (s = <<>> => Total(s) = 0)
  BY TotalIsLastSum DEF PartialSums

\* Sums of slices that are nowhere less are not less.
LEMMA TotalMonotone ==
    ASSUME NEW s \in Seq(Int), NEW t \in Seq(Int), Len(s) = Len(t),
           \A i \in 1..Len(s) : s[i] <= t[i]
    PROVE  Total(s) <= Total(t)
  <1> DEFINE n == Len(s)
  <1>1. n \in Nat /\ \A i \in 1..n : s[i] \in Int /\ t[i] \in Int /\ s[i] <= t[i]
    OBVIOUS
  <1>2. PICK f : PartialSums(s, f, n) /\ Total(s) = f[n]
    BY TotalIsLastSum
  <1>3. PICK g : PartialSums(t, g, n) /\ Total(t) = g[n]
    BY TotalIsLastSum
  <1> DEFINE S == {i \in 0..n : f[i] <= g[i]}
  <1> HIDE DEF n
  <1>4. 0 \in S
    BY <1>1, <1>2, <1>3 DEF PartialSums
  <1>5. ASSUME NEW i \in 1..n, i - 1 \in S PROVE i \in S
    <2>1. i - 1 \in 0..n /\ i \in 0..n /\ f[i - 1] <= g[i - 1]
      BY <1>1, <1>5
    <2>2. f[i] = f[i - 1] + s[i] /\ g[i] = g[i - 1] + t[i] /\ s[i] <= t[i]
      BY <1>1, <1>2, <1>3 DEF PartialSums
    <2>3. {f[i - 1], g[i - 1], s[i], t[i]} \subseteq Int
      BY <1>1, <1>2, <1>3, <2>1 DEF PartialSums
    <2> QED
      BY <2>1, <2>2, <2>3
  <1> HIDE DEF S
  <1>6. n \in S
    BY <1>1, <1>4, <1>5, Induction
  <1> QED
    BY <1>2, <1>3, <1>6 DEF S

\* What is at least 1 everywhere adds up to the length at least.
LEMMA TotalOfPositive ==
    ASSUME NEW s \in Seq(Int), \A i \in 1..Len(s) : s[i] >= 1
    PROVE  Total(s) >= Len(s)
  <1> DEFINE n == Len(s)
  <1>1. n \in Nat /\ \A i \in 1..n : s[i] \in Int /\ s[i] >= 1
    OBVIOUS
  <1>2. PICK f : PartialSums(s, f, n) /\ Total(s) = f[n]
    BY TotalIsLastSum
  <1> DEFINE S == {i \in 0..n : f[i] >= i}
  <1> HIDE DEF n
  <1>3. 0 \in S
    BY <1>1, <1>2 DEF PartialSums
  <1>4. ASSUME NEW i \in 1..n, i - 1 \in S PROVE i \in S
    <2>1. i - 1 \in 0..n /\ i \in 0..n /\ f[i - 1] >= i - 1
      BY <1>1, <1>4
    <2>2. f[i] = f[i - 1] + s[i] /\ s[i] >= 1 /\ f[i - 1] \in Int /\ s[i] \in Int
      BY <1>1, <1>2, <2>1 DEF PartialSums
    <2> QED
      BY <2>1, <2>2
  <1> HIDE DEF S
  <1>5. n \in S
    BY <1>1, <1>3, <1>4, Induction
  <1> QED
    BY <1>2, <1>5 DEF n, S

----------------------------------------------------------------------------
(* Counting what comes before *)

\* R, a set of pairs, orders D.
Orders(R, D) ==
    /\ \A a \in D : <<a, a>> \in R
    /\ \A a, b \in D : <<a, b>> \in R \/ <<b, a>> \in R
    /\ \A a, b \in D : <<a, b>> \in R /\ <<b, a>> \in R => a = b
    /\ \A a, b, c \in D : <<a, b>> \in R /\ <<b, c>> \in R => <<a, c>> \in R

Rank(R, D, a) == Cardinality({b \in D : <<b, a>> \in R})

\* The ranks of an ordered set are the numbers from 1 to its size, each the
\* rank of one element, and they follow the order.
LEMMA RanksCount ==
    ASSUME NEW D, IsFiniteSet(D), NEW R, Orders(R, D)
    PROVE  /\ Cardinality(D) \in Nat
           /\ \A a \in D : Rank(R, D, a) \in 1..Cardinality(D)
           /\ \A a, b \in D : <<a, b>> \in R <=> Rank(R, D, a) <= Rank(R, D, b)
           /\ \A a, b \in D : Rank(R, D, a) = Rank(R, D, b) => a = b
           /\ \A n \in 1..Cardinality(D) : \E a \in D : Rank(R, D, a) = n
  <1> DEFINE before(a) == {b \in D : <<b, a>> \in R}
             N == Cardinality(D)
  <1>1. N \in Nat
    BY FS_CardinalityType
  <1>2. ASSUME NEW a \in D PROVE Rank(R, D, a) \in 1..N /\ IsFiniteSet(before(a))
    <2>1. before(a) \in SUBSET D /\ a \in before(a)
      BY DEF Orders
    <2>2. IsFiniteSet(before(a)) /\ Cardinality(before(a)) <= N
      BY <2>1, FS_Subset
    <2>3. Cardinality(before(a)) \in Nat
      BY <2>2, FS_CardinalityType
    <2>4. Cardinality(before(a)) # 0
      BY <2>1, <2>2, FS_EmptySet
    <2> QED
      BY <1>1, <2>2, <2>3, <2>4 DEF Rank
  <1>3. \A a \in D : Rank(R, D, a) \in 1..N
    BY <1>2
  <1>4. \A a \in D : Rank(R, D, a) \in Int
    BY <1>3
  <1>5. ASSUME NEW a \in D, NEW b \in D, <<a, b>> \in R
        PROVE  Rank(R, D, a) <= Rank(R, D, b)
    <2>1. before(a) \in SUBSET before(b)
      BY <1>5 DEF Orders
    <2> QED
      BY <2>1, <1>2, FS_Subset DEF Rank
  <1>6. ASSUME NEW a \in D, NEW b \in D, <<a, b>> \in R, Rank(R, D, a) = Rank(R, D, b)
        PROVE  a = b
    <2>1. before(a) \in SUBSET before(b)
      BY <1>6 DEF Orders
    <2>2. before(a) = before(b)
      BY <2>1, <1>2, <1>6, FS_Subset DEF Rank
    <2>3. b \in before(b)
      BY DEF Orders
    <2> QED
      BY <1>6, <2>2, <2>3 DEF Orders
  <1>7. ASSUME NEW a \in D, NEW b \in D, Rank(R, D, a) = Rank(R, D, b) PROVE a = b
    BY <1>6, <1>7 DEF Orders
  <1>8. ASSUME NEW a \in D, NEW b \in D, Rank(R, D, a) <= Rank(R, D, b)
        PROVE  <<a, b>> \in R
    <2>1. CASE <<b, a>> \in R
      <3>1. Rank(R, D, b) <= Rank(R, D, a)
        BY <1>5, <2>1
      <3>2. Rank(R, D, a) \in Int /\ Rank(R, D, b) \in Int
        BY <1>4
      <3>3. Rank(R, D, a) = Rank(R, D, b)
        BY <1>8, <3>1, <3>2
      <3> QED
        BY <1>7, <3>3 DEF Orders
    <2> QED
      BY <2>1 DEF Orders
  <1> DEFINE f == [a \in D |-> Rank(R, D, a)]
  <1>9. f \in [D -> 1..N] /\ \A a, b \in D : f[a] = f[b] => a = b
    BY <1>2, <1>7
  <1>10. \A a \in D : f[a] = Rank(R, D, a)
    OBVIOUS
  <1> HIDE DEF f
  <1>11. f \in Injection(D, 1..N)
    BY <1>9, Fun_IsInj
  <1>12. IsFiniteSet(1..N) /\ Cardinality(1..N) = N
    BY <1>1, FS_Interval
  <1>13. f \in Surjection(D, 1..N)
    BY <1>11, <1>12, FS_Injection
  <1>14. \A n \in 1..N : \E a \in D : f[a] = n
    BY <1>13, Fun_SurjectionProperties
  <1> QED
    BY <1>1, <1>2, <1>5, <1>7, <1>8, <1>10, <1>14

\* The positions in ascending order.
THEOREM NthProperties ==
    ASSUME NEW k \in Nat, NEW K \in SUBSET (1..k)
    PROVE  /\ Cardinality(K) \in 0..k
           /\ \A n \in 1..Cardinality(K) : Nth(K, n) \in K
           /\ \A n, m \in 1..Cardinality(K) : n < m => Nth(K, n) < Nth(K, m)
           /\ \A i \in K : \E n \in 1..Cardinality(K) : Nth(K, n) = i
  <1> DEFINE R == {p \in Int \X Int : p[1] <= p[2]}
             N == Cardinality(K)
  <1>1. K \in SUBSET Int
    OBVIOUS
  <1>2. IsFiniteSet(K) /\ N <= k
    <2>1. IsFiniteSet(1..k) /\ Cardinality(1..k) = k
      BY FS_Interval
    <2> QED
      BY <2>1, FS_Subset
  <1>3. Orders(R, K)
    BY <1>1 DEF Orders
  <1>4. \A i \in K : Rank(R, K, i) = Cardinality({j \in K : j <= i})
    <2>1. \A i \in K : {j \in K : <<j, i>> \in R} = {j \in K : j <= i}
      BY <1>1
    <2> QED
      BY <2>1 DEF Rank
  <1> HIDE DEF R
  <1>5. /\ N \in Nat
        /\ \A i, j \in K : Rank(R, K, i) <= Rank(R, K, j) <=> <<i, j>> \in R
        /\ \A i \in K : Rank(R, K, i) \in 1..N
        /\ \A i, j \in K : Rank(R, K, i) = Rank(R, K, j) => i = j
        /\ \A n \in 1..N : \E i \in K : Rank(R, K, i) = n
    <2> DEFINE D == K
    <2>1. IsFiniteSet(D) /\ Orders(R, D)
      BY <1>2, <1>3
    <2> HIDE DEF D
    <2>2. /\ Cardinality(D) \in Nat
          /\ \A a \in D : Rank(R, D, a) \in 1..Cardinality(D)
          /\ \A a, b \in D : <<a, b>> \in R <=> Rank(R, D, a) <= Rank(R, D, b)
          /\ \A a, b \in D : Rank(R, D, a) = Rank(R, D, b) => a = b
          /\ \A n \in 1..Cardinality(D) : \E a \in D : Rank(R, D, a) = n
      BY <2>1, RanksCount
    <2> QED
      BY <2>2 DEF D
  <1>6. ASSUME NEW n \in 1..N PROVE Nth(K, n) \in K /\ Rank(R, K, Nth(K, n)) = n
    <2>1. \E i \in K : Cardinality({j \in K : j <= i}) = n
      BY <1>4, <1>5
    <2>2. Nth(K, n) \in K /\ Cardinality({j \in K : j <= Nth(K, n)}) = n
      BY <2>1 DEF Nth
    <2> QED
      BY <1>4, <2>2
  <1> HIDE DEF N
  <1>7. ASSUME NEW n \in 1..N, NEW m \in 1..N, n < m PROVE Nth(K, n) < Nth(K, m)
    <2>1. <<Nth(K, n), Nth(K, m)>> \in R /\ Nth(K, n) # Nth(K, m)
      <3>1. Rank(R, K, Nth(K, n)) = n /\ Rank(R, K, Nth(K, m)) = m
        BY <1>6
      <3>2. Nth(K, n) \in K /\ Nth(K, m) \in K /\ n <= m /\ n # m
        BY <1>6, <1>7
      <3> QED
        BY <1>5, <3>1, <3>2
    <2>2. Nth(K, n) \in Int /\ Nth(K, m) \in Int
      BY <1>1, <1>6
    <2> QED
      BY <2>1, <2>2 DEF R
  <1>8. ASSUME NEW i \in K PROVE \E n \in 1..N : Nth(K, n) = i
    <2>1. Rank(R, K, i) \in 1..N
      BY <1>5
    <2> QED
      BY <1>5, <1>6, <2>1
  <1> QED
    BY <1>2, <1>5, <1>6, <1>7, <1>8 DEF N

\* Keep takes elements of the slice, as many as there are positions.
LEMMA KeepProperties ==
    ASSUME NEW X, NEW s \in Seq(X), NEW K \in SUBSET DOMAIN s
    PROVE  /\ Keep(s, K) \in Seq(X) /\ Len(Keep(s, K)) = Cardinality(K)
           /\ \A n \in 1..Cardinality(K) : Keep(s, K)[n] = s[Nth(K, n)]
  <1>1. DOMAIN s = 1..Len(s) /\ Len(s) \in Nat /\ \A i \in DOMAIN s : s[i] \in X
    OBVIOUS
  <1>2. Cardinality(K) \in 0..Len(s) /\ \A n \in 1..Cardinality(K) : Nth(K, n) \in K
    BY <1>1, NthProperties
  <1>3. \A n \in 1..Cardinality(K) : s[Nth(K, n)] \in X
    BY <1>1, <1>2
  <1> QED
    BY <1>2, <1>3 DEF Keep

\* Sorted puts every element in one place, in ascending order.
THEOREM SortedProperties ==
    ASSUME NEW s \in Seq(Int)
    PROVE  /\ Sorted(s) \in Seq(Int) /\ Len(Sorted(s)) = Len(s)
           /\ \A n, m \in 1..Len(s) : n <= m => Sorted(s)[n] <= Sorted(s)[m]
           /\ \E at \in Bijection(1..Len(s), 1..Len(s)) :
                 \A n \in 1..Len(s) : Sorted(s)[n] = s[at[n]]
  <1> DEFINE D == 1..Len(s)
             R == {p \in D \X D : s[p[1]] < s[p[2]] \/ (s[p[1]] = s[p[2]] /\ p[1] <= p[2])}
             nth(n) == CHOOSE i \in D : Place(s, i) = n
             at == [n \in D |-> nth(n)]
  <1>1. DOMAIN s = D /\ Len(s) \in Nat /\ \A i \in D : s[i] \in Int /\ i \in Nat
    OBVIOUS
  <1>2. IsFiniteSet(D) /\ Cardinality(D) = Len(s)
    BY <1>1, FS_Interval, SMTT(30)
  <1>3. Orders(R, D)
    BY <1>1, SMTT(30) DEF Orders
  <1>4. \A i \in D : Rank(R, D, i) = Place(s, i)
    <2>1. ASSUME NEW i \in D
          PROVE  {j \in D : <<j, i>> \in R}
                    = {j \in DOMAIN s : s[j] < s[i] \/ (s[j] = s[i] /\ j <= i)}
      BY <1>1
    <2> QED
      BY <2>1 DEF Rank, Place
  <1>5. ASSUME NEW i \in D, NEW j \in D, <<i, j>> \in R PROVE s[i] <= s[j]
    BY <1>1, <1>5
  <1>6. Sorted(s) = [n \in D |-> s[nth(n)]]
    BY <1>1 DEF Sorted
  <1>7. \A n \in D : at[n] = nth(n)
    OBVIOUS
  <1> HIDE DEF R, D
  <1>8. /\ \A i, j \in D : <<i, j>> \in R <=> Rank(R, D, i) <= Rank(R, D, j)
        /\ \A i \in D : Rank(R, D, i) \in 1..Len(s)
        /\ \A i, j \in D : Rank(R, D, i) = Rank(R, D, j) => i = j
        /\ \A n \in 1..Len(s) : \E i \in D : Rank(R, D, i) = n
    BY <1>2, <1>3, RanksCount
  <1>9. \A n \in D : nth(n) \in D /\ Rank(R, D, nth(n)) = n
    BY <1>4, <1>8 DEF D
  <1> HIDE DEF nth
  <1>10. at \in [D -> D] /\ \A n \in D : Rank(R, D, at[n]) = n
    BY <1>9
  <1> HIDE DEF at
  <1>11. ASSUME NEW i \in D PROVE \E n \in D : at[n] = i
    <2>1. Rank(R, D, i) \in D
      BY <1>8 DEF D
    <2> QED
      BY <1>8, <1>10, <2>1
  <1>12. at \in Bijection(D, D)
    <2>1. \A i, j \in D : at[i] = at[j] => i = j
      BY <1>10
    <2> QED
      BY <2>1, <1>10, <1>11, Fun_IsBij
  <1>13. Sorted(s) \in Seq(Int) /\ Len(Sorted(s)) = Len(s)
    BY <1>1, <1>9, <1>6 DEF D
  <1>14. ASSUME NEW n \in D, NEW m \in D, n <= m PROVE Sorted(s)[n] <= Sorted(s)[m]
    <2>1. <<at[n], at[m]>> \in R
      BY <1>8, <1>10, <1>14
    <2>2. s[at[n]] <= s[at[m]]
      BY <1>5, <1>10, <2>1
    <2> QED
      BY <2>2, <1>6, <1>7
  <1>15. \A n \in D : Sorted(s)[n] = s[at[n]]
    BY <1>6, <1>7
  <1> QED
    BY <1>12, <1>13, <1>14, <1>15 DEF D

\* A set of positions that holds, with an element, every element that is not
\* greater, holds the first elements of the sorted slice.
LEMMA DownwardSets ==
    ASSUME NEW s \in Seq(Int), NEW D \in SUBSET (1..Len(s)),
           \A i \in D, j \in 1..Len(s) : s[j] <= s[i] => j \in D
    PROVE  /\ Cardinality(D) \in 0..Len(s)
           /\ \A n \in 1..Len(s) : \E i \in 1..Len(s) :
                 Sorted(s)[n] = s[i] /\ (i \in D <=> n <= Cardinality(D))
  <1> DEFINE N == Len(s)
  <1>1. N \in Nat /\ \A i \in 1..N : s[i] \in Int
    OBVIOUS
  <1>2. PICK at \in Bijection(1..N, 1..N) : \A n \in 1..N : Sorted(s)[n] = s[at[n]]
    BY SortedProperties
  <1>3. \A n, m \in 1..N : n <= m => Sorted(s)[n] <= Sorted(s)[m]
    BY SortedProperties
  <1> DEFINE T == {n \in 1..N : at[n] \in D}
             g == [n \in T |-> at[n]]
  <1>4. /\ at \in [1..N -> 1..N]
        /\ \A n, m \in 1..N : at[n] = at[m] => n = m
        /\ \A i \in 1..N : \E n \in 1..N : at[n] = i
    BY DEF Bijection, Injection, Surjection, IsInjective
  <1>5. IsFiniteSet(T) /\ T \in SUBSET (1..N)
    <2>1. IsFiniteSet(1..N) /\ T \in SUBSET (1..N)
      BY <1>1, FS_Interval
    <2> QED
      BY <2>1, FS_Subset
  <1>6. Cardinality(D) = Cardinality(T)
    <2>1. g \in [T -> D]
      OBVIOUS
    <2>2. \A n, m \in T : g[n] = g[m] => n = m
      BY <1>4
    <2>3. \A i \in D : \E n \in T : g[n] = i
      BY <1>4
    <2> HIDE DEF T, g
    <2>4. g \in Bijection(T, D)
      BY <2>1, <2>2, <2>3, Fun_IsBij
    <2>5. ExistsBijection(T, D)
      BY <2>4 DEF ExistsBijection
    <2> QED
      BY <1>5, <2>5, FS_Bijection
  <1>7. ASSUME NEW n \in T, NEW m \in 1..N, m <= n PROVE m \in T
    <2>1. Sorted(s)[m] <= Sorted(s)[n] /\ at[n] \in D
      BY <1>3, <1>7
    <2>2. s[at[m]] <= s[at[n]] /\ at[m] \in 1..N
      BY <1>2, <1>4, <2>1
    <2> QED
      BY <2>1, <2>2
  <1> HIDE DEF T, N
  <1>8. T = 1..Cardinality(T) /\ Cardinality(T) \in 0..N
    <2>1. CASE T = {}
      BY <1>1, <2>1, FS_EmptySet
    <2>2. CASE T # {}
      <3>1. T \in SUBSET (0..N)
        BY <1>1, <1>5
      <3>2. PICK m \in T : \A k \in T : k <= m
        BY <1>1, <2>2, <3>1, GreatestElement
      <3>3. m \in 1..N
        BY <1>5, <3>2
      <3>4. T = 1..m
        <4>1. \A k \in 1..m : k \in 1..N /\ k <= m
          BY <1>1, <3>3
        <4>2. 1..m \subseteq T
          BY <1>7, <3>2, <4>1
        <4>3. T \subseteq 1..m
          BY <1>5, <3>2, <3>3
        <4> QED
          BY <4>2, <4>3
      <3>5. Cardinality(1..m) = m
        BY <3>3, FS_Interval
      <3> QED
        BY <3>3, <3>4, <3>5
    <2> QED
      BY <2>1, <2>2
  <1>9. ASSUME NEW n \in 1..N
        PROVE  \E i \in 1..N : Sorted(s)[n] = s[i] /\ (i \in D <=> n <= Cardinality(D))
    <2>1. Sorted(s)[n] = s[at[n]] /\ at[n] \in 1..N
      BY <1>2, <1>4
    <2>2. n \in T <=> n <= Cardinality(D)
      BY <1>1, <1>6, <1>8
    <2>3. n \in T <=> at[n] \in D
      BY DEF T
    <2> QED
      BY <2>1, <2>2, <2>3
  <1> QED
    BY <1>6, <1>8, <1>9 DEF N
=============================================================================
