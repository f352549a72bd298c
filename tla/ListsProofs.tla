----------------------------- MODULE ListsProofs ------------------------------
(***************************************************************************)
(* What the operators on lists return: the elements a filter keeps, the    *)
(* places an order gives, and sums, what they are made of and how they     *)
(* compare.                                                                *)
(***************************************************************************)
EXTENDS Lists, FiniteSetsExt, SequenceTheorems, FiniteSetTheorems, WellFoundedInduction, TLAPS

\* A set of numbers that is not empty has a least.
LEMMA LeastIn ==
  ASSUME NEW S \in SUBSET Nat, S # {}
  PROVE  Min(S) \in S /\ \A y \in S : Min(S) <= y
<1>1. PICK x \in S : \A y \in S : ~(<<y, x>> \in OpToRel(<, Nat))
  BY NatLessThanWellFounded, WFMin
<1>2. \A y \in S : x <= y
  <2>1. SUFFICES ASSUME NEW y \in S PROVE x <= y
    OBVIOUS
  <2>2. x \in Nat /\ y \in Nat
    OBVIOUS
  <2>3. ~(y < x)
    BY <1>1, <2>2 DEF OpToRel
  <2>4. QED BY <2>2, <2>3
<1>3. QED BY <1>2 DEF Min

\* ... and, where it has a bound, a greatest.
LEMMA GreatestIn ==
  ASSUME NEW n \in Nat, NEW S \in SUBSET (1..n), S # {}
  PROVE  Max(S) \in S /\ \A y \in S : Max(S) >= y
<1> DEFINE T == {k \in 0..n : n - k \in S}
<1>1. T \in SUBSET Nat
  OBVIOUS
<1>2. T # {}
  <2>1. PICK x \in S : TRUE
    OBVIOUS
  <2>2. n - x \in 0..n /\ n - (n - x) = x
    OBVIOUS
  <2>3. QED BY <2>2
<1>3. Min(T) \in T /\ \A y \in T : Min(T) <= y
  BY <1>1, <1>2, LeastIn
<1> DEFINE m == Min(T)
           x == n - m
<1>4. m \in 0..n /\ x \in S
  BY <1>3
<1>5. \A y \in S : x >= y
  <2>1. SUFFICES ASSUME NEW y \in S PROVE x >= y
    OBVIOUS
  <2>2. n - y \in 0..n /\ n - (n - y) = y
    OBVIOUS
  <2>3. n - y \in T
    BY <2>2
  <2>4. m <= n - y
    BY <1>3, <2>3
  <2> HIDE DEF m
  <2>5. QED BY <1>4, <2>2, <2>4
<1> HIDE DEF x
<1>6. QED BY <1>4, <1>5 DEF Max

(***************************************************************************)
(* Orders.  Sorted puts a finite set in a sequence, if the relation it is  *)
(* given is a strict order that is total on the set.                       *)
(***************************************************************************)
StrictlyOrders(R, P) ==
  /\ \A i, j \in P : i = j \/ <<i, j>> \in R \/ <<j, i>> \in R
  /\ \A i \in P : <<i, i>> \notin R
  /\ \A i, j, k \in P : <<i, j>> \in R /\ <<j, k>> \in R => <<i, k>> \in R

Below(P, R, i) == {j \in P : <<j, i>> \in R}

\* Different elements have different numbers of elements below them.
LEMMA RankGrows ==
  ASSUME NEW P, IsFiniteSet(P), NEW R, StrictlyOrders(R, P),
         NEW i \in P, NEW j \in P, <<i, j>> \in R
  PROVE  /\ Cardinality(Below(P, R, i)) \in Nat /\ Cardinality(Below(P, R, j)) \in Nat
         /\ Cardinality(Below(P, R, i)) < Cardinality(Below(P, R, j))
<1> DEFINE A == Below(P, R, i)
           B == Below(P, R, j)
<1>1. A \in SUBSET P /\ B \in SUBSET P /\ i \notin A /\ A \cup {i} \in SUBSET B
  BY DEF Below, StrictlyOrders
<1>2. IsFiniteSet(A) /\ IsFiniteSet(B)
  BY <1>1, FS_Subset
<1> HIDE DEF A, B
<1>3. Cardinality(A \cup {i}) = Cardinality(A) + 1 /\ Cardinality(A) \in Nat /\ Cardinality(B) \in Nat
  BY <1>1, <1>2, FS_AddElement, FS_CardinalityType
<1>4. Cardinality(A \cup {i}) <= Cardinality(B)
  BY <1>1, <1>2, FS_Subset
<1>5. QED BY <1>3, <1>4 DEF A, B

\* The place of an element is the number of those below it, and one.
LEMMA SortedProperties ==
  ASSUME NEW P, IsFiniteSet(P), NEW R, StrictlyOrders(R, P)
  PROVE  /\ Cardinality(P) \in Nat
         /\ \A i \in P : /\ Cardinality(Below(P, R, i)) + 1 \in 1..Cardinality(P)
                         /\ Sorted(P, R)[Cardinality(Below(P, R, i)) + 1] = i
         /\ \A k \in 1..Cardinality(P) :
              /\ Sorted(P, R)[k] \in P
              /\ Cardinality(Below(P, R, Sorted(P, R)[k])) = k - 1
<1> DEFINE n == Cardinality(P)
           rank == [i \in P |-> Cardinality(Below(P, R, i)) + 1]
<1>1. n \in Nat
  BY FS_CardinalityType
<1>2. \A i \in P : Cardinality(Below(P, R, i)) \in Nat /\ Cardinality(Below(P, R, i)) + 1 \in 1..n
  <2>1. SUFFICES ASSUME NEW i \in P
                 PROVE  Cardinality(Below(P, R, i)) \in Nat /\ Cardinality(Below(P, R, i)) + 1 \in 1..n
    OBVIOUS
  <2>2. Below(P, R, i) \in SUBSET (P \ {i})
    BY DEF Below, StrictlyOrders
  <2>3. IsFiniteSet(P \ {i}) /\ Cardinality(P \ {i}) = n - 1
    BY FS_RemoveElement
  <2>4. IsFiniteSet(Below(P, R, i)) /\ Cardinality(Below(P, R, i)) <= n - 1
    BY <2>2, <2>3, FS_Subset
  <2>5. Cardinality(Below(P, R, i)) \in Nat
    BY <2>4, FS_CardinalityType
  <2> HIDE DEF n
  <2>6. QED BY <1>1, <2>4, <2>5
<1>3. \A i, j \in P : Cardinality(Below(P, R, i)) = Cardinality(Below(P, R, j)) => i = j
  <2>1. SUFFICES ASSUME NEW i \in P, NEW j \in P, i # j
                 PROVE  Cardinality(Below(P, R, i)) # Cardinality(Below(P, R, j))
    OBVIOUS
  <2>2. <<i, j>> \in R \/ <<j, i>> \in R
    BY <2>1 DEF StrictlyOrders
  <2>3. \/ Cardinality(Below(P, R, i)) < Cardinality(Below(P, R, j))
        \/ Cardinality(Below(P, R, j)) < Cardinality(Below(P, R, i))
    BY <2>2, RankGrows
  <2>4. QED BY <1>2, <2>3
<1>4. rank \in Injection(P, 1..n)
  <2>1. rank \in [P -> 1..n]
    BY <1>2
  <2>2. \A i, j \in P : rank[i] = rank[j] => i = j
    <3>1. SUFFICES ASSUME NEW i \in P, NEW j \in P, rank[i] = rank[j] PROVE i = j
      OBVIOUS
    <3>2. Cardinality(Below(P, R, i)) + 1 = Cardinality(Below(P, R, j)) + 1
      BY <3>1
    <3>3. Cardinality(Below(P, R, i)) = Cardinality(Below(P, R, j))
      BY <3>2, <1>2
    <3>4. QED BY <1>3, <3>3
  <2>3. DOMAIN rank = P
    OBVIOUS
  <2> HIDE DEF rank
  <2>4. QED BY <2>1, <2>2, <2>3 DEF Injection, IsInjective
<1>5. rank \in Surjection(P, 1..n)
  <2>1. IsFiniteSet(1..n) /\ Cardinality(1..n) = n
    <3>1. 1 \in Int /\ n \in Int
      BY <1>1
    <3>2. IsFiniteSet(1..n) /\ Cardinality(1..n) = IF 1 > n THEN 0 ELSE n - 1 + 1
      BY <3>1, FS_Interval
    <3> HIDE DEF n
    <3>3. QED BY <1>1, <3>2
  <2> HIDE DEF rank
  <2>2. QED BY <1>4, <2>1, FS_Injection
<1>6. ASSUME NEW k \in 1..n
      PROVE  Sorted(P, R)[k] \in P /\ Cardinality(Below(P, R, Sorted(P, R)[k])) = k - 1
  <2>1. PICK i \in P : rank[i] = k
    BY <1>5, <1>6 DEF Surjection
  <2>2. Cardinality(Below(P, R, i)) = k - 1
    BY <1>1, <1>2, <2>1
  <2>3. Sorted(P, R)[k] = CHOOSE x \in P : Cardinality(Below(P, R, x)) = k - 1
    BY DEF Sorted, Below
  <2>4. QED BY <2>2, <2>3
<1>7. ASSUME NEW i \in P
      PROVE  Sorted(P, R)[Cardinality(Below(P, R, i)) + 1] = i
  <2> DEFINE k == Cardinality(Below(P, R, i)) + 1
  <2>1. k \in 1..n
    BY <1>2
  <2>2. Sorted(P, R)[k] \in P /\ Cardinality(Below(P, R, Sorted(P, R)[k])) = k - 1
    BY <1>6, <2>1
  <2>3. Cardinality(Below(P, R, i)) = k - 1
    BY <1>2
  <2> HIDE DEF k
  <2>4. Sorted(P, R)[k] = i
    BY <1>3, <2>2, <2>3
  <2>5. QED BY <2>4 DEF k
<1>8. QED BY <1>1, <1>2, <1>6, <1>7

\* What At keeps of a sequence: the elements at the places given, once each.
LEMMA AtProperties ==
  ASSUME NEW S, NEW s \in Seq(S), NEW P \in SUBSET (DOMAIN s)
  PROVE  /\ At(s, P) \in Seq(S)
         /\ Len(At(s, P)) \in Nat
         /\ \A k \in 1..Len(At(s, P)) : \E i \in P : At(s, P)[k] = s[i]
         /\ \A i \in P : \E k \in 1..Len(At(s, P)) : At(s, P)[k] = s[i]
         /\ IsInjective(s) => IsInjective(At(s, P))
<1> DEFINE R == {p \in P \X P : p[1] < p[2]}
           places == Sorted(P, R)
           n == Cardinality(P)
           t == [k \in 1..n |-> s[places[k]]]
<1>1. Len(s) \in Nat /\ DOMAIN s = 1..Len(s) /\ \A i \in 1..Len(s) : s[i] \in S
  BY LenProperties, ElementOfSeq
<1>2. IsFiniteSet(P) /\ P \in SUBSET Nat
  <2>1. IsFiniteSet(1..Len(s))
    BY <1>1, FS_Interval
  <2>2. QED BY <1>1, <2>1, FS_Subset
<1>3. StrictlyOrders(R, P)
  <2>1. \A i, j \in P : <<i, j>> \in R <=> i < j
    OBVIOUS
  <2>2. \A i, j \in Nat : i = j \/ i < j \/ j < i
    OBVIOUS
  <2>3. \A i \in Nat : ~(i < i)
    OBVIOUS
  <2>4. \A i, j, k \in Nat : i < j /\ j < k => i < k
    OBVIOUS
  <2> HIDE DEF R
  <2>5. QED BY <1>2, <2>1, <2>2, <2>3, <2>4 DEF StrictlyOrders
<1>4. At(s, P) = t
  BY DEF At
<1> HIDE DEF R
<1>5. n \in Nat
      /\ (\A i \in P : Cardinality(Below(P, R, i)) + 1 \in 1..n /\ places[Cardinality(Below(P, R, i)) + 1] = i)
      /\ (\A k \in 1..n : places[k] \in P /\ Cardinality(Below(P, R, places[k])) = k - 1)
  BY <1>2, <1>3, SortedProperties
<1> HIDE DEF places, n
<1>6. t \in [1..n -> S]
  <2>1. \A k \in 1..n : s[places[k]] \in S
    BY <1>1, <1>5
  <2>2. QED BY <2>1
<1>7. t \in Seq(S) /\ Len(t) = n
  <2>1. n \in Nat
    BY <1>5
  <2> HIDE DEF t
  <2>2. QED BY <1>6, <2>1, SeqDef, LenProperties
<1>8. \A k \in 1..n : t[k] = s[places[k]]
  OBVIOUS
<1> HIDE DEF t
<1>9. IsInjective(s) => IsInjective(t)
  <2>1. SUFFICES ASSUME IsInjective(s), NEW k \in 1..n, NEW l \in 1..n, t[k] = t[l] PROVE k = l
    BY <1>6 DEF IsInjective
  <2>2. places[k] = places[l]
    BY <1>1, <1>5, <1>8, <2>1 DEF IsInjective
  <2>3. k - 1 = l - 1
    BY <1>5, <2>2
  <2>4. QED BY <1>5, <2>3
<1>10. \A i \in P : \E k \in 1..n : t[k] = s[i]
  BY <1>5, <1>8
<1>11. QED BY <1>4, <1>5, <1>7, <1>8, <1>9, <1>10

(***************************************************************************)
(* Sums.                                                                   *)
(***************************************************************************)

\* A set of numbers with zero and each number's successor has all of them.
LEMMA Induction ==
  ASSUME NEW S \in SUBSET Nat, 0 \in S, \A n \in S : n + 1 \in S
  PROVE  S = Nat
<1> DEFINE Rest == Nat \ S
<1>1. SUFFICES ASSUME Rest # {} PROVE FALSE
  OBVIOUS
<1>2. PICK x \in Rest : \A y \in Rest : ~(<<y, x>> \in OpToRel(<, Nat))
  BY <1>1, NatLessThanWellFounded, WFMin
<1>3. x \in Nat /\ x # 0 /\ x \notin S
  BY <1>2
<1>4. x - 1 \in Nat /\ x - 1 < x
  BY <1>3
<1>5. x - 1 \in S
  <2>1. ~(<<x - 1, x>> \in OpToRel(<, Nat)) \/ x - 1 \notin Rest
    BY <1>2
  <2>2. <<x - 1, x>> \in OpToRel(<, Nat)
    BY <1>3, <1>4 DEF OpToRel
  <2>3. QED BY <1>4, <2>1, <2>2
<1>6. (x - 1) + 1 \in S
  BY <1>5
<1>7. QED BY <1>3, <1>6

\* The running totals of some numbers, each with what it is made of.
Sums(t, x) == t[0] = 0 /\ \A n \in 1..Len(x) : t[n] = t[n - 1] + x[n]

LEMMA RunningTotalSums ==
  ASSUME NEW x \in Seq(Nat)
  PROVE  RunningTotal(x) \in [0..Len(x) -> Nat] /\ Sums(RunningTotal(x), x)
<1> DEFINE L == Len(x)
           Has(k) == \E g \in [0..k -> Nat] : g[0] = 0 /\ \A n \in 1..k : g[n] = g[n - 1] + x[n]
           S == {k \in Nat : k <= L => Has(k)}
<1>1. L \in Nat /\ \A n \in 1..L : x[n] \in Nat
  BY LenProperties, ElementOfSeq
<1> HIDE DEF L
<1>2. 0 \in S
  <2> DEFINE g == [n \in 0..0 |-> 0]
  <2>1. g \in [0..0 -> Nat] /\ g[0] = 0 /\ \A n \in 1..0 : g[n] = g[n - 1] + x[n]
    OBVIOUS
  <2>2. Has(0)
    BY <2>1
  <2>3. QED BY <2>2
<1>3. ASSUME NEW k \in S PROVE k + 1 \in S
  <2>0. k \in Nat /\ (k <= L => Has(k))
    BY Zenon
  <2>00. SUFFICES ASSUME k + 1 <= L PROVE Has(k + 1)
    <3>1. k + 1 \in Nat
      BY <2>0
    <3> HIDE DEF Has
    <3>2. QED BY <3>1
  <2>1. k + 1 <= L /\ k <= L /\ k \in Nat
    BY <1>1, <2>0, <2>00
  <2>2. PICK g \in [0..k -> Nat] : g[0] = 0 /\ \A n \in 1..k : g[n] = g[n - 1] + x[n]
    BY <2>0, <2>1, Zenon
  <2> DEFINE h == [n \in 0..(k + 1) |-> IF n = k + 1 THEN g[k] + x[k + 1] ELSE g[n]]
  <2>3. k \in Nat /\ g[k] \in Nat /\ x[k + 1] \in Nat
    BY <1>1, <2>1
  <2>4. h \in [0..(k + 1) -> Nat] /\ h[0] = 0
    BY <2>2, <2>3
  <2>5. ASSUME NEW n \in 1..(k + 1) PROVE h[n] = h[n - 1] + x[n]
    <3>1. n - 1 \in 0..k /\ h[n - 1] = g[n - 1]
      BY <2>3
    <3>2. CASE n = k + 1
      BY <2>3, <3>1, <3>2
    <3>3. CASE n # k + 1
      <4>1. n \in 1..k
        BY <2>3, <3>3
      <4>2. h[n] = g[n]
        BY <2>3, <3>3
      <4>3. QED BY <2>2, <3>1, <4>1, <4>2
    <3>4. QED BY <3>2, <3>3
  <2> HIDE DEF h
  <2>6. QED BY <2>4, <2>5
<1>4. S = Nat
  <2>1. S \in SUBSET Nat
    <3>1. \A k \in S : k \in Nat
      BY Zenon
    <3> HIDE DEF S
    <3>2. QED BY <3>1
  <2> HIDE DEF S
  <2>2. QED BY <1>2, <1>3, <2>1, Induction
<1>5. PICK g \in [0..L -> Nat] : g[0] = 0 /\ \A n \in 1..L : g[n] = g[n - 1] + x[n]
  <2>1. L \in S /\ L <= L
    <3> HIDE DEF S
    <3>1. QED BY <1>1, <1>4
  <2>2. Has(L)
    BY <2>1, Zenon
  <2>3. QED BY <2>2
<1> DEFINE Rec(t) == [n \in 0..L |-> IF n = 0 THEN 0 ELSE t[n - 1] + x[n]]
           T == CHOOSE t : t = Rec(t)
<1>6. g = Rec(g)
  <2>1. \A n \in 0..L : g[n] = IF n = 0 THEN 0 ELSE g[n - 1] + x[n]
    BY <1>1, <1>5
  <2>2. g = [n \in 0..L |-> g[n]]
    OBVIOUS
  <2>3. QED BY <2>1, <2>2
<1>7. T = Rec(T)
  <2> HIDE DEF Rec
  <2>1. QED BY <1>6
<1>8. RunningTotal(x) = T
  BY DEF RunningTotal, L
<1> HIDE DEF T
<1>9. DOMAIN T = 0..L /\ T[0] = 0 /\ \A n \in 1..L : T[n] = T[n - 1] + x[n]
  <2>1. \A n \in 0..L : T[n] = IF n = 0 THEN 0 ELSE T[n - 1] + x[n]
    BY <1>7
  <2>2. DOMAIN T = 0..L
    BY <1>7
  <2>3. 0 \in 0..L /\ \A n \in 1..L : n \in 0..L /\ n # 0
    BY <1>1
  <2>4. QED BY <2>1, <2>2, <2>3
<1>10. \A n \in 0..L : T[n] \in Nat
  <2> DEFINE R == {n \in Nat : n <= L => T[n] \in Nat}
  <2>1. 0 \in R
    BY <1>9
  <2>2. ASSUME NEW n \in R PROVE n + 1 \in R
    <3>1. SUFFICES ASSUME n + 1 <= L PROVE T[n + 1] \in Nat
      OBVIOUS
    <3>2. n + 1 \in 1..L /\ T[n] \in Nat /\ (n + 1) - 1 = n
      BY <1>1, <3>1
    <3>3. T[n + 1] = T[n] + x[n + 1] /\ x[n + 1] \in Nat
      BY <1>1, <1>9, <3>2
    <3>4. QED BY <3>2, <3>3
  <2>3. R \in SUBSET Nat
    OBVIOUS
  <2>4. R = Nat
    <3> HIDE DEF R
    <3>1. QED BY <2>1, <2>2, <2>3, Induction
  <2>5. ASSUME NEW n \in 0..L PROVE T[n] \in Nat
    <3>1. n \in R /\ n <= L
      <4>1. n \in Nat /\ n <= L
        BY <1>1
      <4> HIDE DEF R
      <4>2. QED BY <2>4, <4>1
    <3>2. QED BY <3>1
  <2>6. QED BY <2>5
<1>11. T = [n \in 0..L |-> T[n]]
  BY <1>7
<1>12. T \in [0..L -> Nat]
  BY <1>10, <1>11
<1>13. QED BY <1>8, <1>9, <1>12 DEF Sums, L

\* Running totals are the only ones.
LEMMA TotalUnique ==
  ASSUME NEW x \in Seq(Nat), NEW g \in [0..Len(x) -> Int], Sums(g, x)
  PROVE  Total(x) = g[Len(x)]
<1> DEFINE L == Len(x)
           t == RunningTotal(x)
           S == {n \in Nat : n <= L => t[n] = g[n]}
<1>1. L \in Nat /\ t \in [0..L -> Nat] /\ Sums(t, x)
  BY RunningTotalSums, LenProperties
<1>2. /\ t[0] = 0 /\ g[0] = 0
      /\ \A n \in 1..L : t[n] = t[n - 1] + x[n] /\ g[n] = g[n - 1] + x[n]
  BY <1>1 DEF Sums
<1>3. Total(x) = t[L]
  BY DEF Total
<1> HIDE DEF t, L
<1>4. 0 \in S
  BY <1>2
<1>5. ASSUME NEW n \in S PROVE n + 1 \in S
  <2>1. SUFFICES ASSUME n + 1 <= L PROVE t[n + 1] = g[n + 1]
    OBVIOUS
  <2>2. n + 1 \in 1..L /\ t[n] = g[n] /\ (n + 1) - 1 = n
    BY <1>1, <2>1
  <2>3. QED BY <1>2, <2>2
<1>6. S \in SUBSET Nat
  OBVIOUS
<1>7. S = Nat
  <2> HIDE DEF S
  <2>1. QED BY <1>4, <1>5, <1>6, Induction
<1>8. t[L] = g[L]
  <2>1. L \in S
    BY <1>1, <1>7
  <2>2. QED BY <1>1, <2>1
<1>9. QED BY <1>3, <1>8 DEF L

LEMMA TotalType == ASSUME NEW x \in Seq(Nat) PROVE Total(x) \in Nat
<1>1. Len(x) \in 0..Len(x)
  BY LenProperties
<1>2. QED BY <1>1, RunningTotalSums DEF Total

LEMMA TotalEmpty == Total(<<>>) = 0
<1>1. <<>> \in Seq(Nat) /\ Len(<<>>) = 0
  OBVIOUS
<1>2. QED BY <1>1, RunningTotalSums DEF Total, Sums

LEMMA TotalAppend ==
  ASSUME NEW x \in Seq(Nat), NEW v \in Nat
  PROVE  Total(Append(x, v)) = Total(x) + v
<1> DEFINE L == Len(x)
           t == RunningTotal(x)
           y == Append(x, v)
           g == [n \in 0..(L + 1) |-> IF n = L + 1 THEN t[L] + v ELSE t[n]]
<1>1. L \in Nat /\ t \in [0..L -> Nat] /\ Sums(t, x)
  BY RunningTotalSums, LenProperties
<1>2. t[0] = 0 /\ \A n \in 1..L : t[n] = t[n - 1] + x[n]
  BY <1>1 DEF Sums
<1>3. /\ y \in Seq(Nat) /\ Len(y) = L + 1 /\ y[L + 1] = v
      /\ \A n \in 1..L : y[n] = x[n]
  BY AppendProperties
<1>4. Total(x) = t[L]
  BY DEF Total
<1> HIDE DEF t, L, y
<1>5. g \in [0..(L + 1) -> Int] /\ g[0] = 0 /\ g[L + 1] = t[L] + v
  BY <1>1, <1>2
<1>6. ASSUME NEW n \in 1..(L + 1) PROVE g[n] = g[n - 1] + y[n]
  <2>1. n - 1 \in 0..L /\ g[n - 1] = t[n - 1]
    BY <1>1
  <2>2. CASE n = L + 1
    BY <1>1, <1>3, <1>5, <2>1, <2>2
  <2>3. CASE n # L + 1
    <3>1. n \in 1..L /\ g[n] = t[n]
      BY <1>1, <2>3
    <3>2. QED BY <1>2, <1>3, <2>1, <3>1
  <2>4. QED BY <2>2, <2>3
<1> HIDE DEF g
<1>7. Sums(g, y)
  BY <1>3, <1>5, <1>6 DEF Sums
<1>8. Total(y) = g[L + 1]
  BY <1>3, <1>5, <1>7, TotalUnique
<1>9. QED BY <1>4, <1>5, <1>8 DEF y

LEMMA TotalTail ==
  ASSUME NEW x \in Seq(Nat), x # <<>>
  PROVE  Total(x) = x[1] + Total(Tail(x))
<1> DEFINE L == Len(x)
           t == RunningTotal(x)
           y == Tail(x)
           g == [n \in 0..(L - 1) |-> t[n + 1] - x[1]]
<1>1. L \in Nat \ {0} /\ t \in [0..L -> Nat] /\ Sums(t, x) /\ x[1] \in Nat
  BY RunningTotalSums, LenProperties, EmptySeq, ElementOfSeq
<1>2. t[0] = 0 /\ \A n \in 1..L : t[n] = t[n - 1] + x[n]
  BY <1>1 DEF Sums
<1>3. /\ y \in Seq(Nat) /\ Len(y) = L - 1 /\ \A n \in 1..(L - 1) : y[n] = x[n + 1]
  BY HeadTailProperties
<1>4. Total(x) = t[L]
  BY DEF Total
<1> HIDE DEF t, L, y
<1>5. g \in [0..(L - 1) -> Int]
  BY <1>1
<1>6. g[0] = 0 /\ g[L - 1] = t[L] - x[1]
  <2>1. t[1] = t[0] + x[1]
    <3>1. 1 \in 1..L /\ 1 - 1 = 0
      BY <1>1
    <3>2. QED BY <1>2, <3>1
  <2>2. QED BY <1>1, <1>2, <2>1
<1>7. ASSUME NEW n \in 1..(L - 1) PROVE g[n] = g[n - 1] + y[n]
  <2>1. n + 1 \in 1..L /\ (n + 1) - 1 = n /\ n - 1 \in 0..(L - 1) /\ (n - 1) + 1 = n /\ n \in 0..L
    BY <1>1
  <2>2. g[n] = t[n + 1] - x[1] /\ g[n - 1] = t[n] - x[1]
    BY <1>1, <2>1
  <2>3. t[n + 1] = t[n] + x[n + 1] /\ y[n] = x[n + 1] /\ t[n] \in Nat /\ t[n + 1] \in Nat
    <3>1. t[n + 1] = t[n] + x[n + 1]
      BY <1>2, <2>1
    <3>2. y[n] = x[n + 1]
      BY <1>3
    <3>3. n \in 0..L /\ n + 1 \in 0..L
      BY <1>1, <2>1
    <3>4. t[n] \in Nat /\ t[n + 1] \in Nat
      BY <1>1, <3>3
    <3>5. QED BY <3>1, <3>2, <3>4
  <2>4. x[n + 1] \in Nat /\ x[1] \in Nat
    <3>1. y[n] \in Nat
      BY <1>3, ElementOfSeq
    <3>2. QED BY <1>1, <2>3, <3>1
  <2> HIDE DEF g
  <2>5. QED BY <2>2, <2>3, <2>4
<1> HIDE DEF g
<1>8. Sums(g, y)
  BY <1>3, <1>6, <1>7 DEF Sums
<1>9. Total(y) = g[L - 1]
  BY <1>3, <1>5, <1>8, TotalUnique
<1>10. t[L] \in Nat
  BY <1>1
<1>11. QED BY <1>1, <1>4, <1>6, <1>9, <1>10 DEF y

\* The more numbers, the greater their sum.
LEMMA TotalGrows ==
  ASSUME NEW x \in Seq(Nat), NEW m \in 0..Len(x), NEW k \in 0..Len(x), m <= k
  PROVE  RunningTotal(x)[m] <= RunningTotal(x)[k]
<1> DEFINE L == Len(x)
           t == RunningTotal(x)
           S == {n \in Nat : m <= n /\ n <= L => t[m] <= t[n]}
<1>1. L \in Nat /\ t \in [0..L -> Nat] /\ Sums(t, x) /\ \A n \in 1..L : x[n] \in Nat
  BY RunningTotalSums, LenProperties, ElementOfSeq
<1>2. t[0] = 0 /\ \A n \in 1..L : t[n] = t[n - 1] + x[n]
  BY <1>1 DEF Sums
<1> HIDE DEF t
<1>3. m \in Nat /\ m <= L /\ k \in Nat /\ k <= L
  BY <1>1
<1> HIDE DEF L
<1>4. 0 \in S
  <2>1. m <= 0 => m = 0
    BY <1>3
  <2>2. t[0] <= t[0]
    BY <1>2
  <2>3. QED BY <2>1, <2>2
<1>5. ASSUME NEW n \in S PROVE n + 1 \in S
  <2>1. SUFFICES ASSUME m <= n + 1, n + 1 <= L PROVE t[m] <= t[n + 1]
    OBVIOUS
  <2>2. n \in Nat /\ n + 1 \in 1..L /\ (n + 1) - 1 = n /\ n \in 0..L /\ m \in 0..L /\ n + 1 \in 0..L
    BY <1>1, <1>3, <2>1
  <2>3. t[n + 1] = t[n] + x[n + 1] /\ x[n + 1] \in Nat /\ t[n] \in Nat /\ t[m] \in Nat
    BY <1>1, <1>2, <2>2
  <2>4. CASE m = n + 1
    BY <2>3, <2>4
  <2>5. CASE m # n + 1
    <3>1. m <= n /\ n <= L
      BY <1>1, <1>3, <2>1, <2>2, <2>5
    <3>2. t[m] <= t[n]
      BY <3>1
    <3>3. QED BY <2>3, <3>2
  <2>6. QED BY <2>4, <2>5
<1>6. S \in SUBSET Nat
  OBVIOUS
<1>7. S = Nat
  <2> HIDE DEF S
  <2>1. QED BY <1>4, <1>5, <1>6, Induction
<1>8. k \in S
  BY <1>3, <1>7
<1>9. QED BY <1>3, <1>8 DEF t

\* A selection of numbers, each made no greater, sums to no more.
LEMMA TotalOfSome ==
  ASSUME NEW x \in Seq(Nat), NEW y \in Seq(Nat), NEW f \in [1..Len(y) -> 1..Len(x)],
         \A i, j \in 1..Len(y) : i < j => f[i] < f[j],
         \A i \in 1..Len(y) : y[i] <= x[f[i]]
  PROVE  Total(y) <= Total(x)
<1> DEFINE L == Len(x)
           M == Len(y)
           t == RunningTotal(x)
           u == RunningTotal(y)
           S == {n \in Nat : n \in 1..M => u[n] <= t[f[n]]}
<1>1. /\ L \in Nat /\ t \in [0..L -> Nat] /\ Sums(t, x) /\ \A n \in 1..L : x[n] \in Nat
      /\ M \in Nat /\ u \in [0..M -> Nat] /\ Sums(u, y) /\ \A n \in 1..M : y[n] \in Nat
  BY RunningTotalSums, LenProperties, ElementOfSeq
<1>2. /\ t[0] = 0 /\ \A n \in 1..L : t[n] = t[n - 1] + x[n]
      /\ u[0] = 0 /\ \A n \in 1..M : u[n] = u[n - 1] + y[n]
  BY <1>1 DEF Sums
<1>3. \A m, k \in 0..L : m <= k => t[m] <= t[k]
  BY TotalGrows
<1>4. Total(x) = t[L] /\ Total(y) = u[M]
  BY DEF Total
<1>5. f \in [1..M -> 1..L]
  OBVIOUS
<1>6. /\ \A i, j \in 1..M : i < j => f[i] < f[j]
      /\ \A i \in 1..M : y[i] <= x[f[i]]
  OBVIOUS
<1> HIDE DEF t, u, L, M
<1>0. \A j \in 1..L : j \in 0..L /\ j - 1 \in 0..L /\ j \in Nat
  BY <1>1
\* What the next number adds is no more than what its counterpart adds.
<1>7. ASSUME NEW n \in Nat, n + 1 \in 1..M, u[n] <= t[f[n + 1] - 1] PROVE u[n + 1] <= t[f[n + 1]]
  <2> DEFINE k == f[n + 1]
  <2>1. k \in 1..L /\ k - 1 \in 0..L /\ k \in 0..L
    <3>1. f[n + 1] \in 1..L
      BY <1>5, <1>7
    <3>2. QED BY <1>0, <3>1
  <2>2. y[n + 1] <= x[k] /\ t[k] = t[k - 1] + x[k] /\ x[k] \in Nat /\ t[k - 1] \in Nat
    BY <1>1, <1>2, <1>6, <1>7, <2>1
  <2>3. (n + 1) - 1 = n /\ n \in 0..M
    BY <1>1, <1>7
  <2>4. u[n + 1] = u[n] + y[n + 1] /\ u[n] \in Nat /\ y[n + 1] \in Nat
    BY <1>1, <1>2, <1>7, <2>3
  <2>5. u[n] <= t[k - 1]
    BY <1>7
  <2> HIDE DEF k
  <2>6. u[n + 1] <= t[k]
    BY <2>2, <2>4, <2>5, SMTT(30)
  <2>7. QED BY <2>6 DEF k
<1>8. 0 \in S
  BY <1>1
<1>9. ASSUME NEW n \in S PROVE n + 1 \in S
  <2>1. SUFFICES ASSUME n + 1 \in 1..M PROVE u[n + 1] <= t[f[n + 1]]
    OBVIOUS
  <2>2. n \in Nat /\ f[n + 1] \in 1..L /\ f[n + 1] - 1 \in 0..L
    <3>1. f[n + 1] \in 1..L
      BY <1>5, <2>1
    <3>2. QED BY <1>0, <3>1
  <2>3. u[n] <= t[f[n + 1] - 1]
    <3>1. CASE n = 0
      <4>1. t[f[n + 1] - 1] \in Nat
        BY <1>1, <2>2
      <4>2. QED BY <1>2, <3>1, <4>1
    <3>2. CASE n # 0
      <4>1. n \in 1..M /\ n < n + 1
        BY <1>1, <2>1, <2>2, <3>2
      <4>2. f[n] \in 1..L /\ f[n] < f[n + 1]
        BY <1>5, <1>6, <2>1, <4>1
      <4>3. f[n] \in 0..L /\ f[n] <= f[n + 1] - 1
        <5>1. f[n] \in 0..L /\ f[n] \in Nat /\ f[n + 1] \in Nat
          BY <1>0, <2>2, <4>2
        <5>2. QED BY <4>2, <5>1
      <4>4. t[f[n]] <= t[f[n + 1] - 1]
        BY <1>3, <2>2, <4>3
      <4>5. u[n] <= t[f[n]]
        BY <4>1
      <4>6. u[n] \in Nat /\ t[f[n]] \in Nat /\ t[f[n + 1] - 1] \in Nat
        <5>1. n \in 0..M
          BY <1>1, <4>1
        <5>2. QED BY <1>1, <2>2, <4>3, <5>1
      <4>7. QED BY <4>4, <4>5, <4>6
    <3>3. QED BY <3>1, <3>2
  <2>4. QED BY <1>7, <2>1, <2>2, <2>3
<1>10. S \in SUBSET Nat
  OBVIOUS
<1>11. S = Nat
  <2> HIDE DEF S
  <2>1. QED BY <1>8, <1>9, <1>10, Induction
<1>12. u[M] <= t[L]
  <2>1. L \in 0..L /\ 0 \in 0..L /\ t[L] \in Nat
    BY <1>1
  <2>2. CASE M = 0
    BY <1>2, <2>1, <2>2
  <2>3. CASE M # 0
    <3>1. M \in S /\ M \in 1..M
      <4> HIDE DEF S
      <4>1. QED BY <1>1, <1>11, <2>3
    <3>2. u[M] <= t[f[M]]
      BY <3>1
    <3>3. f[M] \in 0..L /\ f[M] <= L
      BY <1>1, <1>5, <3>1
    <3>4. t[f[M]] <= t[L] /\ t[f[M]] \in Nat /\ u[M] \in Nat
      BY <1>1, <1>3, <2>1, <3>1, <3>3
    <3>5. QED BY <2>1, <3>2, <3>4
  <2>4. QED BY <2>2, <2>3
<1>13. QED BY <1>4, <1>12

(***************************************************************************)
(* Lists of numbers.                                                       *)
(***************************************************************************)

\* A function on the first n numbers is a list of length n.
LEMMA SameLength ==
  ASSUME NEW T, NEW n \in Nat, NEW s \in [1..n -> T] PROVE s \in Seq(T) /\ Len(s) = n
<1>1. s \in Seq(T)
  BY SeqDef
<1>2. Len(s) \in Nat /\ 1..Len(s) = 1..n
  BY <1>1, LenProperties
<1>3. \A a, b \in Nat : 1..a = 1..b => a <= b
  <2>1. ASSUME NEW a \in Nat, NEW b \in Nat, 1..a = 1..b PROVE a <= b
    <3>1. CASE a = 0
      BY <3>1
    <3>2. CASE a # 0
      <4>1. a \in 1..a
        BY <3>2
      <4>2. a \in 1..b
        BY <2>1, <4>1
      <4>3. QED BY <4>2
    <3>3. QED BY <3>1, <3>2
  <2>2. QED BY <2>1
<1>4. Len(s) <= n /\ n <= Len(s)
  BY <1>2, <1>3
<1>5. QED BY <1>1, <1>2, <1>4

\* The same list by another name.
LEMMA SameList ==
  ASSUME NEW s \in Seq(Nat), NEW t \in Seq(Nat), Len(s) = Len(t),
         \A i \in 1..Len(s) : s[i] = t[i]
  PROVE  s = t
<1>1. DOMAIN s = 1..Len(s) /\ DOMAIN t = 1..Len(s)
  BY LenProperties
<1>2. s = [i \in DOMAIN s |-> s[i]] /\ t = [i \in DOMAIN t |-> t[i]]
  BY LenProperties
<1>3. QED BY <1>1, <1>2

\* Numbers none of which is less, and perhaps more of them, sum to no less.
LEMMA TotalLess ==
  ASSUME NEW x \in Seq(Nat), NEW y \in Seq(Nat), Len(x) <= Len(y),
         \A i \in 1..Len(x) : x[i] <= y[i]
  PROVE  Total(x) <= Total(y)
<1> DEFINE L == Len(x)
           M == Len(y)
           f == [i \in 1..L |-> i]
<1>1. L \in Nat /\ M \in Nat /\ L <= M
  BY LenProperties
<1>2. /\ f \in [1..L -> 1..M]
      /\ \A i, j \in 1..L : i < j => f[i] < f[j]
      /\ \A i \in 1..L : x[i] <= y[f[i]]
  BY <1>1
<1> HIDE DEF f
<1>3. QED BY <1>2, TotalOfSome

\* ... and one that is greater by v makes the sum greater by v.
LEMMA TotalPlus ==
  ASSUME NEW x \in Seq(Nat), NEW y \in Seq(Nat), Len(x) <= Len(y),
         NEW k \in 1..Len(x), NEW v \in Nat,
         \A i \in 1..Len(x) : x[i] <= y[i], x[k] + v <= y[k]
  PROVE  Total(x) + v <= Total(y)
<1> DEFINE L == Len(x)
           t == RunningTotal(x)
           z == [i \in 1..L |-> IF i = k THEN x[i] + v ELSE x[i]]
           g == [n \in 0..L |-> IF k <= n THEN t[n] + v ELSE t[n]]
<1>1. /\ L \in Nat /\ k \in 1..L /\ t \in [0..L -> Nat] /\ Sums(t, x)
      /\ \A n \in 1..L : x[n] \in Nat
  BY RunningTotalSums, LenProperties, ElementOfSeq
<1>2. t[0] = 0 /\ \A n \in 1..L : t[n] = t[n - 1] + x[n]
  BY <1>1 DEF Sums
<1>3. Total(x) = t[L]
  BY DEF Total
<1>4. L <= Len(y) /\ \A i \in 1..L : x[i] <= y[i]
  OBVIOUS
<1> HIDE DEF L, t
<1>5. z \in [1..L -> Nat]
  <2>1. ASSUME NEW i \in 1..L PROVE (IF i = k THEN x[i] + v ELSE x[i]) \in Nat
    <3> DEFINE a == x[i]
    <3>1. a \in Nat
      BY <1>1
    <3> HIDE DEF a
    <3>2. a + v \in Nat
      BY <3>1
    <3>3. QED BY <3>1, <3>2 DEF a
  <2>2. QED BY <2>1
<1>6. z \in Seq(Nat) /\ Len(z) = L
  <2> HIDE DEF z
  <2>1. QED BY <1>1, <1>5, SameLength
<1>7. g \in [0..L -> Int]
  <2>1. \A n \in 0..L : t[n] \in Nat
    BY <1>1
  <2>2. \A n \in 0..L : (IF k <= n THEN t[n] + v ELSE t[n]) \in Int
    BY <2>1
  <2>3. QED BY <2>2
<1>8. Sums(g, z)
  <2>1. g[0] = 0
    BY <1>1, <1>2
  <2>2. ASSUME NEW n \in 1..L PROVE g[n] = g[n - 1] + z[n]
    <3>1. n \in Nat /\ n \in 0..L /\ n - 1 \in 0..L /\ k \in Nat
      BY <1>1
    <3>2. t[n] = t[n - 1] + x[n] /\ t[n - 1] \in Nat /\ x[n] \in Nat
      BY <1>1, <1>2, <3>1
    <3>3. /\ g[n] = IF k <= n THEN t[n] + v ELSE t[n]
          /\ g[n - 1] = IF k <= n - 1 THEN t[n - 1] + v ELSE t[n - 1]
          /\ z[n] = IF n = k THEN x[n] + v ELSE x[n]
      BY <3>1
    <3> DEFINE tn == t[n]
               tm == t[n - 1]
               xn == x[n]
    <3>4. tn = tm + xn /\ tm \in Nat /\ xn \in Nat
      BY <3>2
    <3>5. /\ g[n] = IF k <= n THEN tn + v ELSE tn
          /\ g[n - 1] = IF k <= n - 1 THEN tm + v ELSE tm
          /\ z[n] = IF n = k THEN xn + v ELSE xn
      BY <3>3
    <3> HIDE DEF g, z, tn, tm, xn
    <3>6. CASE k <= n - 1
      BY <3>1, <3>4, <3>5, <3>6
    <3>7. CASE k = n
      BY <3>1, <3>4, <3>5, <3>7
    <3>8. CASE n < k
      <4>1. ~(k <= n) /\ ~(k <= n - 1) /\ n # k
        BY <3>1, <3>8
      <4>2. g[n] = tn /\ g[n - 1] = tm /\ z[n] = xn
        BY <3>5, <4>1
      <4>3. QED BY <3>4, <4>2
    <3>9. QED BY <3>1, <3>6, <3>7, <3>8
  <2> HIDE DEF g, z
  <2>3. QED BY <1>6, <2>1, <2>2 DEF Sums
<1>9. Total(z) = t[L] + v
  <2>1. g[L] = t[L] + v
    BY <1>1
  <2> HIDE DEF g, z
  <2>2. Total(z) = g[Len(z)]
    <3>1. g \in [0..Len(z) -> Int]
      BY <1>6, <1>7
    <3>2. QED BY <1>6, <1>8, <3>1, TotalUnique
  <2>3. QED BY <1>6, <2>1, <2>2
<1>10. \A i \in 1..L : z[i] <= y[i]
  <2>1. x[k] + v <= y[k]
    OBVIOUS
  <2>2. QED BY <1>4, <2>1
<1> HIDE DEF z
<1>11. Total(z) <= Total(y)
  BY <1>4, <1>6, <1>10, TotalLess
<1>12. QED BY <1>3, <1>9, <1>11

\* Of numbers that are all zero but the last two at most, the sum is those two.
LEMMA TotalOfTwo ==
  ASSUME NEW x \in Seq(Nat), NEW k \in Nat, k <= Len(x), Len(x) <= k + 2,
         \A i \in 1..k : x[i] = 0
  PROVE  /\ Len(x) = k => Total(x) = 0
         /\ Len(x) = k + 1 => Total(x) = x[k + 1]
         /\ Len(x) = k + 2 => Total(x) = x[k + 1] + x[k + 2]
<1> DEFINE L == Len(x)
           a == IF k + 1 <= L THEN x[k + 1] ELSE 0
           b == IF k + 2 <= L THEN x[k + 2] ELSE 0
           g == [n \in 0..L |-> IF n <= k THEN 0 ELSE IF n = k + 1 THEN a ELSE a + b]
<1>1. L \in Nat /\ \A n \in 1..L : x[n] \in Nat
  BY LenProperties, ElementOfSeq
<1>2. k <= L /\ L <= k + 2 /\ \A i \in 1..k : x[i] = 0
  OBVIOUS
<1>3. a \in Nat /\ b \in Nat
  BY <1>1
<1>4. (k + 1 <= L => a = x[k + 1]) /\ (k + 2 <= L => b = x[k + 2])
  OBVIOUS
<1> HIDE DEF L, a, b
<1>5. g \in [0..L -> Int]
  BY <1>3
<1>6. g[0] = 0
  BY <1>1
<1>7. ASSUME NEW n \in 1..L PROVE g[n] = g[n - 1] + x[n]
  <2>1. n \in 0..L /\ n - 1 \in 0..L /\ n \in Nat
    BY <1>1
  <2>2. CASE n <= k
    BY <1>2, <2>1, <2>2
  <2>3. CASE n = k + 1
    BY <1>3, <1>4, <2>1, <2>3
  <2>4. CASE n = k + 2
    BY <1>3, <1>4, <2>1, <2>4
  <2>5. QED BY <1>1, <1>2, <2>1, <2>2, <2>3, <2>4
<1>8. Total(x) = g[L]
  <2>1. Sums(g, x)
    <3> HIDE DEF g
    <3>1. QED BY <1>6, <1>7 DEF Sums, L
  <2> HIDE DEF g
  <2>2. QED BY <1>5, <2>1, TotalUnique DEF L
<1>9. g[L] = IF L <= k THEN 0 ELSE IF L = k + 1 THEN a ELSE a + b
  BY <1>1
<1>10. QED
  <2> HIDE DEF g
  <2>1. QED BY <1>1, <1>2, <1>4, <1>8, <1>9 DEF L
==============================================================================
