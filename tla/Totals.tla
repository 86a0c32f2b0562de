------------------------------ MODULE Totals ------------------------------
(***************************************************************************)
(* Sums over a finite set, as MapThenSumSet makes them, and the induction  *)
(* they rest on: what every state of a system keeps is often a sum of what *)
(* each thread has in its hands.                                           *)
(***************************************************************************)
EXTENDS Integers, FiniteSetsExt, FiniteSetTheorems, WellFoundedInduction, TLAPS

(* MapThenSumSet takes one element of the set after the other. *)
First(s) == CHOOSE t \in s : TRUE

Sums(S, e, sum) ==
  \A s \in SUBSET S :
    sum[s] = IF s = {} THEN 0 ELSE e[First(s)] + sum[s \ {First(s)}]

(* What a set of numbers has that has 0, and with each number the next. *)
LEMMA InductionOnNat ==
  ASSUME NEW T, 0 \in T, \A n \in Nat : n \in T => n + 1 \in T
  PROVE  \A n \in Nat : n \in T
<1> SUFFICES ASSUME Nat \ T # {} PROVE FALSE
  OBVIOUS
<1>1. PICK n \in Nat \ T : \A m \in Nat \ T : <<m, n>> \notin OpToRel(<, Nat)
  BY NatLessThanWellFounded, WFMin
<1>2. n - 1 \in Nat \ T
  OBVIOUS
<1>3. <<n - 1, n>> \in OpToRel(<, Nat)
  BY <1>2 DEF OpToRel
<1> QED BY <1>1, <1>2, <1>3

(* What holds of the empty set, and of a set when it holds of the rest without the first. *)
LEMMA InductionOnSets ==
  ASSUME NEW S, IsFiniteSet(S), NEW T, {} \in T,
         \A s \in SUBSET S : s # {} /\ s \ {First(s)} \in T => s \in T
  PROVE  \A s \in SUBSET S : s \in T
<1> DEFINE N == {n \in Nat : \A s \in SUBSET S : Cardinality(s) = n => s \in T}
<1>1. \A s \in SUBSET S : IsFiniteSet(s) /\ Cardinality(s) \in Nat
  BY FS_Subset, FS_CardinalityType
<1>2. 0 \in N
  BY <1>1, FS_EmptySet
<1>3. ASSUME NEW n \in Nat, n \in N PROVE n + 1 \in N
  <2> SUFFICES ASSUME NEW s \in SUBSET S, Cardinality(s) = n + 1 PROVE s \in T
    OBVIOUS
  <2>0. s # {}
    BY FS_EmptySet
  <2>1. First(s) \in s
    BY <2>0 DEF First
  <2>2. Cardinality(s \ {First(s)}) = n
    BY <1>1, <2>1, FS_RemoveElement
  <2>3. s \ {First(s)} \in T
    BY <1>3, <2>2
  <2> QED BY <2>0, <2>3
<1>4. \A n \in Nat : n \in N
  <2> HIDE DEF N
  <2> QED BY <1>2, <1>3, InductionOnNat
<1> QED BY <1>1, <1>4

(* There are such sums: the recursion of MapThenSumSet defines a function; and it keeps to
   a set of numbers that has the sums of its members. *)
LEMMA SumsExistIn ==
  ASSUME NEW S, IsFiniteSet(S), NEW D \in SUBSET Int, 0 \in D, \A m, n \in D : m + n \in D,
         NEW e \in [S -> D]
  PROVE  \E sum \in [SUBSET S -> D] : Sums(S, e, sum)
<1> DEFINE Upto(n) == {s \in SUBSET S : Cardinality(s) <= n}
           Rec(sum, n) == \A s \in Upto(n) :
             sum[s] = IF s = {} THEN 0 ELSE e[First(s)] + sum[s \ {First(s)}]
           T == {n \in Nat : \E sum \in [Upto(n) -> D] : Rec(sum, n)}
<1>1. \A s \in SUBSET S : IsFiniteSet(s) /\ Cardinality(s) \in Nat /\ (Cardinality(s) = 0 <=> s = {})
  BY FS_Subset, FS_CardinalityType, FS_EmptySet
<1>2. ASSUME NEW s \in SUBSET S, s # {}
      PROVE  /\ First(s) \in s /\ e[First(s)] \in D
             /\ Cardinality(s \ {First(s)}) = Cardinality(s) - 1
  BY <1>1, <1>2, FS_RemoveElement DEF First
<1>3. 0 \in T
  <2> DEFINE z == [s \in Upto(0) |-> 0]
  <2>1. Upto(0) = {{}}
    BY <1>1, FS_EmptySet
  <2>2. z \in [Upto(0) -> D] /\ Rec(z, 0)
    BY <2>1
  <2> QED BY <2>2
<1>4. ASSUME NEW n \in Nat, n \in T PROVE n + 1 \in T
  <2>1. PICK g \in [Upto(n) -> D] : Rec(g, n)
    BY <1>4
  <2> DEFINE h == [s \in Upto(n + 1) |->
                     IF Cardinality(s) <= n THEN g[s] ELSE e[First(s)] + g[s \ {First(s)}]]
  <2>2. ASSUME NEW s \in Upto(n + 1), s # {}
        PROVE  s \ {First(s)} \in Upto(n) /\ s \ {First(s)} \in Upto(n + 1)
    BY <1>1, <1>2, <2>2
  <2>3. ASSUME NEW s \in Upto(n + 1)
        PROVE  /\ h[s] \in D
               /\ h[s] = IF s = {} THEN 0 ELSE e[First(s)] + h[s \ {First(s)}]
    <3>1. CASE Cardinality(s) <= n
      <4>1. s \in Upto(n) /\ h[s] = g[s] /\ g[s] \in D
        BY <3>1
      <4>2. g[s] = IF s = {} THEN 0 ELSE e[First(s)] + g[s \ {First(s)}]
        BY <2>1, <4>1
      <4>3. s # {} => h[s \ {First(s)}] = g[s \ {First(s)}]
        BY <2>2
      <4> QED BY <4>1, <4>2, <4>3
    <3>2. CASE ~(Cardinality(s) <= n)
      <4>1. s # {}
        BY <1>1, <3>2
      <4>2. s \ {First(s)} \in Upto(n) /\ h[s \ {First(s)}] = g[s \ {First(s)}]
        BY <2>2, <4>1
      <4>3. h[s] = e[First(s)] + g[s \ {First(s)}]
        BY <3>2
      <4> QED BY <1>2, <4>1, <4>2, <4>3
    <3> QED BY <3>1, <3>2
  <2>4. h \in [Upto(n + 1) -> D]
    BY <2>3
  <2>5. Rec(h, n + 1)
    BY <2>3
  <2> HIDE DEF h, Upto, Rec
  <2> QED BY <2>4, <2>5
<1>5. Cardinality(S) \in Nat /\ Cardinality(S) \in T
  <2> HIDE DEF T
  <2> QED BY <1>1, <1>3, <1>4, InductionOnNat
<1>6. Upto(Cardinality(S)) = SUBSET S
  BY FS_Subset
<1>7. PICK sum \in [SUBSET S -> D] : Rec(sum, Cardinality(S))
  BY <1>5, <1>6
<1>8. Sums(S, e, sum)
  BY <1>6, <1>7 DEF Sums
<1> QED BY <1>7, <1>8

LEMMA SumsExist ==
  ASSUME NEW S, IsFiniteSet(S), NEW e \in [S -> Nat]
  PROVE  \E sum \in [SUBSET S -> Nat] : Sums(S, e, sum)
<1>1. Nat \in SUBSET Int /\ 0 \in Nat /\ \A m, n \in Nat : m + n \in Nat
  OBVIOUS
<1> QED BY <1>1, SumsExistIn

(* Two sums: of amounts that are nowhere larger, and of amounts that differ for one member. *)
LEMMA SumsOfNumbers ==
  ASSUME NEW S, IsFiniteSet(S), NEW e \in [S -> Int], NEW f \in [S -> Int],
         NEW sum, Sums(S, e, sum), NEW rest, Sums(S, f, rest)
  PROVE  /\ sum[S] \in Int
         /\ (\A t \in S : e[t] \in Nat) => sum[S] \in Nat
         /\ (\A t \in S : e[t] = 0) => sum[S] = 0
         /\ (\A t \in S : e[t] <= f[t]) => sum[S] <= rest[S]
         /\ \A t \in S : f = [e EXCEPT ![t] = f[t]] => rest[S] = sum[S] - e[t] + f[t]
<1> DEFINE OneMore(s, t) == rest[s] = IF t \in s THEN sum[s] - e[t] + f[t] ELSE sum[s]
           Good(s) == /\ sum[s] \in Int /\ rest[s] \in Int
                      /\ (\A t \in S : e[t] \in Nat) => sum[s] \in Nat
                      /\ (\A t \in S : e[t] = 0) => sum[s] = 0
                      /\ (\A t \in S : e[t] <= f[t]) => sum[s] <= rest[s]
                      /\ \A t \in S : f = [e EXCEPT ![t] = f[t]] => OneMore(s, t)
           T == {s \in SUBSET S : Good(s)}
<1>1. {} \in T
  <2>1. sum[{}] = 0 /\ rest[{}] = 0
    BY DEF Sums
  <2> QED BY <2>1
<1>2. ASSUME NEW s \in SUBSET S, s # {}, s \ {First(s)} \in T PROVE s \in T
  <2> DEFINE x == First(s)
             r == s \ {x}
  <2>1. x \in s /\ x \in S
    BY <1>2 DEF First
  <2>2. sum[s] = e[x] + sum[r] /\ rest[s] = f[x] + rest[r]
    BY <1>2 DEF Sums
  <2>3. Good(r)
    BY <1>2
  <2>4. e[x] \in Int /\ f[x] \in Int
    BY <2>1
  <2> HIDE DEF x
  <2>5. ASSUME NEW t \in S, f = [e EXCEPT ![t] = f[t]] PROVE OneMore(s, t)
    <3>1. OneMore(r, t) /\ sum[r] \in Int /\ rest[r] \in Int /\ e[t] \in Int /\ f[t] \in Int
      BY <2>3, <2>5
    <3>2. CASE t = x
      BY <2>1, <2>2, <2>4, <3>1, <3>2
    <3>3. CASE t # x
      <4>1. f[x] = e[x]
        BY <2>1, <2>5, <3>3
      <4>2. t \in s <=> t \in r
        BY <3>3
      <4> QED BY <2>2, <2>4, <3>1, <4>1, <4>2
    <3> QED BY <3>2, <3>3
  <2>6. (\A t \in S : e[t] = 0) => sum[s] = 0
    BY <2>1, <2>2, <2>3
  <2>7. (\A t \in S : e[t] <= f[t]) => sum[s] <= rest[s]
    BY <2>1, <2>2, <2>3, <2>4
  <2>8. sum[s] \in Int /\ rest[s] \in Int
    BY <2>2, <2>3, <2>4
  <2>9. (\A t \in S : e[t] \in Nat) => sum[s] \in Nat
    BY <2>1, <2>2, <2>3
  <2> QED BY <2>5, <2>6, <2>7, <2>8, <2>9
<1>3. \A s \in SUBSET S : s \in T
  <2> HIDE DEF T
  <2> QED BY <1>1, <1>2, InductionOnSets
<1>4. Good(S)
  BY <1>3
<1> QED BY <1>4

LEMMA SumsCompare ==
  ASSUME NEW S, IsFiniteSet(S), NEW e \in [S -> Nat], NEW f \in [S -> Nat],
         NEW sum, Sums(S, e, sum), NEW rest, Sums(S, f, rest)
  PROVE  /\ sum[S] \in Nat
         /\ (\A t \in S : e[t] = 0) => sum[S] = 0
         /\ (\A t \in S : e[t] <= f[t]) => sum[S] <= rest[S]
         /\ \A t \in S : f = [e EXCEPT ![t] = f[t]] => rest[S] = sum[S] - e[t] + f[t]
<1>1. e \in [S -> Int] /\ f \in [S -> Int] /\ \A t \in S : e[t] \in Nat
  OBVIOUS
<1> QED BY <1>1, SumsOfNumbers

(* What an action changes: the sum of amounts that are kept for each element of a set. *)
Total(S, e) == MapThenSumSet(LAMBDA member : e[member], S)

LEMMA TotalIsSumOfNumbers ==
  ASSUME NEW S, IsFiniteSet(S), NEW e \in [S -> Int]
  PROVE  \E sum : Sums(S, e, sum) /\ Total(S, e) = sum[S]
<1> DEFINE Iter(g) == [s \in SUBSET S |->
                         IF s = {} THEN 0 ELSE e[First(s)] + g[s \ {First(s)}]]
           f == CHOOSE g : g = Iter(g)
<1>1. Total(S, e) = f[S]
  BY DEF Total, MapThenSumSet, MapThenFoldSet, First
<1>2. PICK sum \in [SUBSET S -> Int] : Sums(S, e, sum)
  <2>1. Int \in SUBSET Int /\ 0 \in Int /\ \A m, n \in Int : m + n \in Int
    OBVIOUS
  <2> QED BY <2>1, SumsExistIn
<1>3. sum = Iter(sum)
  BY <1>2 DEF Sums
<1>4. f = Iter(f)
  BY <1>3
<1> HIDE DEF f
<1>5. \A s \in SUBSET S : f[s] = Iter(f)[s]
  BY <1>4
<1>6. Sums(S, e, f)
  BY <1>5 DEF Sums
<1> QED BY <1>1, <1>6

LEMMA TotalIsSum ==
  ASSUME NEW S, IsFiniteSet(S), NEW e \in [S -> Nat]
  PROVE  \E sum : Sums(S, e, sum) /\ Total(S, e) = sum[S]
<1>1. e \in [S -> Int]
  OBVIOUS
<1> QED BY <1>1, TotalIsSumOfNumbers

LEMMA TotalsCompare ==
  ASSUME NEW S, IsFiniteSet(S), NEW e \in [S -> Nat], NEW f \in [S -> Nat]
  PROVE  /\ Total(S, e) \in Nat
         /\ (\A t \in S : e[t] = 0) => Total(S, e) = 0
         /\ (\A t \in S : e[t] <= f[t]) => Total(S, e) <= Total(S, f)
         /\ \A t \in S : f = [e EXCEPT ![t] = f[t]] => Total(S, f) = Total(S, e) - e[t] + f[t]
<1>1. PICK sum : Sums(S, e, sum) /\ Total(S, e) = sum[S]
  BY TotalIsSum
<1>2. PICK rest : Sums(S, f, rest) /\ Total(S, f) = rest[S]
  BY TotalIsSum
<1> QED BY <1>1, <1>2, SumsCompare

LEMMA TotalsOfNumbers ==
  ASSUME NEW S, IsFiniteSet(S), NEW e \in [S -> Int], NEW f \in [S -> Int]
  PROVE  /\ Total(S, e) \in Int
         /\ (\A t \in S : e[t] = 0) => Total(S, e) = 0
         /\ \A t \in S : f = [e EXCEPT ![t] = f[t]] => Total(S, f) = Total(S, e) - e[t] + f[t]
<1>1. PICK sum : Sums(S, e, sum) /\ Total(S, e) = sum[S]
  BY TotalIsSumOfNumbers
<1>2. PICK rest : Sums(S, f, rest) /\ Total(S, f) = rest[S]
  BY TotalIsSumOfNumbers
<1> QED BY <1>1, <1>2, SumsOfNumbers

(* However a sum was made, it is the total. *)
LEMMA SumOfNumbersIsTotal ==
  ASSUME NEW S, IsFiniteSet(S), NEW e \in [S -> Int], NEW sum, Sums(S, e, sum)
  PROVE  sum[S] = Total(S, e)
<1>1. PICK rest : Sums(S, e, rest) /\ Total(S, e) = rest[S]
  BY TotalIsSumOfNumbers
<1>2. \A t \in S : e[t] <= e[t]
  OBVIOUS
<1>3. sum[S] \in Int /\ sum[S] <= rest[S]
  BY <1>1, <1>2, SumsOfNumbers
<1>4. rest[S] \in Int /\ rest[S] <= sum[S]
  BY <1>1, <1>2, SumsOfNumbers
<1> QED BY <1>1, <1>3, <1>4

LEMMA SumIsTotal ==
  ASSUME NEW S, IsFiniteSet(S), NEW e \in [S -> Nat], NEW sum, Sums(S, e, sum)
  PROVE  sum[S] = Total(S, e)
<1>1. e \in [S -> Int]
  OBVIOUS
<1> QED BY <1>1, SumOfNumbersIsTotal

-----------------------------------------------------------------------------
(* Remainders: what counters that wrap have in common with the numbers they stand for. *)
LEMMA Remainder ==
  ASSUME NEW m \in Nat \ {0}, NEW a \in Int
  PROVE  a % m \in 0..(m - 1) /\ \E q \in Int : a % m = a + q * m
<1> DEFINE d == a \div m
           q == 0 - d
<1>1. d \in Int /\ a % m \in 0..(m - 1) /\ a = m * d + (a % m)
  OBVIOUS
<1> HIDE DEF d
<1>2. q \in Int /\ q * m = 0 - m * d /\ m * d \in Int
  BY <1>1
<1> HIDE DEF q
<1>3. a % m = a + q * m
  <2>1. PICK r : r = a % m
    OBVIOUS
  <2>2. r \in Int /\ a = m * d + r
    BY <1>1, <2>1
  <2>3. r = a + q * m
    BY <1>2, <2>2
  <2> QED BY <2>1, <2>3
<1> QED BY <1>1, <1>2, <1>3

(* there is one remainder *)
LEMMA OneRemainder ==
  ASSUME NEW m \in Nat \ {0}, NEW a \in 0..(m - 1), NEW b \in 0..(m - 1), NEW k \in Int, a - b = k * m
  PROVE  a = b
<1>1. CASE k >= 1
  <2>1. k * m >= m
    BY <1>1
  <2> QED BY <2>1
<1>2. CASE k <= -1
  <2>1. k * m <= -m
    BY <1>2
  <2> QED BY <2>1
<1>3. CASE k = 0
  BY <1>3
<1> QED BY <1>1, <1>2, <1>3

LEMMA Congruent ==
  ASSUME NEW m \in Nat \ {0}, NEW a \in Int, NEW b \in Int
  PROVE  a % m = b % m <=> \E k \in Int : a = b + k * m
<1>1. PICK p \in Int : a % m = a + p * m
  BY Remainder
<1>2. PICK q \in Int : b % m = b + q * m
  BY Remainder
<1>3. a % m \in 0..(m - 1) /\ b % m \in 0..(m - 1)
  BY Remainder
<1>4. p * m \in Int /\ q * m \in Int
  OBVIOUS
<1>5. ASSUME a % m = b % m PROVE \E k \in Int : a = b + k * m
  <2>1. (q - p) * m = q * m - p * m /\ q - p \in Int
    OBVIOUS
  <2>2. a = b + (q - p) * m
    BY <1>1, <1>2, <1>4, <1>5, <2>1
  <2> QED BY <2>1, <2>2
<1>6. ASSUME NEW k \in Int, a = b + k * m PROVE a % m = b % m
  <2>1. (k + p - q) * m = k * m + p * m - q * m /\ k + p - q \in Int /\ k * m \in Int
    OBVIOUS
  <2>2. (a % m) - (b % m) = (k + p - q) * m
    BY <1>1, <1>2, <1>3, <1>4, <1>6, <2>1
  <2> QED BY <1>3, <2>1, <2>2, OneRemainder
<1> QED BY <1>5, <1>6
=============================================================================
