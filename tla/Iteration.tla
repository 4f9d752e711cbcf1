----------------------------- MODULE Iteration -----------------------------
(***************************************************************************)
(* Facts about numbers that more than one proof needs: division with a     *)
(* remainder; induction over the natural numbers, stated of sets; and what *)
(* that gives for a function that is applied again and again.  (The        *)
(* theorems of NaturalsInduction take an operator as a parameter; here a   *)
(* set or a function stands for it.)                                       *)
(***************************************************************************)
EXTENDS Integers, FiniteSetTheorems, WellFoundedInduction, TLAPS

(* Division *)

\* What a remainder is, for a number that wraps.
LEMMA Wrapping ==
  ASSUME NEW m \in Nat \ {0}, NEW a \in 0 .. m - 1
  PROVE  a % m = a /\ m % m = 0 /\ (-1) % m = m - 1
  OBVIOUS

\* Quotient and remainder are what they are of.
LEMMA Division ==
  ASSUME NEW m \in Nat \ {0}, NEW q \in Int, NEW r \in 0 .. m - 1
  PROVE  (q * m + r) \div m = q /\ (q * m + r) % m = r
  OBVIOUS

\* Every number is a quotient and a remainder.
LEMMA QuotientOfInt ==
  ASSUME NEW m \in Nat \ {0}, NEW a \in Int
  PROVE  a \div m \in Int /\ a % m \in 0 .. m - 1 /\ a = (a \div m) * m + (a % m)
<1> DEFINE q == a \div m
           r == a % m
<1>1. q \in Int /\ r \in 0 .. m - 1 /\ a = q * m + r
  OBVIOUS
<1> HIDE DEF q, r
<1> QED
  BY <1>1 DEF q, r

LEMMA Quotient ==
  ASSUME NEW m \in Nat \ {0}, NEW n \in Nat
  PROVE  n \div m \in Nat /\ n % m \in 0 .. m - 1 /\ n = (n \div m) * m + (n % m)
<1>1. n \div m \in Nat
  OBVIOUS
<1>2. n \in Int
  OBVIOUS
<1> QED
  BY <1>1, <1>2, QuotientOfInt

\* The larger number has the larger quotient.
LEMMA DivisionGrows ==
  ASSUME NEW m \in Nat \ {0}, NEW a \in Int, NEW b \in Int, a <= b
  PROVE  a \div m <= b \div m
<1> DEFINE p == a \div m
           r == a % m
           q == b \div m
           t == b % m
<1>1. p \in Int /\ r \in 0 .. m - 1 /\ a = p * m + r
  BY QuotientOfInt
<1>2. q \in Int /\ t \in 0 .. m - 1 /\ b = q * m + t
  BY QuotientOfInt
<1> HIDE DEF p, r, q, t
<1>3. ASSUME q + 1 <= p PROVE FALSE
  <2>1. (q + 1) * m <= p * m
    BY <1>1, <1>2, <1>3
  <2>2. (q + 1) * m = q * m + m
    BY <1>2
  <2>3. q * m \in Int /\ p * m \in Int
    BY <1>1, <1>2
  <2> QED
    BY <1>1, <1>2, <2>1, <2>2, <2>3
<1>4. p <= q
  BY <1>1, <1>2, <1>3
<1> QED
  BY <1>4 DEF p, q

\* A number that has wrapped goes on as one that has not.
LEMMA NextWraps ==
  ASSUME NEW m \in Nat \ {0}, NEW a \in Int
  PROVE  ((a % m) + 1) % m = (a + 1) % m
<1> DEFINE q == a \div m
           r == a % m
<1>1. q \in Int /\ r \in 0 .. m - 1 /\ a = q * m + r
  OBVIOUS
<1> HIDE DEF q, r
<1>2. CASE r + 1 < m
  <2>1. q \in Int /\ r + 1 \in 0 .. m - 1
    BY <1>1, <1>2
  <2>2. (q * m + (r + 1)) % m = r + 1
    BY <2>1, Division
  <2>3. (r + 1) % m = r + 1
    BY <2>1, Wrapping
  <2>4. a + 1 = q * m + (r + 1)
    BY <1>1
  <2> QED
    BY <2>2, <2>3, <2>4 DEF r
<1>3. CASE r + 1 = m
  <2>1. ((q + 1) * m + 0) % m = 0
    BY <1>1, Division
  <2>2. a + 1 = (q + 1) * m + 0
    BY <1>1, <1>3
  <2>3. m % m = 0
    BY <1>1, Wrapping
  <2> QED
    BY <1>3, <2>1, <2>2, <2>3 DEF r
<1> QED
  BY <1>1, <1>2, <1>3

\* The carry out of a digit.
LEMMA Carry ==
  ASSUME NEW m \in Nat \ {0}, NEW b \in 0 .. m - 1
  PROVE  IF b + 1 < m THEN (b + 1) \div m = 0 /\ (b + 1) % m = b + 1
                      ELSE (b + 1) \div m = 1 /\ (b + 1) % m = 0
  OBVIOUS

\* Steps of one size never cross the end of a row that they divide: the step from
\* place n * z ends in the same row of length s, or just where the row does.
LEMMA StepsInRows ==
  ASSUME NEW s \in Nat \ {0}, NEW z \in Nat \ {0}, NEW n \in Nat,
         z <= s, s % z = 0
  PROVE  LET row  == (n * z) \div s
             off  == (n * z) % s
             next == (n + 1) * z
         IN /\ row \in Nat /\ off \in 0 .. s - 1 /\ n * z = row * s + off
            /\ off + z <= s
            /\ off + z < s => next \div s = row /\ next % s = off + z
            /\ off + z = s => next \div s = row + 1 /\ next % s = 0
<1>1. PICK q \in Nat \ {0} : s = q * z
  <2>1. s \div z \in Nat \ {0} /\ s = (s \div z) * z
    OBVIOUS
  <2> QED
    BY <2>1
<1>2. PICK a \in Nat, b \in 0 .. q - 1 : n = a * q + b
  <2>1. n \div q \in Nat /\ n % q \in 0 .. q - 1 /\ n = (n \div q) * q + (n % q)
    BY Quotient
  <2> QED
    BY <2>1
<1> DEFINE c == b * z
           d == a * s
<1>3. n * z = d + c
  BY <1>1, <1>2
<1>4. c \in 0 .. s - 1 /\ c + z <= s
  <2>1. \A i, j \in Nat : i * j \in Nat
    OBVIOUS
  <2>2. q - 1 - b \in Nat /\ b \in Nat
    BY <1>1, <1>2
  <2>3. (q - 1 - b) * z \in Nat /\ c \in Nat
    BY <2>1, <2>2
  <2>4. (q - 1 - b) * z = s - z - c
    BY <1>1, <1>2
  <2> HIDE DEF c
  <2> QED
    BY <2>3, <2>4
<1>5. (n + 1) * z = d + (c + z)
  <2>1. (n + 1) * z = n * z + z
    OBVIOUS
  <2>2. d \in Int /\ c \in Int
    BY <1>2
  <2> HIDE DEF c, d
  <2> QED
    BY <1>3, <2>1, <2>2
<1>6. \A r \in 0 .. s - 1 : (d + r) \div s = a /\ (d + r) % s = r
  BY <1>2, Division
<1>7. (n * z) \div s = a /\ (n * z) % s = c
  <2> HIDE DEF c, d
  <2> QED
    BY <1>3, <1>4, <1>6
<1>8. ASSUME c + z < s
      PROVE  ((n + 1) * z) \div s = a /\ ((n + 1) * z) % s = c + z
  <2> HIDE DEF c, d
  <2>1. c + z \in 0 .. s - 1
    BY <1>4, <1>8
  <2> QED
    BY <1>5, <1>6, <2>1
<1>9. ASSUME c + z = s
      PROVE  ((n + 1) * z) \div s = a + 1 /\ ((n + 1) * z) % s = 0
  <2>1. d + s = (a + 1) * s + 0
    BY <1>2
  <2>2. (n + 1) * z = (a + 1) * s + 0
    BY <1>5, <1>9, <2>1
  <2>3. a + 1 \in Int /\ 0 \in 0 .. s - 1
    BY <1>2
  <2> QED
    BY <2>2, <2>3, Division
<1>10. n * z = a * s + c
  BY <1>3
<1> HIDE DEF c, d
<1> QED
  BY <1>2, <1>4, <1>7, <1>8, <1>9, <1>10

\* The packet of size m that element k of c is in is one of those that hold them all.
LEMMA Packets ==
  ASSUME NEW m \in Nat \ {0}, NEW c \in Nat
  PROVE  LET all == (c + m - 1) \div m IN
         /\ all \in Nat /\ all <= c
         /\ \A k \in 1 .. c : LET j == (k - 1) \div m
                               r == (k - 1) % m
                           IN j \in Nat /\ r \in Nat /\ j + 1 <= all /\ k = j * m + r + 1
<1> DEFINE all == (c + m - 1) \div m
           rest == (c + m - 1) % m
<1>1. all \in Nat /\ rest \in 0 .. m - 1 /\ c + m - 1 = all * m + rest
  <2>1. c + m - 1 \in Nat
    OBVIOUS
  <2> QED
    BY <2>1, Quotient
<1>2. \A i, j \in Nat : i * j \in Nat
  OBVIOUS
<1> HIDE DEF all, rest
<1>3. all <= c
  <2> SUFFICES ASSUME all >= c + 1 PROVE FALSE
    BY <1>1
  <2>1. (all - (c + 1)) * m \in Nat
    BY <1>1, <1>2
  <2>2. (all - (c + 1)) * m = all * m - c * m - m
    BY <1>1
  <2>3. c * m >= c
    <3>1. c * (m - 1) \in Nat
      BY <1>2
    <3>2. c * (m - 1) = c * m - c
      OBVIOUS
    <3>3. c * m \in Int
      OBVIOUS
    <3> QED
      BY <3>1, <3>2, <3>3
  <2> DEFINE a == all * m
             b == c * m
  <2>4. a \in Int /\ b \in Int
    BY <1>1
  <2>5. a - b - m \in Nat /\ b >= c /\ c + m - 1 = a + rest
    BY <1>1, <2>1, <2>2, <2>3
  <2> HIDE DEF a, b
  <2> QED
    BY <1>1, <2>4, <2>5
<1>4. ASSUME NEW k \in 1 .. c
      PROVE  LET j == (k - 1) \div m
                 r == (k - 1) % m
             IN j \in Nat /\ r \in Nat /\ j + 1 <= all /\ k = j * m + r + 1
  <2> DEFINE j == (k - 1) \div m
             r == (k - 1) % m
  <2>1. j \in Nat /\ r \in 0 .. m - 1 /\ k - 1 = j * m + r
    <3>1. k - 1 \in Nat
      OBVIOUS
    <3> QED
      BY <3>1, Quotient
  <2> HIDE DEF j, r
  <2> DEFINE a == all * m
             b == j * m
  <2>2. a \in Int /\ b \in Int
    BY <1>1, <2>1
  <2>3. c + m - 1 = a + rest /\ k - 1 = b + r
    BY <1>1, <2>1
  <2>4. j + 1 <= all
    <3> SUFFICES ASSUME j >= all PROVE FALSE
      BY <1>1, <2>1
    <3>1. (j - all) * m \in Nat
      BY <1>1, <1>2, <2>1
    <3>2. (j - all) * m = b - a
      BY <1>1, <2>1
    <3> HIDE DEF a, b
    <3> QED
      BY <1>1, <2>1, <2>2, <2>3, <3>1, <3>2
  <2>5. k = b + r + 1
    <3> HIDE DEF a, b
    <3> QED
      BY <2>1, <2>2, <2>3
  <2>6. r \in Nat
    BY <2>1
  <2> QED
    BY <2>1, <2>4, <2>5, <2>6 DEF j, r
<1> QED
  BY <1>1, <1>3, <1>4 DEF all

-----------------------------------------------------------------------------
(* Induction *)

\* A set of natural numbers has a least element: the intervals 0 .. n are finite,
\* and finite sets are well founded under inclusion.
LEMMA LeastNatural ==
  ASSUME NEW S \in SUBSET Nat, S # {}
  PROVE  \E n \in S : \A m \in S : n <= m
<1> DEFINE T == {0 .. n : n \in S}
           R == StrictSubsetOrdering(Nat)
<1>1. IsWellFoundedOn(R, FiniteSubsetsOf(Nat))
  BY FS_StrictSubsetOrderingWellFounded
<1>2. T \subseteq FiniteSubsetsOf(Nat)
  <2>1. ASSUME NEW n \in S PROVE IsFiniteSet(0 .. n) /\ 0 .. n \in SUBSET Nat
    BY FS_Interval
  <2>2. QED
    BY <2>1 DEF FiniteSubsetsOf
<1>3. PICK least \in T : \A other \in T : <<other, least>> \notin R
  <2> HIDE DEF R, T
  <2>1. T # {}
    BY DEF T
  <2>2. QED
    BY <1>1, <1>2, <2>1, WFMin
<1>4. PICK n \in S : least = 0 .. n
  OBVIOUS
<1>5. ASSUME NEW m \in S, m < n PROVE FALSE
  <2>1. 0 .. m \in T /\ 0 .. m \subseteq 0 .. n /\ 0 .. m # 0 .. n
    BY <1>5
  <2>2. <<0 .. m, 0 .. n>> \in R
    BY <1>2, <1>4, <2>1 DEF StrictSubsetOrdering, FiniteSubsetsOf
  <2>3. QED
    BY <1>3, <1>4, <2>1, <2>2
<1>6. QED
  BY <1>5

\* A set that holds 0 and the successor of all it holds has every natural number.
LEMMA InductionOverNat ==
  ASSUME NEW S, 0 \in S, \A n \in Nat : n \in S => n + 1 \in S
  PROVE  \A n \in Nat : n \in S
<1> DEFINE Missing == {n \in Nat : n \notin S}
<1>1. SUFFICES ASSUME Missing # {} PROVE FALSE
  OBVIOUS
<1>2. PICK n \in Missing : \A m \in Missing : n <= m
  <2> HIDE DEF Missing
  <2>1. Missing \in SUBSET Nat
    BY DEF Missing
  <2>2. QED
    BY <1>1, <2>1, LeastNatural
<1>3. n \in Nat /\ n \notin S /\ n # 0
  BY <1>2
<1>4. n - 1 \in Nat /\ n - 1 \in S
  <2>1. n - 1 \in Nat /\ ~(n <= n - 1)
    BY <1>3
  <2>2. QED
    BY <1>2, <2>1
<1>5. QED
  BY <1>3, <1>4

\* The same for the numbers up to n.
LEMMA InductionTo ==
  ASSUME NEW n \in Nat, NEW S, 0 \in S, \A k \in 1 .. n : k - 1 \in S => k \in S
  PROVE  \A k \in 0 .. n : k \in S
<1> DEFINE T == {k \in Nat : k <= n => k \in S}
<1>1. 0 \in T
  OBVIOUS
<1>2. ASSUME NEW k \in Nat, k \in T PROVE k + 1 \in T
  <2>1. k + 1 <= n => k + 1 \in 1 .. n /\ (k + 1) - 1 = k /\ k <= n
    OBVIOUS
  <2>2. QED
    BY <1>2, <2>1
<1>3. \A k \in Nat : k \in T
  <2> HIDE DEF T
  <2>1. QED
    BY <1>1, <1>2, InductionOverNat
<1>4. QED
  BY <1>3

\* f[k] is what the functions F[1] to F[k] make of c, one after the other.
Applied(f, F, c, n) ==
  /\ DOMAIN f = 0 .. n
  /\ f[0] = c
  /\ \A k \in 1 .. n : f[k] = F[k][f[k - 1]]

\* Functions can be applied one after the other.
LEMMA StepsExist ==
  ASSUME NEW X, NEW n \in Nat, NEW F \in [1 .. n -> [X -> X]], NEW c \in X
  PROVE  \E f \in [0 .. n -> X] : Applied(f, F, c, n)
<1> DEFINE S == {m \in 0 .. n : \E f \in [0 .. m -> X] : Applied(f, F, c, m)}
<1>1. 0 \in S
  <2>1. [k \in 0 .. 0 |-> c] \in [0 .. 0 -> X] /\ Applied([k \in 0 .. 0 |-> c], F, c, 0)
    BY DEF Applied
  <2>2. QED
    BY <2>1
<1>2. ASSUME NEW m \in 1 .. n, m - 1 \in S PROVE m \in S
  <2>1. PICK f \in [0 .. m - 1 -> X] : Applied(f, F, c, m - 1)
    BY <1>2
  <2> DEFINE g == [k \in 0 .. m |-> IF k = m THEN F[m][f[m - 1]] ELSE f[k]]
  <2>2. g \in [0 .. m -> X]
    <3>1. F[m][f[m - 1]] \in X
      BY <1>2
    <3>2. QED
      BY <1>2, <3>1
  <2>3. ASSUME NEW k \in 1 .. m PROVE g[k] = F[k][g[k - 1]]
    <3>1. CASE k = m
      BY <1>2, <3>1
    <3>2. CASE k \in 1 .. m - 1
      <4>1. f[k] = F[k][f[k - 1]]
        BY <2>1, <3>2 DEF Applied
      <4>2. g[k] = f[k] /\ g[k - 1] = f[k - 1]
        BY <1>2, <3>2
      <4>3. QED
        BY <4>1, <4>2
    <3>3. QED
      BY <1>2, <3>1, <3>2
  <2>4. Applied(g, F, c, m)
    <3>1. g[0] = c
      BY <2>1 DEF Applied
    <3> HIDE DEF g
    <3>2. QED
      BY <2>2, <2>3, <3>1 DEF Applied
  <2>5. QED
    BY <2>2, <2>4
<1>3. n \in S
  <2> HIDE DEF S
  <2>1. \A k \in 0 .. n : k \in S
    BY <1>1, <1>2, InductionTo
  <2>2. QED
    BY <2>1
<1>4. QED
  BY <1>3

\* The same with one function, n times.
Iterates(f, F, c, n) ==
  /\ DOMAIN f = 0 .. n
  /\ f[0] = c
  /\ \A k \in 1 .. n : f[k] = F[f[k - 1]]

LEMMA IteratesExist ==
  ASSUME NEW X, NEW F \in [X -> X], NEW c \in X, NEW n \in Nat
  PROVE  \E f \in [0 .. n -> X] : Iterates(f, F, c, n)
<1>1. [k \in 1 .. n |-> F] \in [1 .. n -> [X -> X]]
  OBVIOUS
<1>2. PICK f \in [0 .. n -> X] : Applied(f, [k \in 1 .. n |-> F], c, n)
  BY <1>1, StepsExist
<1>3. QED
  BY <1>2 DEF Applied, Iterates

=============================================================================
