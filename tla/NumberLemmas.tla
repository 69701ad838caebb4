---------------------------- MODULE NumberLemmas ----------------------------
(***************************************************************************)
(* Facts about numbers that the proofs need and the provers do not know.   *)
(***************************************************************************)
EXTENDS Integers, TLAPS
LOCAL INSTANCE WellFoundedInduction

\* A set of natural numbers that is not empty has a least element: what the next
\* key of a poll is, and what an induction over numbers starts from.
LEMMA LeastNumber ==
  ASSUME NEW T, T \subseteq Nat, T # {}
  PROVE  \E x \in T : \A y \in T : x <= y
<1> DEFINE less == OpToRel(<, Nat)
<1>1. \A x, y \in Nat : <<x, y>> \in less <=> x < y
  BY DEF OpToRel
<1>2. \E x \in T : \A y \in T : ~(<<y, x>> \in less)
  BY NatLessThanWellFounded, WFMin, Zenon
<1>3. PICK R : /\ \A x, y \in Nat : <<x, y>> \in R <=> x < y
               /\ \E x \in T : \A y \in T : ~(<<y, x>> \in R)
  BY <1>1, <1>2, Zenon
<1> HIDE DEF less
<1>4. PICK x \in T : \A y \in T : ~(<<y, x>> \in R)
  BY <1>3, Zenon
<1>5. ASSUME NEW y \in T PROVE x <= y
  <2>1. x \in Nat /\ y \in Nat
    OBVIOUS
  <2>2. ~(<<y, x>> \in R)
    BY <1>4, Zenon
  <2>3. ~(y < x)
    BY <1>3, <2>1, <2>2, Zenon
  <2> QED
    BY <2>1, <2>3
<1> QED
  BY <1>4, <1>5

\* What a remainder is.
LEMMA Remainder ==
  ASSUME NEW m \in Nat \ {0}, NEW d \in Int
  PROVE  d % m \in 0..(m - 1) /\ d \div m \in Int /\ d = (d % m) + (d \div m) * m
OBVIOUS

\* There is only one.
LEMMA RemainderUnique ==
  ASSUME NEW m \in Nat \ {0}, NEW a \in 0..(m - 1), NEW q \in Int
  PROVE  (a + q * m) % m = a
OBVIOUS

\* It makes no difference whether a remainder is taken before an addition.
LEMMA RemainderOfSum ==
  ASSUME NEW m \in Nat \ {0}, NEW x \in Int, NEW d \in Int
  PROVE  ((x % m) + d) % m = (x + d) % m
<1> DEFINE q == x \div m
           y == (x % m) + d
           p == y \div m
           a == y % m
<1>1. x % m \in Int /\ q \in Int /\ x = (x % m) + q * m
  BY Remainder
<1>2. y \in Int
  BY <1>1
<1>3. a \in 0..(m - 1) /\ p \in Int /\ y = a + p * m
  BY <1>2, Remainder
<1> HIDE DEF q, p, a
<1>4. q * m \in Int /\ p * m \in Int /\ (p + q) * m = p * m + q * m
  BY <1>1, <1>3
<1>5. x + d = a + (p + q) * m
  BY <1>1, <1>3, <1>4
<1>6. (x + d) % m = a
  <2> DEFINE s == p + q
  <2>1. s \in Int
    BY <1>1, <1>3
  <2> HIDE DEF s
  <2>2. (a + s * m) % m = a
    BY <1>3, <2>1, RemainderUnique
  <2> QED
    BY <1>5, <2>2 DEF s
<1> QED
  BY <1>6 DEF a

-----------------------------------------------------------------------------
(* Quotients.                                                              *)

\* Products of natural numbers.
LEMMA Product ==
  ASSUME NEW a \in Nat, NEW b \in Nat, NEW c \in Nat
  PROVE  a * b \in Nat /\ (a <= b => a * c <= b * c)
OBVIOUS

\* There is only one quotient.
LEMMA QuotientUnique ==
  ASSUME NEW m \in Nat \ {0}, NEW a \in 0..(m - 1), NEW q \in Int
  PROVE  (a + q * m) \div m = q
<1> DEFINE x == a + q * m
           p == x \div m
           b == x % m
<1>1. b \in 0..(m - 1) /\ p \in Int /\ x = b + p * m /\ x \in Int
  BY Remainder
<1>2. b = a
  BY RemainderUnique
<1>3. p * m = q * m
  BY <1>1, <1>2
<1> HIDE DEF x, p, b
<1>4. p = q
  <2>1. (p - q) * m = 0
    BY <1>1, <1>3
  <2> QED
    BY <1>1, <2>1
<1> QED
  BY <1>4 DEF p, x

\* To divide by a product is to divide by one factor and then by the other.
LEMMA QuotientOfQuotient ==
  ASSUME NEW x \in Nat, NEW a \in Nat \ {0}, NEW b \in Nat \ {0}
  PROVE  x \div (a * b) = (x \div a) \div b
<1> DEFINE q == x \div a
           r == x % a
           p == q \div b
           s == q % b
<1>1. r \in 0..(a - 1) /\ q \in Int /\ x = r + q * a
  BY Remainder
<1>2. s \in 0..(b - 1) /\ p \in Int /\ q = s + p * b
  BY <1>1, Remainder
<1> HIDE DEF q, r, p, s
<1>3. x = (r + s * a) + p * (a * b)
  BY <1>1, <1>2
<1>4. r + s * a \in 0..((a * b) - 1) /\ a * b \in Nat \ {0}
  <2>1. s * a <= (b - 1) * a
    BY <1>2
  <2>2. s * a \in Nat /\ a * b \in Nat \ {0} /\ (b - 1) * a = (a * b) - a
    BY <1>2
  <2> QED
    BY <1>1, <2>1, <2>2
<1>5. x \div (a * b) = p
  <2> DEFINE c == r + s * a
             m == a * b
  <2>1. x = c + p * m /\ c \in 0..(m - 1) /\ m \in Nat \ {0}
    BY <1>3, <1>4
  <2> HIDE DEF c, m
  <2>2. (c + p * m) \div m = p
    BY <1>2, <2>1, QuotientUnique
  <2> QED
    BY <2>1, <2>2 DEF m
<1> QED
  BY <1>5 DEF p, q

-----------------------------------------------------------------------------
(* Induction and recursion, over sets and functions: the provers have no   *)
(* use for the theorems of the library, which are about operators.         *)

\* A set that has 0, and with a number the next one, has all of them.
LEMMA Induction ==
  ASSUME NEW T, 0 \in T, \A n \in Nat : n \in T => n + 1 \in T
  PROVE  \A n \in Nat : n \in T
<1> DEFINE U == Nat \ T
<1>1. SUFFICES ASSUME U # {} PROVE FALSE
  OBVIOUS
<1>2. PICK x \in U : \A y \in U : x <= y
  <2>1. U \subseteq Nat
    OBVIOUS
  <2> HIDE DEF U
  <2> QED
    BY <1>1, <2>1, LeastNumber
<1>3. x \in Nat /\ x # 0
  BY <1>2
<1>4. x - 1 \in Nat /\ ~(x <= x - 1)
  BY <1>3
<1>5. x - 1 \in T
  BY <1>2, <1>4
<1>6. (x - 1) + 1 \in T
  BY <1>4, <1>5
<1> QED
  BY <1>2, <1>3, <1>6

\* f begins with a, and h[n] makes its value at n + 1 of the one at n.
Follows(f, S, a, h) == f \in [Nat -> S] /\ f[0] = a /\ \A n \in Nat : f[n + 1] = h[n][f[n]]

\* A function can be defined by its value at 0 and what each value makes of the
\* one before.
LEMMA Recursion ==
  ASSUME NEW S, NEW a \in S, NEW h \in [Nat -> [S -> S]]
  PROVE  \E f : Follows(f, S, a, h)
<1> DEFINE P(k) == {f \in [0..k -> S] : f[0] = a /\ \A i \in 0..(k - 1) : f[i + 1] = h[i][f[i]]}
           T == {k \in Nat : P(k) # {}}
           U == {i \in Nat : \A k, l \in Nat : i <= k /\ i <= l =>
                               \A f \in P(k), g \in P(l) : f[i] = g[i]}
<1>1. \A k \in Nat : k \in T
  <2>1. 0 \in T
    <3>1. [i \in 0..0 |-> a] \in P(0)
      OBVIOUS
    <3> QED
      BY <3>1
  <2>2. ASSUME NEW k \in Nat, k \in T PROVE k + 1 \in T
    <3>1. PICK f \in [0..k -> S] : f[0] = a /\ \A i \in 0..(k - 1) : f[i + 1] = h[i][f[i]]
      BY <2>2
    <3> DEFINE g == [i \in 0..(k + 1) |-> IF i = k + 1 THEN h[k][f[k]] ELSE f[i]]
    <3>2. f[k] \in S /\ h[k][f[k]] \in S
      OBVIOUS
    <3>3. g \in [0..(k + 1) -> S]
      BY <3>2
    <3>4. g[0] = a
      BY <3>1
    <3>5. ASSUME NEW i \in 0..((k + 1) - 1) PROVE g[i + 1] = h[i][g[i]]
      <4>1. CASE i = k
        BY <4>1
      <4>2. CASE i \in 0..(k - 1)
        BY <3>1, <4>2
      <4> QED
        BY <4>1, <4>2
    <3> HIDE DEF g
    <3>6. g \in P(k + 1)
      BY <3>3, <3>4, <3>5
    <3> QED
      BY <3>6
  <2> HIDE DEF T
  <2> QED
    BY <2>1, <2>2, Induction
<1>2. \A i \in Nat : i \in U
  <2>1. 0 \in U
    OBVIOUS
  <2>2. ASSUME NEW i \in Nat, i \in U PROVE i + 1 \in U
    <3> HIDE DEF P
    <3> SUFFICES ASSUME NEW k \in Nat, NEW l \in Nat, i + 1 <= k, i + 1 <= l,
                        NEW f \in P(k), NEW g \in P(l)
                 PROVE  f[i + 1] = g[i + 1]
      OBVIOUS
    <3>1. f[i] = g[i]
      BY <2>2
    <3>2. i \in 0..(k - 1) /\ i \in 0..(l - 1)
      OBVIOUS
    <3>3. f[i + 1] = h[i][f[i]] /\ g[i + 1] = h[i][g[i]]
      BY <3>2 DEF P
    <3> QED
      BY <3>1, <3>3
  <2> HIDE DEF U
  <2> QED
    BY <2>1, <2>2, Induction
<1> DEFINE c(k) == CHOOSE f : f \in P(k)
           F == [n \in Nat |-> c(n)[n]]
<1>3. \A k \in Nat : c(k) \in P(k)
  BY <1>1
<1> HIDE DEF c
<1>4. \A k \in Nat : c(k)[k] \in S /\ c(k)[0] = a
  BY <1>3
<1>5. \A k \in Nat : c(k + 1)[k + 1] = h[k][c(k)[k]]
  <2> TAKE k \in Nat
  <2>1. c(k + 1) \in P(k + 1) /\ c(k) \in P(k)
    BY <1>3
  <2>2. c(k + 1)[k + 1] = h[k][c(k + 1)[k]]
    BY <2>1
  <2>3. c(k + 1)[k] = c(k)[k]
    <3> HIDE DEF P
    <3>1. k + 1 \in Nat /\ k <= k + 1 /\ k <= k
      OBVIOUS
    <3> QED
      BY <1>2, <2>1, <3>1
  <2> QED
    BY <2>2, <2>3
<1>6. F \in [Nat -> S] /\ F[0] = a
  BY <1>4
<1>7. ASSUME NEW n \in Nat PROVE F[n + 1] = h[n][F[n]]
  <2>1. F[n + 1] = c(n + 1)[n + 1] /\ F[n] = c(n)[n]
    OBVIOUS
  <2> HIDE DEF F
  <2> QED
    BY <1>5, <2>1
<1> HIDE DEF F
<1> QED
  BY <1>6, <1>7 DEF Follows
=============================================================================
