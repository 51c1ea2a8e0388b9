---------------------------- MODULE NumberLemmas ----------------------------
(***************************************************************************)
(* Arithmetic that the proofs share: the smallest and the largest element  *)
(* of a set of numbers, and induction as a statement about a set; what a   *)
(* remainder is, and a multiple; and that a loop of k steps (a recursive   *)
(* function over 0 .. k) exists and satisfies its equations.               *)
(***************************************************************************)
EXTENDS Integers, FiniteSetsExt, WellFoundedInduction, TLAPS

(* Every non-empty set of naturals has a smallest element.                 *)
LEMMA NatWellFounded == IsWellFoundedOn({p \in Nat \X Nat : p[1] < p[2]}, Nat)
BY NatLessThanWellFounded DEF OpToRel

(* A set of naturals has a smallest element: what stands in for an         *)
(* induction over the naturals.                                            *)
LEMMA SmallestOf ==
  ASSUME NEW T, T \subseteq Nat, T # {}
  PROVE  \E x \in T : \A y \in T : x <= y
<1> DEFINE L == {p \in Nat \X Nat : p[1] < p[2]}
<1>1. IsWellFoundedOn(L, Nat)
  BY NatWellFounded
<1>2. PICK x \in T : \A y \in T : <<y, x>> \notin L
  <2> HIDE DEF L
  <2> QED BY <1>1, WFMin
<1>3. ASSUME NEW y \in T PROVE x <= y
  <2>1. x \in Nat /\ y \in Nat
    OBVIOUS
  <2>2. ~ (y < x)
    BY <2>1, <1>2
  <2> QED BY <2>1, <2>2
<1> QED BY <1>3

(* The smallest and the largest element have names.                        *)
LEMMA MinIs ==
  ASSUME NEW T, T \subseteq Int, NEW x \in T, \A y \in T : x <= y
  PROVE  Min(T) = x
<1>1. \A y \in T : (\A z \in T : y <= z) => y = x
  OBVIOUS
<1> QED BY <1>1 DEF Min

LEMMA MaxIs ==
  ASSUME NEW T, T \subseteq Int, NEW x \in T, \A y \in T : y <= x
  PROVE  Max(T) = x
<1>1. \A y \in T : (\A z \in T : y >= z) => y = x
  OBVIOUS
<1> QED BY <1>1 DEF Max

(* Induction over the naturals, as a statement about a set.                *)
LEMMA Induction ==
  ASSUME NEW T, 0 \in T, \A n \in Nat : n \in T => n + 1 \in T
  PROVE  Nat \subseteq T
<1> SUFFICES ASSUME Nat \ T # {} PROVE FALSE
  OBVIOUS
<1>1. PICK x \in Nat \ T : \A y \in Nat \ T : x <= y
  BY SmallestOf
<1>2. x # 0 /\ x - 1 \in Nat
  OBVIOUS
<1>3. x - 1 \in T
  BY <1>1, <1>2
<1> QED BY <1>2, <1>3

(* Every finite set of naturals has a largest element.                     *)
LEMMA LargestOf ==
  ASSUME NEW m \in Nat, NEW T, T \subseteq 0 .. m, T # {}
  PROVE  \E x \in T : \A y \in T : y <= x
<1> DEFINE U == {m - x : x \in T}
<1>1. U \subseteq Nat /\ U # {}
  <2>1. \A x \in T : x \in 0 .. m /\ m - x \in Nat
    OBVIOUS
  <2> QED BY <2>1
<1>2. PICK u \in U : \A w \in U : u <= w
  <2> HIDE DEF U
  <2> QED BY <1>1, SmallestOf
<1>3. PICK x \in T : u = m - x
  BY <1>2
<1>4. \A y \in T : y <= x
  <2> SUFFICES ASSUME NEW y \in T PROVE y <= x
    OBVIOUS
  <2>1. m - x <= m - y
    BY <1>2, <1>3
  <2> QED BY <2>1
<1> QED BY <1>4

-----------------------------------------------------------------------------
(* The remainder and the quotient of a division.                           *)
LEMMA RemainderOf ==
  ASSUME NEW n \in Nat \ {0}, NEW a \in Int
  PROVE  a % n \in 0 .. n - 1 /\ a \div n \in Int /\ a = n * (a \div n) + (a % n)
OBVIOUS

(* A number has one remainder.                                             *)
LEMMA RemainderUnique ==
  ASSUME NEW n \in Nat \ {0}, NEW p \in Int, NEW q \in Int,
         NEW r \in 0 .. n - 1, NEW s \in 0 .. n - 1, n * p + r = n * q + s
  PROVE  r = s
<1>1. CASE p = q
  BY <1>1
<1>2. CASE p > q
  <2> DEFINE d == p - q
  <2>1. d \in Nat \ {0}
    BY <1>2
  <2>2. n * d = s - r
    OBVIOUS
  <2>3. n * d >= n
    BY <2>1
  <2> QED BY <2>2, <2>3
<1>3. CASE q > p
  <2> DEFINE d == q - p
  <2>1. d \in Nat \ {0}
    BY <1>3
  <2>2. n * d = r - s
    OBVIOUS
  <2>3. n * d >= n
    BY <2>1
  <2> QED BY <2>2, <2>3
<1> QED BY <1>1, <1>2, <1>3

(* A remainder that is found is the remainder.                             *)
LEMMA RemainderIs ==
  ASSUME NEW n \in Nat \ {0}, NEW a \in Int, NEW q \in Int, NEW r \in 0 .. n - 1,
         a = n * q + r
  PROVE  a % n = r
BY RemainderOf, RemainderUnique, Z3

(* Whole multiples of the divisor leave the remainder alone.               *)
LEMMA RemainderShift ==
  ASSUME NEW n \in Nat \ {0}, NEW a \in Int, NEW d \in Int
  PROVE  (a + n * d) % n = a % n
<1>1. PICK q \in Int, r \in 0 .. n - 1 : a = n * q + r /\ a % n = r
  BY RemainderOf
<1> DEFINE b == a + n * d
           p == q + d
<1>2. b \in Int /\ p \in Int /\ b = n * p + r
  BY <1>1
<1>3. b % n = r
  <2> HIDE DEF b, p
  <2> QED BY <1>2, RemainderIs, ZenonT(20)
<1> QED BY <1>1, <1>3

(* Numbers that are less than n apart have different remainders.           *)
LEMMA RemaindersDiffer ==
  ASSUME NEW n \in Nat \ {0}, NEW a \in Int, NEW b \in Int, a % n = b % n,
         a - b < n, b - a < n
  PROVE  a = b
<1>1. PICK p \in Int, r \in 0 .. n - 1 : a = n * p + r /\ a % n = r
  BY RemainderOf
<1>2. PICK q \in Int, s \in 0 .. n - 1 : b = n * q + s /\ b % n = s
  BY RemainderOf
<1>3. r = s
  BY <1>1, <1>2
<1>4. ASSUME NEW x \in Int, NEW y \in Int, x > y, n * x - n * y < n PROVE FALSE
  <2> DEFINE d == x - y
  <2>1. d \in Nat \ {0} /\ n * d < n
    BY <1>4
  <2>2. n * d >= n
    BY <2>1
  <2> QED BY <2>1, <2>2
<1>5. n * p - n * q < n /\ n * q - n * p < n
  BY <1>1, <1>2, <1>3
<1>6. p = q
  <2>1. ~ (p > q)
    BY <1>4, <1>5
  <2>2. ~ (q > p)
    BY <1>4, <1>5
  <2> QED BY <2>1, <2>2
<1> QED BY <1>1, <1>2, <1>3, <1>6

(* The multiples of a number.                                              *)
Multiple(x, n) == \E k \in Nat : x = n * k

(* Rounding up gives the next multiple.                                    *)
LEMMA RoundsUp ==
  ASSUME NEW n \in Nat \ {0}, NEW x \in Nat
  PROVE  LET u == ((x + n - 1) \div n) * n
         IN  u \in Nat /\ Multiple(u, n) /\ x <= u /\ u < x + n
<1> DEFINE q == (x + n - 1) \div n
<1>1. q \in Nat /\ n * q <= x + n - 1 /\ x + n - 1 < n * q + n
  BY SMTT(30)
<1>2. q * n = n * q /\ q * n \in Nat
  BY <1>1
<1> HIDE DEF q
<1>3. x <= q * n /\ q * n < x + n /\ Multiple(q * n, n)
  BY <1>1, <1>2 DEF Multiple
<1> QED BY <1>2, <1>3 DEF q

(* Multiples of n are n apart.                                             *)
LEMMA NextMultiple ==
  ASSUME NEW n \in Nat \ {0}, NEW a \in Nat, NEW b \in Nat, Multiple(a, n), Multiple(b, n), a < b
  PROVE  a + n <= b
<1>1. PICK j \in Nat : a = n * j
  BY DEF Multiple
<1>2. PICK k \in Nat : b = n * k
  BY DEF Multiple
<1>3. j < k
  BY <1>1, <1>2
<1>4. \E d \in Nat : k = j + 1 + d
  BY <1>3
<1>5. PICK d \in Nat : k = j + 1 + d
  BY <1>4
<1>6. n * k = n * j + n + n * d /\ n * d \in Nat
  BY <1>5
<1> QED BY <1>1, <1>2, <1>6

-----------------------------------------------------------------------------
(* A function defined by recursion over an interval exists.                *)
Recursive(h, X, x0, step, k) ==
  /\ h \in [0 .. k -> X]
  /\ h[0] = x0
  /\ \A i \in 0 .. k - 1 : h[i + 1] = step[i][h[i]]

(* A function defined by recursion over 0 .. k exists and satisfies its    *)
(* equations: what a loop of k steps computes.                             *)
LEMMA FiniteRecursion ==
  ASSUME NEW X, NEW x0 \in X, NEW step \in [Nat -> [X -> X]], NEW k \in Nat
  PROVE  \E h : Recursive(h, X, x0, step, k)
<1> DEFINE Sound(h, m) == h[0] = x0 /\ \A i \in 0 .. m - 1 : h[i + 1] = step[i][h[i]]
           T == {m \in Nat : \E h \in [0 .. m -> X] : Sound(h, m)}
<1>1. 0 \in T
  <2> DEFINE h == [i \in 0 .. 0 |-> x0]
  <2>1. h \in [0 .. 0 -> X] /\ Sound(h, 0)
    OBVIOUS
  <2> QED BY <2>1
<1>2. ASSUME NEW m \in Nat, m \in T PROVE m + 1 \in T
  <2>1. PICK h \in [0 .. m -> X] : Sound(h, m)
    BY <1>2
  <2> DEFINE g == [i \in 0 .. m + 1 |-> IF i <= m THEN h[i] ELSE step[m][h[m]]]
  <2>2. g \in [0 .. m + 1 -> X]
    OBVIOUS
  <2>3. g[0] = x0
    BY <2>1
  <2>4. ASSUME NEW i \in 0 .. m PROVE g[i + 1] = step[i][g[i]]
    BY <2>1
  <2>5. Sound(g, m + 1)
    <3>1. (m + 1) - 1 = m
      OBVIOUS
    <3> QED BY <2>3, <2>4, <3>1
  <2> HIDE DEF g, Sound
  <2> QED BY <2>2, <2>5
<1>3. k \in T
  <2> HIDE DEF T
  <2> QED BY <1>1, <1>2, Induction
<1> QED BY <1>3 DEF Recursive
=============================================================================
