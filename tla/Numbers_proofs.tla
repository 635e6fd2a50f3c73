--------------------------- MODULE Numbers_proofs ---------------------------
(***************************************************************************)
(* Facts about numbers that the proofs of several components rest on: a    *)
(* nonempty set of numbers has a least element, induction as a fact about  *)
(* a set, and what quotients, remainders and products are.  The library    *)
(* states induction for a predicate that is a parameter, which the provers *)
(* cannot instantiate; a set they can.                                     *)
(***************************************************************************)
EXTENDS Integers, FiniteSetTheorems, WellFoundedInduction, TLAPS

\* A nonempty set of naturals has a least element: proper inclusion of the
\* intervals below its elements is well founded.
LEMMA LeastExists ==
    ASSUME NEW B, B \subseteq Nat, B # {}
    PROVE  \E n \in B : \A m \in B : n <= m
<1> DEFINE T == {0 .. n : n \in B}
<1>1. T \subseteq FiniteSubsetsOf(Nat)
  <2> SUFFICES ASSUME NEW n \in B PROVE 0 .. n \in FiniteSubsetsOf(Nat)
    OBVIOUS
  <2>1. n \in Nat
    OBVIOUS
  <2>2. IsFiniteSet(0 .. n)
    BY <2>1, FS_Interval
  <2>3. 0 .. n \subseteq Nat
    BY <2>1
  <2> QED BY <2>2, <2>3 DEF FiniteSubsetsOf
<1>2. T # {}
  OBVIOUS
<1>3. PICK x \in T : \A y \in T : ~(<<y, x>> \in StrictSubsetOrdering(Nat))
  <2> HIDE DEF T
  <2> QED BY <1>1, <1>2, WFMin, FS_StrictSubsetOrderingWellFounded
<1>4. PICK n \in B : x = 0 .. n
  OBVIOUS
<1>5. ASSUME NEW m \in B, m < n
      PROVE  FALSE
  <2>1. 0 .. m \in T /\ 0 .. m \in SUBSET Nat /\ 0 .. n \in SUBSET Nat
    OBVIOUS
  <2>2. 0 .. m \subseteq 0 .. n /\ 0 .. m # 0 .. n
    BY <1>5
  <2>3. <<0 .. m, x>> \in StrictSubsetOrdering(Nat)
    BY <1>4, <2>1, <2>2 DEF StrictSubsetOrdering
  <2> QED BY <1>3, <2>1, <2>3
<1> QED BY <1>5

\* Induction, as a fact about a set: the form of it that the provers can use.
LEMMA Induction ==
    ASSUME NEW T, 0 \in T, \A n \in Nat : n \in T => n + 1 \in T
    PROVE  Nat \subseteq T
<1> DEFINE B == {n \in Nat : n \notin T}
<1> SUFFICES ASSUME B # {} PROVE FALSE
  OBVIOUS
<1>1. PICK n \in B : \A m \in B : n <= m
  BY LeastExists
<1>2. n # 0
  OBVIOUS
<1>3. n - 1 \in Nat /\ n - 1 \notin B
  BY <1>1, <1>2
<1> QED BY <1>3

-----------------------------------------------------------------------------
\* The remainder of a number within one modulus of 0 .. m - 1.
LEMMA ModNear ==
    \A m \in Nat, s \in Int :
        m > 0 /\ -m <= s /\ s < 2 * m =>
            s % m = IF s < 0 THEN s + m ELSE IF s < m THEN s ELSE s - m
<1> SUFFICES ASSUME NEW m \in Nat, NEW s \in Int, m > 0, -m <= s, s < 2 * m
             PROVE  s % m = IF s < 0 THEN s + m ELSE IF s < m THEN s ELSE s - m
  OBVIOUS
<1>1. CASE s < 0
  BY <1>1
<1>2. CASE 0 <= s /\ s < m
  BY <1>2
<1>3. CASE m <= s
  BY <1>3
<1> QED
  BY <1>1, <1>2, <1>3

\* What quotient and remainder are, and that nothing else is.
LEMMA DivMod ==
    ASSUME NEW m \in Nat \ {0}, NEW s \in Nat
    PROVE  /\ s \div m \in Nat /\ s % m \in 0 .. m - 1
           /\ s = m * (s \div m) + (s % m)
<1>1. m > 0
  OBVIOUS
<1>2. s \div m \in Int /\ s \div m >= 0
  BY <1>1
<1>3. s % m \in Nat /\ s % m < m
  BY <1>1
<1>4. s = m * (s \div m) + (s % m)
  BY <1>1
<1> QED BY <1>2, <1>3, <1>4

\* Multiplication distributes.
LEMMA Distribute == \A a, b, c \in Int : (a + b) * c = a * c + b * c
OBVIOUS

\* Multiplication commutes.
LEMMA Commute == \A a, b \in Int : a * b = b * a /\ a * b \in Int
OBVIOUS

\* Multiplication by a natural preserves order.
LEMMA TimesLeq == \A a, b, c \in Nat : a <= b => a * c <= b * c /\ a * c \in Nat
OBVIOUS

\* A positive multiple of m is at least m.
LEMMA Multiple ==
    ASSUME NEW m \in Nat \ {0}, NEW k \in Int, k > 0
    PROVE  m * k >= m
OBVIOUS

\* A quotient and remainder that fit are the quotient and remainder.
LEMMA Quotient ==
    ASSUME NEW m \in Nat \ {0}, NEW s \in Nat, NEW k \in Nat, NEW r \in 0 .. m - 1,
           s = m * k + r
    PROVE  s \div m = k /\ s % m = r
<1> DEFINE d == s \div m
           x == s % m
<1>1. d \in Nat /\ x \in 0 .. m - 1 /\ s = m * d + x
  BY DivMod
<1> HIDE DEF d, x
<1>2. m * (k - d) = x - r /\ m * (d - k) = r - x
  BY <1>1
<1>3. ~(k - d > 0)
  <2>1. k - d > 0 => m * (k - d) >= m
    BY <1>1, Multiple
  <2> QED BY <1>1, <1>2, <2>1
<1>4. ~(d - k > 0)
  <2>1. d - k > 0 => m * (d - k) >= m
    BY <1>1, Multiple
  <2> QED BY <1>1, <1>2, <2>1
<1>5. d = k
  BY <1>1, <1>3, <1>4
<1>6. x = r
  BY <1>1, <1>5
<1> QED BY <1>5, <1>6 DEF d, x

\* Multiplication by a positive size is monotonic.
LEMMA StepMonotone ==
    ASSUME NEW j \in Int, NEW k \in Int, NEW size \in Nat, j <= k
    PROVE  j * size <= k * size
  <1>1. (k - j) * size >= 0
    <2> DEFINE d == k - j
    <2>1. d \in Nat
      OBVIOUS
    <2> HIDE DEF d
    <2>2. d * size >= 0
      BY <2>1
    <2>3. QED
      BY <2>2 DEF d
  <1>2. k * size = j * size + (k - j) * size
    OBVIOUS
  <1>3. QED
    BY <1>1, <1>2

\* Two strides of a grid do not meet.
LEMMA StridesApart ==
    ASSUME NEW size \in Nat, NEW j \in Nat, NEW k \in Nat, j # k
    PROVE  \/ (j + 1) * size <= k * size
           \/ (k + 1) * size <= j * size
<1>1. CASE j < k
  BY <1>1, StepMonotone
<1>2. CASE k < j
  BY <1>2, StepMonotone
<1> QED BY <1>1, <1>2

-----------------------------------------------------------------------------
(* Remainders of integers *)

\* Quotient and remainder of any integer.
LEMMA IntDivMod ==
    ASSUME NEW m \in Nat \ {0}, NEW s \in Int
    PROVE  /\ s \div m \in Int /\ s % m \in 0 .. m - 1
           /\ s = m * (s \div m) + (s % m)
<1>1. m > 0
  OBVIOUS
<1>2. s \div m \in Int
  BY <1>1
<1>3. s % m \in Nat /\ s % m < m
  BY <1>1
<1>4. s = m * (s \div m) + (s % m)
  BY <1>1
<1> QED BY <1>2, <1>3, <1>4

\* Two multiples of m less than m apart are one.
LEMMA MultiplesApart ==
    ASSUME NEW m \in Nat \ {0}, NEW j \in Int, NEW k \in Int,
           m * j - m * k < m, m * k - m * j < m
    PROVE  j = k
<1>1. m * (j - k) = m * j - m * k /\ m * (k - j) = m * k - m * j
  OBVIOUS
<1>2. ~(j - k > 0)
  <2>1. j - k > 0 => m * (j - k) >= m
    BY Multiple
  <2>2. m * j \in Int /\ m * k \in Int
    OBVIOUS
  <2> QED BY <1>1, <2>1, <2>2
<1>3. ~(k - j > 0)
  <2>1. k - j > 0 => m * (k - j) >= m
    BY Multiple
  <2>2. m * j \in Int /\ m * k \in Int
    OBVIOUS
  <2> QED BY <1>1, <2>1, <2>2
<1> QED BY <1>2, <1>3

\* A remainder that fits is the remainder.
LEMMA ModUnique ==
    ASSUME NEW m \in Nat \ {0}, NEW s \in Int, NEW k \in Int, NEW r \in 0 .. m - 1,
           s = m * k + r
    PROVE  s % m = r
<1>1. PICK d \in Int, x \in 0 .. m - 1 : d = s \div m /\ x = s % m /\ s = m * d + x
  BY IntDivMod
<1>2. PICK md \in Int : md = m * d
  OBVIOUS
<1>3. PICK mk \in Int : mk = m * k
  OBVIOUS
<1>4. md + x = mk + r
  BY <1>1, <1>2, <1>3
<1>5. md - mk < m /\ mk - md < m
  BY <1>4
<1>6. d = k
  BY <1>2, <1>3, <1>5, MultiplesApart
<1>7. x = r
  BY <1>2, <1>3, <1>4, <1>6
<1> QED BY <1>1, <1>7

\* Numbers less than m apart that are congruent are equal.
LEMMA ModEqual ==
    ASSUME NEW m \in Nat \ {0}, NEW u \in Int, NEW v \in Int, u % m = v % m,
           u - v < m, v - u < m
    PROVE  u = v
<1>1. PICK d \in Int, x \in 0 .. m - 1 : x = u % m /\ u = m * d + x
  BY IntDivMod
<1>2. PICK k \in Int, y \in 0 .. m - 1 : y = v % m /\ v = m * k + y
  BY IntDivMod
<1>3. PICK md \in Int : md = m * d
  OBVIOUS
<1>4. PICK mk \in Int : mk = m * k
  OBVIOUS
<1>5. u = md + x /\ v = mk + x
  BY <1>1, <1>2, <1>3, <1>4
<1>6. md - mk < m /\ mk - md < m
  BY <1>5
<1>7. d = k
  BY <1>3, <1>4, <1>6, MultiplesApart
<1> QED BY <1>3, <1>4, <1>5, <1>7

\* A residue is its own remainder.
LEMMA ModSmall ==
    ASSUME NEW m \in Nat \ {0}, NEW s \in 0 .. m - 1
    PROVE  s % m = s
<1>1. s = m * 0 + s
  OBVIOUS
<1> QED BY <1>1, ModUnique

\* Whole turns and remainders taken on the way make no difference.
LEMMA ModTurns ==
    ASSUME NEW m \in Nat \ {0}, NEW s \in Int, NEW k \in Int
    PROVE  (s + (m * k)) % m = s % m
<1>1. PICK d \in Int, x \in 0 .. m - 1 : x = s % m /\ s = m * d + x
  BY IntDivMod
<1>2. m * d + m * k = m * (d + k)
  OBVIOUS
<1>3. PICK md \in Int : md = m * d
  OBVIOUS
<1>4. PICK mk \in Int : mk = m * k
  OBVIOUS
<1>5. s + mk = (md + mk) + x
  BY <1>1, <1>3
<1>6. s + m * k = m * (d + k) + x
  BY <1>2, <1>3, <1>4, <1>5
<1>7. s + m * k \in Int
  BY <1>4
<1>8. (s + (m * k)) % m = x
  <2> DEFINE t == s + (m * k)
             e == d + k
  <2>1. t \in Int /\ e \in Int /\ t = m * e + x
    BY <1>6, <1>7
  <2> HIDE DEF t, e
  <2>2. t % m = x
    BY <2>1, ModUnique
  <2> QED BY <2>2 DEF t
<1> QED BY <1>1, <1>8

\* A sum may be reduced before the last term is added.
LEMMA ModShift ==
    ASSUME NEW m \in Nat \ {0}, NEW u \in Int, NEW s \in Int
    PROVE  ((u % m) + s) % m = (u + s) % m
<1>1. PICK d \in Int, x \in 0 .. m - 1 : x = u % m /\ u = m * d + x
  BY IntDivMod
<1>2. PICK md \in Int : md = m * d
  OBVIOUS
<1>3. u + s = (x + s) + md
  BY <1>1, <1>2
<1>4. ((x + s) + (m * d)) % m = (x + s) % m
  <2>1. x + s \in Int
    OBVIOUS
  <2> QED BY <2>1, ModTurns
<1> QED BY <1>1, <1>2, <1>3, <1>4

\* The remainder of a negative.
LEMMA ModNegate ==
    ASSUME NEW m \in Nat \ {0}, NEW u \in Int, u % m # 0
    PROVE  (-u) % m = m - (u % m)
<1>1. PICK d \in Int, x \in 0 .. m - 1 : x = u % m /\ u = m * d + x
  BY IntDivMod
<1>2. PICK md \in Int : md = m * d
  OBVIOUS
<1>3. m * (-d - 1) = -md - m
  <2>1. m * (-d - 1) = -(m * d) - m
    OBVIOUS
  <2> QED BY <1>2, <2>1
<1>4. x # 0 /\ m - x \in 0 .. m - 1
  BY <1>1
<1>5. -u = (-md - m) + (m - x)
  BY <1>1, <1>2
<1>6. -u = m * (-d - 1) + (m - x) /\ -d - 1 \in Int /\ -u \in Int
  BY <1>3, <1>5
<1>7. (-u) % m = m - x
  BY <1>4, <1>6, ModUnique
<1> QED BY <1>1, <1>7

\* Remainders that add up to the modulus are those of opposite numbers.
LEMMA ModOpposite ==
    ASSUME NEW m \in Nat \ {0}, NEW u \in Int, NEW v \in Int, v % m = m - (u % m)
    PROVE  (u + v) % m = 0
<1>1. PICK d \in Int, x \in 0 .. m - 1 : x = u % m /\ u = m * d + x
  BY IntDivMod
<1>2. PICK k \in Int, y \in 0 .. m - 1 : y = v % m /\ v = m * k + y
  BY IntDivMod
<1>3. PICK md \in Int : md = m * d
  OBVIOUS
<1>4. PICK mk \in Int : mk = m * k
  OBVIOUS
<1>5. u + v = md + mk + m
  BY <1>1, <1>2, <1>3, <1>4
<1>6. m * (d + k + 1) = m * d + m * k + m
  OBVIOUS
<1>7. u + v = m * (d + k + 1) + 0
  BY <1>3, <1>4, <1>5, <1>6
<1>8. d + k + 1 \in Int /\ u + v \in Int /\ 0 \in 0 .. m - 1
  OBVIOUS
<1> QED BY <1>7, <1>8, ModUnique

\* The largest of finitely many numbers.
LEMMA LargestExists ==
    ASSUME NEW n \in Nat \ {0}, NEW b \in Nat, NEW f, \A i \in 1 .. n : f[i] \in 0 .. b
    PROVE  \E i \in 1 .. n : \A k \in 1 .. n : f[k] <= f[i]
<1> DEFINE B == {j \in Nat : \A i \in 1 .. n : f[i] <= j}
<1>1. B \subseteq Nat /\ b \in B
  OBVIOUS
<1>2. PICK j \in B : \A m \in B : j <= m
  <2> HIDE DEF B
  <2> QED BY <1>1, LeastExists
<1>3. j \in Nat /\ \A i \in 1 .. n : f[i] <= j
  BY <1>2
<1>4. \E i \in 1 .. n : f[i] = j
  <2> SUFFICES ASSUME \A i \in 1 .. n : f[i] # j PROVE FALSE
    OBVIOUS
  <2>1. \A i \in 1 .. n : f[i] <= j - 1 /\ f[i] \in Nat
    BY <1>3
  <2>2. 1 \in 1 .. n
    OBVIOUS
  <2>3. j - 1 \in Nat
    BY <1>3, <2>1, <2>2
  <2>4. j - 1 \in B
    BY <2>1, <2>3
  <2> QED BY <1>2, <1>3, <2>4
<1> QED BY <1>3, <1>4

\* n offsets, w apart in all: the first in the middle of a stride.
LEMMA SpreadStays ==
    ASSUME NEW w \in Nat, NEW n \in Nat \ {0}, NEW j \in 0 .. n - 1, NEW s,
           s = IF w \div n < 1 THEN 1 ELSE w \div n
    PROVE  (s \div 2) + j * s \in 0 .. w + n - 1
<1>1. PICK q \in Nat : q = w \div n /\ n * q <= w
  <2>1. w \div n \in Nat /\ w % n \in 0 .. n - 1 /\ w = n * (w \div n) + (w % n)
    BY DivMod
  <2>2. n * (w \div n) \in Nat
    BY <2>1
  <2> QED BY <2>1, <2>2
<1>2. CASE q < 1
  <2>1. s = 1
    BY <1>1, <1>2
  <2>2. s \div 2 = 0 /\ j * s = j
    BY <2>1
  <2> QED BY <2>2
<1>3. CASE ~(q < 1)
  <2>1. s = q
    BY <1>1, <1>3
  <2>2. PICK h \in Nat : h = s \div 2 /\ h <= q
    BY <1>1, <2>1
  <2>3. PICK p \in Nat : p = j * s /\ p + q <= n * q
    <3>1. (j + 1) * q <= n * q
      BY <1>1, TimesLeq
    <3>2. (j + 1) * q = j * q + q /\ j * q \in Nat
      BY <1>1
    <3> QED BY <2>1, <3>1, <3>2
  <2>4. PICK nq \in Nat : nq = n * q
    BY <1>1
  <2>5. h + p <= w
    BY <1>1, <2>2, <2>3, <2>4
  <2> QED BY <2>2, <2>3, <2>5
<1> QED BY <1>1, <1>2, <1>3

-----------------------------------------------------------------------------
(* Congruences: sums, differences and products of what is congruent.       *)

\* Remainders are residues.
LEMMA ModOfMod ==
    ASSUME NEW m \in Nat \ {0}, NEW u \in Int
    PROVE  u % m \in 0 .. m - 1 /\ u % m \in Int /\ (u % m) % m = u % m
<1>1. u % m \in 0 .. m - 1
  BY IntDivMod
<1>2. PICK r \in 0 .. m - 1 : r = u % m
  BY <1>1
<1>3. r % m = r
  BY ModSmall
<1> QED BY <1>2, <1>3

\* Numbers of one remainder are a multiple of the modulus apart.
LEMMA ModApart ==
    ASSUME NEW m \in Nat \ {0}, NEW u \in Int, NEW v \in Int
    PROVE  u % m = v % m <=> \E k \in Int : u = v + m * k
<1>1. ASSUME u % m = v % m
      PROVE  \E k \in Int : u = v + m * k
  <2>1. PICK d \in Int, x \in 0 .. m - 1 : x = u % m /\ u = m * d + x
    BY IntDivMod
  <2>2. PICK k \in Int, y \in 0 .. m - 1 : y = v % m /\ v = m * k + y
    BY IntDivMod
  <2>3. m * d = m * k + m * (d - k) /\ d - k \in Int
    OBVIOUS
  <2>4. PICK md \in Int : md = m * d
    OBVIOUS
  <2>5. PICK mk \in Int : mk = m * k
    OBVIOUS
  <2>6. PICK e \in Int : e = m * (d - k)
    OBVIOUS
  <2>7. u = v + e
    BY <1>1, <2>1, <2>2, <2>3, <2>4, <2>5, <2>6
  <2> QED BY <2>3, <2>6, <2>7
<1>2. ASSUME NEW k \in Int, u = v + m * k
      PROVE  u % m = v % m
  BY <1>2, ModTurns
<1> QED BY <1>1, <1>2

\* What leaves no remainder is a multiple.
LEMMA ModMultiple ==
    ASSUME NEW m \in Nat \ {0}, NEW u \in Int
    PROVE  u % m = 0 <=> \E k \in Int : u = m * k
<1>1. ASSUME u % m = 0
      PROVE  \E k \in Int : u = m * k
  <2>1. PICK d \in Int, x \in 0 .. m - 1 : x = u % m /\ u = m * d + x
    BY IntDivMod
  <2>2. u = m * d
    BY <1>1, <2>1
  <2> QED BY <2>2
<1>2. ASSUME NEW k \in Int, u = m * k
      PROVE  u % m = 0
  <2>1. u = m * k + 0 /\ 0 \in 0 .. m - 1
    BY <1>2
  <2> QED BY <2>1, ModUnique
<1> QED BY <1>1, <1>2

\* Numbers of one remainder have a difference that leaves none.
LEMMA ModZero ==
    ASSUME NEW m \in Nat \ {0}, NEW u \in Int, NEW v \in Int
    PROVE  u % m = v % m <=> (u - v) % m = 0
<1>1. u - v \in Int
  OBVIOUS
<1>2. (u - v) % m = 0 <=> \E k \in Int : u - v = m * k
  BY <1>1, ModMultiple
<1>3. ASSUME NEW k \in Int
      PROVE  u - v = m * k <=> u = v + m * k
  OBVIOUS
<1>4. u % m = v % m <=> \E k \in Int : u = v + m * k
  BY ModApart
<1> QED BY <1>2, <1>3, <1>4, Zenon

\* Congruence modulo m.  The lemmas on it are stated so that a prover need not
\* look into remainders.
Congruent(m, u, v) == u % m = v % m

\* Congruence is an equivalence.
LEMMA CongruentEquiv ==
    \A m \in Nat \ {0} : \A u, v, w \in Int :
        /\ Congruent(m, u, u)
        /\ Congruent(m, u, v) => Congruent(m, v, u)
        /\ Congruent(m, u, v) /\ Congruent(m, v, w) => Congruent(m, u, w)
BY DEF Congruent

\* Sums of congruent numbers are congruent.
LEMMA CongruentPlus ==
    ASSUME NEW m \in Nat \ {0}, NEW a \in Int, NEW b \in Int, NEW c \in Int, NEW d \in Int,
           Congruent(m, a, c), Congruent(m, b, d)
    PROVE  Congruent(m, a + b, c + d)
<1>1. PICK j \in Int : a = c + m * j
  BY ModApart DEF Congruent
<1>2. PICK k \in Int : b = d + m * k
  BY ModApart DEF Congruent
<1>3. a + b = (c + d) + m * (j + k)
  BY <1>1, <1>2
<1>4. PICK l \in Int : l = j + k
  OBVIOUS
<1>5. a + b \in Int /\ c + d \in Int
  OBVIOUS
<1>6. ((c + d) + m * l) % m = (c + d) % m
  BY <1>4, <1>5, ModTurns, Zenon
<1> QED BY <1>3, <1>4, <1>6, Zenon DEF Congruent

\* So are differences.
LEMMA CongruentMinus ==
    ASSUME NEW m \in Nat \ {0}, NEW a \in Int, NEW b \in Int, NEW c \in Int, NEW d \in Int,
           Congruent(m, a, c), Congruent(m, b, d)
    PROVE  Congruent(m, a - b, c - d)
<1>1. PICK j \in Int : a = c + m * j
  BY ModApart DEF Congruent
<1>2. PICK k \in Int : b = d + m * k
  BY ModApart DEF Congruent
<1>3. a - b = (c - d) + m * (j - k)
  BY <1>1, <1>2
<1>4. PICK l \in Int : l = j - k
  OBVIOUS
<1>5. a - b \in Int /\ c - d \in Int
  OBVIOUS
<1>6. ((c - d) + m * l) % m = (c - d) % m
  BY <1>4, <1>5, ModTurns, Zenon
<1> QED BY <1>3, <1>4, <1>6, Zenon DEF Congruent

\* So are products.
LEMMA CongruentTimes ==
    ASSUME NEW m \in Nat \ {0}, NEW a \in Int, NEW b \in Int, NEW c \in Int, NEW d \in Int,
           Congruent(m, a, c), Congruent(m, b, d)
    PROVE  Congruent(m, a * b, c * d)
<1>1. PICK j \in Int : a = c + m * j
  BY ModApart DEF Congruent
<1>2. PICK k \in Int : b = d + m * k
  BY ModApart DEF Congruent
<1>3. a * b = (c * d) + m * (c * k + j * d + m * j * k)
  BY <1>1, <1>2
<1>4. PICK l \in Int : l = c * k + j * d + m * j * k
  OBVIOUS
<1>5. c * d \in Int /\ a * b \in Int
  OBVIOUS
<1>6. ((c * d) + m * l) % m = (c * d) % m
  BY <1>4, <1>5, ModTurns, Zenon
<1> QED BY <1>3, <1>4, <1>6, Zenon DEF Congruent

\* A number is congruent to its remainder.
LEMMA CongruentMod ==
    \A m \in Nat \ {0} : \A u \in Int :
        u % m \in 0 .. m - 1 /\ Congruent(m, u % m, u) /\ Congruent(m, u, u % m)
BY ModOfMod DEF Congruent

\* Congruence is having one remainder.
LEMMA CongruentIsMod ==
    \A m \in Nat \ {0} : \A u, v \in Int : Congruent(m, u, v) <=> u % m = v % m
BY DEF Congruent

\* Congruent residues are equal.
LEMMA CongruentEqual ==
    \A m \in Nat \ {0} : \A u, v \in 0 .. m - 1 : Congruent(m, u, v) => u = v
BY ModSmall DEF Congruent

-----------------------------------------------------------------------------
(* A prime modulus.                                                        *)

IsPrime(m) == m \in Nat /\ m > 1 /\ \A q \in 2 .. m - 1 : m % q # 0

\* Euclid's lemma.  The least positive n with n*b a multiple of m divides both
\* m and a.
LEMMA PrimeDivides ==
    ASSUME NEW m, IsPrime(m), NEW a \in Int, NEW b \in Int, (a * b) % m = 0
    PROVE  a % m = 0 \/ b % m = 0
<1> m \in Nat \ {0}
  BY DEF IsPrime
<1> DEFINE B == {n \in Nat : n > 0 /\ (n * b) % m = 0}
<1>1. m \in B
  <2>1. m * b \in Int /\ m > 0
    BY DEF IsPrime
  <2>2. (m * b) % m = 0
    BY <2>1, ModMultiple
  <2> QED BY <2>1, <2>2
<1>2. PICK n \in B : \A j \in B : n <= j
  BY <1>1, LeastExists
<1>n. n \in Nat \ {0}
  BY <1>2
<1>3. ASSUME NEW s \in Int, (s * b) % m = 0
      PROVE  s % n = 0
  <2>1. PICK d \in Int, r \in 0 .. n - 1 : r = s % n /\ s = n * d + r
    <3>1. s \div n \in Int /\ s % n \in 0 .. n - 1 /\ s = n * (s \div n) + (s % n)
      BY <1>n, IntDivMod, Zenon
    <3> QED BY <3>1, Zenon
  <2>2. PICK k \in Int : n * b = m * k
    <3>1. n * b \in Int /\ (n * b) % m = 0
      BY <1>2
    <3> QED BY <3>1, ModMultiple
  <2>3. PICK l \in Int : s * b = m * l
    <3>1. s * b \in Int
      OBVIOUS
    <3> QED BY <1>3, <3>1, ModMultiple
  <2>4. r * b = m * (l - k * d)
    <3>1. r * b = s * b - (n * d) * b
      BY <2>1
    <3>2. (n * d) * b = (n * b) * d
      OBVIOUS
    <3>3. (n * b) * d = (m * k) * d
      BY <2>2
    <3>4. (m * k) * d = m * (k * d)
      OBVIOUS
    <3>5. m * (l - k * d) = m * l - m * (k * d)
      OBVIOUS
    <3> QED BY <2>3, <3>1, <3>2, <3>3, <3>4, <3>5
  <2>5. PICK e \in Int : e = l - k * d
    OBVIOUS
  <2>6. r * b \in Int
    OBVIOUS
  <2>7. (r * b) % m = 0
    BY <2>4, <2>5, <2>6, ModMultiple
  <2>8. ~(r > 0)
    BY <1>2, <2>7
  <2> QED BY <2>1, <2>8
<1>4. n = 1 \/ n = m
  <2>1. m % n = 0
    <3>1. m \in Int /\ (m * b) % m = 0
      BY <1>1
    <3> QED BY <1>3, <3>1, Zenon
  <2>2. n \in 1 .. m
    BY <1>1, <1>2
  <2>3. ~(n \in 2 .. m - 1)
    BY <2>1 DEF IsPrime
  <2> QED BY <2>2, <2>3
<1>5. a % n = 0
  BY <1>3
<1>6. CASE n = 1
  <2>1. 1 * b = b
    OBVIOUS
  <2> QED BY <1>2, <1>6, <2>1
<1> QED BY <1>4, <1>5, <1>6

\* The same in terms of congruence.
LEMMA PrimeFactor ==
    ASSUME NEW m, IsPrime(m), NEW a \in Int, NEW b \in Int, Congruent(m, a * b, 0)
    PROVE  Congruent(m, a, 0) \/ Congruent(m, b, 0)
<1>1. m \in Nat \ {0} /\ 0 \in 0 .. m - 1
  BY DEF IsPrime
<1>2. 0 % m = 0
  BY <1>1, ModSmall
<1>3. (a * b) % m = 0
  BY <1>2 DEF Congruent
<1>4. a % m = 0 \/ b % m = 0
  BY <1>3, PrimeDivides
<1> QED BY <1>2, <1>4 DEF Congruent

\* A residue that is not zero is not congruent to it.
LEMMA NotZero ==
    ASSUME NEW m \in Nat \ {0}, NEW a \in 1 .. m - 1
    PROVE  ~Congruent(m, a, 0)
<1>1. a \in 0 .. m - 1 /\ 0 \in 0 .. m - 1
  OBVIOUS
<1>2. a % m = a /\ 0 % m = 0
  BY <1>1, ModSmall
<1> QED BY <1>2 DEF Congruent

\* A factor that is not a multiple of the prime can be cancelled.
LEMMA PrimeCancel ==
    ASSUME NEW m, IsPrime(m), NEW a \in Int, NEW b \in Int, NEW c \in Int,
           ~Congruent(m, c, 0), Congruent(m, c * a, c * b)
    PROVE  Congruent(m, a, b)
<1>1. m \in Nat \ {0}
  BY DEF IsPrime
<1>2. PICK ca \in Int, cb \in Int, d \in Int : ca = c * a /\ cb = c * b /\ d = a - b
  OBVIOUS
<1>3. Congruent(m, cb, cb)
  BY <1>1, <1>2, CongruentEquiv
<1>4. Congruent(m, ca - cb, cb - cb)
  BY <1>1, <1>2, <1>3, CongruentMinus
<1>5. ca - cb = c * d /\ cb - cb = 0
  BY <1>2
<1>6. Congruent(m, d, 0)
  BY <1>2, <1>4, <1>5, PrimeFactor
<1>7. Congruent(m, b, b)
  BY <1>1, CongruentEquiv
<1>8. Congruent(m, d + b, 0 + b)
  BY <1>1, <1>2, <1>6, <1>7, CongruentPlus
<1>9. d + b = a /\ 0 + b = b
  BY <1>2
<1> QED BY <1>8, <1>9

-----------------------------------------------------------------------------
(* Powers modulo a prime.                                                  *)

\* A function on the naturals may be defined by recursion.
IsRecursive(f, S, b, g) ==
    f \in [Nat -> S] /\ f[0] = b /\ \A n \in Nat : f[n + 1] = g[<<n, f[n]>>]

\* Such a function exists: the parts of it on 0 .. n do, by induction.
LEMMA Recursion ==
    ASSUME NEW S, NEW b \in S, NEW g \in [Nat \X S -> S]
    PROVE  \E f : IsRecursive(f, S, b, g)
<1> DEFINE IsPart(f, n) == /\ f \in [0 .. n -> S] /\ f[0] = b
                           /\ \A i \in 0 .. n - 1 : f[i + 1] = g[<<i, f[i]>>]
           T == {n \in Nat : \E f : IsPart(f, n)}
<1>1. 0 \in T
  <2> DEFINE f == [i \in 0 .. 0 |-> b]
  <2>1. IsPart(f, 0)
    OBVIOUS
  <2> QED BY <2>1
<1>2. ASSUME NEW n \in Nat, n \in T
      PROVE  n + 1 \in T
  <2>1. PICK f : IsPart(f, n)
    BY <1>2
  <2> DEFINE h == [i \in 0 .. n + 1 |-> IF i <= n THEN f[i] ELSE g[<<n, f[n]>>]]
  <2>2. f[n] \in S /\ g[<<n, f[n]>>] \in S
    BY <2>1
  <2>3. h \in [0 .. n + 1 -> S]
    BY <2>1, <2>2
  <2>4. h[0] = b
    BY <2>1
  <2>5. ASSUME NEW i \in 0 .. (n + 1) - 1
        PROVE  h[i + 1] = g[<<i, h[i]>>]
    <3>1. h[i] = f[i] /\ i \in 0 .. n
      OBVIOUS
    <3>2. CASE i = n
      BY <3>1, <3>2
    <3>3. CASE i # n
      <4>1. i \in 0 .. n - 1 /\ i + 1 \in 0 .. n /\ i + 1 <= n
        BY <3>1, <3>3
      <4>2. h[i + 1] = f[i + 1]
        BY <4>1
      <4> QED BY <2>1, <3>1, <4>1, <4>2
    <3> QED BY <3>2, <3>3
  <2>6. IsPart(h, n + 1)
    <3> HIDE DEF h
    <3> QED BY <2>3, <2>4, <2>5
  <2>7. \E e : IsPart(e, n + 1)
    <3> HIDE DEF h, IsPart
    <3> QED BY <2>6
  <2> HIDE DEF IsPart
  <2> QED BY <2>7
<1>3. Nat \subseteq T
  <2> HIDE DEF T
  <2> QED BY <1>1, <1>2, Induction
<1>4. ASSUME NEW n \in Nat, NEW k \in Nat, n <= k, NEW f, NEW h, IsPart(f, n), IsPart(h, k)
      PROVE  \A i \in 0 .. n : f[i] = h[i]
  <2> DEFINE U == {i \in Nat : i <= n => f[i] = h[i]}
  <2>1. 0 \in U
    BY <1>4
  <2>2. ASSUME NEW i \in Nat, i \in U
        PROVE  i + 1 \in U
    <3>1. CASE i + 1 <= n
      <4>1. f[i] = h[i] /\ i \in 0 .. n - 1 /\ i \in 0 .. k - 1
        BY <1>4, <2>2, <3>1
      <4>2. f[i + 1] = g[<<i, f[i]>>] /\ h[i + 1] = g[<<i, h[i]>>]
        BY <1>4, <4>1
      <4> QED BY <4>1, <4>2
    <3> QED BY <3>1
  <2>3. Nat \subseteq U
    <3> HIDE DEF U
    <3> QED BY <2>1, <2>2, Induction
  <2> QED BY <2>3
<1>5. PICK part : part = [n \in Nat |-> CHOOSE f : IsPart(f, n)]
  OBVIOUS
<1>6. \A n \in Nat : IsPart(part[n], n)
  BY <1>3, <1>5
<1> DEFINE f == [n \in Nat |-> part[n][n]]
<1>7. f \in [Nat -> S] /\ f[0] = b
  BY <1>6
<1>8. ASSUME NEW n \in Nat
      PROVE  f[n + 1] = g[<<n, f[n]>>]
  <2>1. IsPart(part[n], n) /\ IsPart(part[n + 1], n + 1)
    BY <1>6
  <2>2. part[n][n] = part[n + 1][n]
    <3>1. n + 1 \in Nat /\ n <= n + 1 /\ n \in 0 .. n
      OBVIOUS
    <3>2. \A i \in 0 .. n : part[n][i] = part[n + 1][i]
      <4> HIDE DEF IsPart, f
      <4> QED BY <1>4, <2>1, <3>1
    <3> QED BY <3>1, <3>2
  <2>3. n \in 0 .. (n + 1) - 1
    OBVIOUS
  <2>4. part[n + 1][n + 1] = g[<<n, part[n + 1][n]>>]
    BY <2>1, <2>3
  <2> QED BY <2>2, <2>4
<1>9. IsRecursive(f, S, b, g)
  <2> HIDE DEF f
  <2> QED BY <1>7, <1>8 DEF IsRecursive
<1> QED BY <1>9

\* The powers of the residues modulo m: Powers(m)[k][a] is a^k.
ArePowers(m, f) ==
    /\ f[0] = [a \in 0 .. m - 1 |-> 1 % m]
    /\ \A n \in Nat : f[n + 1] = [a \in 0 .. m - 1 |-> (f[n][a] * a) % m]
Powers(m) == CHOOSE f \in [Nat -> [0 .. m - 1 -> 0 .. m - 1]] : ArePowers(m, f)

\* The powers exist.
LEMMA PowersDefined ==
    ASSUME NEW m \in Nat \ {0}
    PROVE  /\ Powers(m) \in [Nat -> [0 .. m - 1 -> 0 .. m - 1]]
           /\ ArePowers(m, Powers(m))
<1>0. PICK R, S : R = 0 .. m - 1 /\ S = [R -> R]
  OBVIOUS
<1>1. PICK b \in S : b = [a \in R |-> 1 % m]
  <2>1. 1 % m \in R
    BY <1>0, ModOfMod
  <2> QED BY <1>0, <2>1
<1>2. PICK g \in [Nat \X S -> S] : g = [x \in Nat \X S |-> [a \in R |-> (x[2][a] * a) % m]]
  <2>1. ASSUME NEW x \in Nat \X S, NEW a \in R
        PROVE  (x[2][a] * a) % m \in R
    <3>1. PICK u \in 0 .. m - 1 : u = x[2][a]
      BY <1>0
    <3>2. PICK v \in Int : v = u * a
      BY <1>0
    <3> QED BY <1>0, <3>1, <3>2, ModOfMod
  <2>2. [x \in Nat \X S |-> [a \in R |-> (x[2][a] * a) % m]] \in [Nat \X S -> S]
    <3>1. \A x \in Nat \X S : [a \in R |-> (x[2][a] * a) % m] \in S
      BY <1>0, <2>1
    <3> QED BY <3>1
  <2> QED BY <2>2
<1>3. PICK f : IsRecursive(f, S, b, g)
  BY Recursion
<1>4. ArePowers(m, f)
  <2>1. ASSUME NEW n \in Nat
        PROVE  f[n + 1] = [a \in R |-> (f[n][a] * a) % m]
    BY <1>2, <1>3 DEF IsRecursive
  <2> QED BY <1>0, <1>1, <1>3, <2>1 DEF ArePowers, IsRecursive
<1>5. f \in [Nat -> [0 .. m - 1 -> 0 .. m - 1]]
  BY <1>0, <1>3 DEF IsRecursive
<1> QED BY <1>4, <1>5 DEF Powers

\* What defines them.
LEMMA PowersStep ==
    ASSUME NEW m \in Nat, m > 1, NEW a \in 0 .. m - 1
    PROVE  /\ Powers(m)[0][a] = 1
           /\ \A n \in Nat : /\ Powers(m)[n][a] \in 0 .. m - 1
                             /\ Powers(m)[n + 1][a] = (Powers(m)[n][a] * a) % m
<1>1. m \in Nat \ {0} /\ 1 \in 0 .. m - 1
  OBVIOUS
<1>2. 1 % m = 1
  BY <1>1, ModSmall
<1>3. PICK f \in [Nat -> [0 .. m - 1 -> 0 .. m - 1]] : f = Powers(m) /\ ArePowers(m, f)
  BY <1>1, PowersDefined
<1>4. f[0][a] = 1
  BY <1>2, <1>3 DEF ArePowers
<1>5. ASSUME NEW n \in Nat
      PROVE  f[n][a] \in 0 .. m - 1 /\ f[n + 1][a] = (f[n][a] * a) % m
  BY <1>3 DEF ArePowers
<1> QED BY <1>3, <1>4, <1>5

\* a^(i + k) = a^i * a^k.
LEMMA PowersAdd ==
    ASSUME NEW m \in Nat, m > 1, NEW a \in 0 .. m - 1, NEW i \in Nat, NEW k \in Nat
    PROVE  Powers(m)[i + k][a] = (Powers(m)[i][a] * Powers(m)[k][a]) % m
<1> m \in Nat \ {0}
  OBVIOUS
<1> DEFINE p == [n \in Nat |-> Powers(m)[n][a]]
           T == {n \in Nat : p[i + n] = (p[i] * p[n]) % m}
<1>1. p[0] = 1 /\ \A n \in Nat : p[n] \in 0 .. m - 1 /\ p[n + 1] = (p[n] * a) % m
  BY PowersStep
<1> HIDE DEF p
<1>2. 0 \in T
  <2>1. p[i] % m = p[i]
    BY <1>1, ModSmall
  <2>2. p[i] * 1 = p[i]
    <3>1. PICK u \in Int : u = p[i]
      BY <1>1
    <3> QED BY <3>1
  <2> QED BY <1>1, <2>1, <2>2
<1>3. ASSUME NEW n \in Nat, n \in T
      PROVE  n + 1 \in T
  <2>1. PICK u, v, w \in 0 .. m - 1 : u = p[i] /\ v = p[n] /\ w = p[i + n]
    <3>1. i + n \in Nat
      OBVIOUS
    <3> QED BY <1>1, <3>1
  <2>2. p[i + (n + 1)] = (w * a) % m
    <3>1. i + (n + 1) = (i + n) + 1 /\ i + n \in Nat
      OBVIOUS
    <3> QED BY <1>1, <2>1, <3>1
  <2>3. PICK y \in Int : y = (v * a) % m /\ p[n + 1] = y
    BY <1>1, <2>1
  <2>4. w = (u * v) % m /\ u * v \in Int /\ v * a \in Int
    BY <1>3, <2>1
  <2>5. Congruent(m, w, u * v) /\ Congruent(m, y, v * a) /\ Congruent(m, u, u) /\ Congruent(m, a, a)
    <3>1. u \in Int /\ a \in Int
      OBVIOUS
    <3> QED BY <2>3, <2>4, <3>1, CongruentMod, CongruentEquiv
  <2>6. Congruent(m, w * a, (u * v) * a) /\ Congruent(m, u * y, u * (v * a))
    <3>1. u \in Int /\ v \in Int /\ w \in Int /\ a \in Int
      OBVIOUS
    <3> QED BY <2>3, <2>4, <2>5, <3>1, CongruentTimes
  <2>7. PICK z \in Int : z = (u * v) * a /\ z = u * (v * a)
    OBVIOUS
  <2>8. PICK wa \in Int, uy \in Int : wa = w * a /\ uy = u * y
    OBVIOUS
  <2>9. Congruent(m, wa, uy)
    BY <2>6, <2>7, <2>8, CongruentEquiv
  <2>10. p[i + (n + 1)] = (u * p[n + 1]) % m
    BY <2>2, <2>3, <2>8, <2>9, CongruentIsMod
  <2> QED BY <2>1, <2>10
<1>4. Nat \subseteq T
  <2> HIDE DEF T
  <2> QED BY <1>2, <1>3, Induction
<1>5. p[i + k] = (p[i] * p[k]) % m
  BY <1>4
<1>6. i + k \in Nat
  OBVIOUS
<1> QED BY <1>5, <1>6 DEF p

\* (a^2)^k = a^(2k).
LEMMA PowersSquare ==
    ASSUME NEW m \in Nat, m > 1, NEW a \in 0 .. m - 1, NEW k \in Nat
    PROVE  /\ (a * a) % m \in 0 .. m - 1
           /\ Powers(m)[k][(a * a) % m] = Powers(m)[2 * k][a]
<1> m \in Nat \ {0}
  OBVIOUS
<1>1. PICK q \in 0 .. m - 1 : q = (a * a) % m
  <2>1. a * a \in Int
    OBVIOUS
  <2> QED BY <2>1, ModOfMod
<1> DEFINE T == {n \in Nat : Powers(m)[n][q] = Powers(m)[2 * n][a]}
<1>2. 0 \in T
  BY PowersStep
<1>3. Powers(m)[2][a] = q
  <2>1. Powers(m)[0 + 1][a] = (1 * a) % m
    BY PowersStep
  <2>2. Powers(m)[1][a] = a
    <3>1. 1 * a = a /\ a % m = a
      BY ModSmall
    <3> QED BY <2>1, <3>1
  <2>3. Powers(m)[1 + 1][a] = (Powers(m)[1][a] * a) % m
    BY PowersStep
  <2> QED BY <1>1, <2>2, <2>3
<1>4. ASSUME NEW n \in Nat, n \in T
      PROVE  n + 1 \in T
  <2>1. Powers(m)[n + 1][q] = (Powers(m)[n][q] * q) % m
    BY PowersStep
  <2>2. Powers(m)[(2 * n) + 2][a] = (Powers(m)[2 * n][a] * Powers(m)[2][a]) % m
    <3>1. 2 * n \in Nat
      OBVIOUS
    <3> QED BY <3>1, PowersAdd
  <2>3. 2 * (n + 1) = (2 * n) + 2
    OBVIOUS
  <2>4. Powers(m)[n][q] = Powers(m)[2 * n][a]
    BY <1>4
  <2>5. Powers(m)[n + 1][q] = Powers(m)[2 * (n + 1)][a]
    BY <1>3, <2>1, <2>2, <2>3, <2>4, Zenon
  <2> QED BY <2>5
<1>5. Nat \subseteq T
  <2> HIDE DEF T
  <2> QED BY <1>2, <1>4, Induction
<1> QED BY <1>1, <1>5

\* Product(m, S)[n] is the product modulo m of the numbers 1 .. n that are in S.
IsProduct(f, m, S) ==
    /\ f \in [Nat -> 0 .. m - 1] /\ f[0] = 1 % m
    /\ \A n \in Nat : f[n + 1] = IF n + 1 \in S THEN (f[n] * (n + 1)) % m ELSE f[n]
Product(m, S) == CHOOSE f : IsProduct(f, m, S)

\* The product exists.
LEMMA ProductDefined ==
    ASSUME NEW m \in Nat \ {0}, NEW S
    PROVE  IsProduct(Product(m, S), m, S)
<1>0. PICK R : R = 0 .. m - 1
  OBVIOUS
<1>1. PICK b \in R : b = 1 % m
  <2>1. 1 % m \in R
    BY <1>0, ModOfMod
  <2> QED BY <2>1
<1>2. PICK g \in [Nat \X R -> R] :
        g = [x \in Nat \X R |-> IF x[1] + 1 \in S THEN (x[2] * (x[1] + 1)) % m ELSE x[2]]
  <2>1. ASSUME NEW x \in Nat \X R
        PROVE  (IF x[1] + 1 \in S THEN (x[2] * (x[1] + 1)) % m ELSE x[2]) \in R
    <3>1. PICK u \in R, v \in Nat : u = x[2] /\ v = x[1]
      BY <1>0
    <3>2. PICK w \in Int : w = u * (v + 1)
      BY <1>0
    <3> QED BY <1>0, <3>1, <3>2, ModOfMod
  <2> QED BY <2>1
<1>3. PICK f : IsRecursive(f, R, b, g)
  BY Recursion
<1>4. \A n \in Nat : f[n + 1] = IF n + 1 \in S THEN (f[n] * (n + 1)) % m ELSE f[n]
  BY <1>2, <1>3 DEF IsRecursive
<1>5. IsProduct(f, m, S)
  BY <1>0, <1>1, <1>3, <1>4 DEF IsRecursive, IsProduct
<1> QED BY <1>5 DEF Product

\* One more element is one more factor.
LEMMA ProductInsert ==
    ASSUME NEW m \in Nat \ {0}, NEW S, NEW x \in Nat \ {0}, x \notin S, NEW n \in Nat
    PROVE  Product(m, S \union {x})[n] =
               IF n < x THEN Product(m, S)[n] ELSE (Product(m, S)[n] * x) % m
<1>1. PICK f : f = Product(m, S) /\ IsProduct(f, m, S)
  BY ProductDefined
<1>2. PICK h : h = Product(m, S \union {x}) /\ IsProduct(h, m, S \union {x})
  BY ProductDefined
<1> DEFINE T == {j \in Nat : h[j] = IF j < x THEN f[j] ELSE (f[j] * x) % m}
<1>3. 0 \in T
  BY <1>1, <1>2 DEF IsProduct
<1>4. ASSUME NEW j \in Nat, j \in T
      PROVE  j + 1 \in T
  <2>1. f[j] \in 0 .. m - 1 /\ h[j] \in 0 .. m - 1
    BY <1>1, <1>2 DEF IsProduct
  <2>2. PICK u, v \in Int : u = f[j] /\ v = h[j]
    BY <2>1
  <2>3. /\ f[j + 1] = IF j + 1 \in S THEN (u * (j + 1)) % m ELSE u
        /\ h[j + 1] = IF j + 1 \in S \union {x} THEN (v * (j + 1)) % m ELSE v
    BY <1>1, <1>2, <2>2 DEF IsProduct
  <2>4. CASE j + 1 < x
    BY <1>4, <2>2, <2>3, <2>4
  <2>5. CASE j + 1 = x
    BY <1>4, <2>2, <2>3, <2>5
  <2>6. CASE j + 1 > x
    <3>1. v = (u * x) % m
      BY <1>4, <2>2, <2>6
    <3>2. CASE j + 1 \notin S
      BY <2>2, <2>3, <2>6, <3>1, <3>2
    <3>3. CASE j + 1 \in S
      <4>1. PICK k \in Int, y \in Int : k = j + 1 /\ y = (u * k) % m /\ f[j + 1] = y
        <5>1. u * (j + 1) \in Int
          OBVIOUS
        <5> QED BY <2>3, <3>3, <5>1, ModOfMod
      <4>2. u * x \in Int /\ u * k \in Int
        OBVIOUS
      <4>3. Congruent(m, v, u * x) /\ Congruent(m, y, u * k) /\ Congruent(m, k, k) /\ Congruent(m, x, x)
        <5>1. x \in Int
          OBVIOUS
        <5>2. PICK ux \in Int, uk \in Int : ux = u * x /\ uk = u * k
          OBVIOUS
        <5>3. Congruent(m, v, ux) /\ Congruent(m, y, uk)
          BY <3>1, <4>1, <5>2, CongruentMod
        <5>4. Congruent(m, k, k) /\ Congruent(m, x, x)
          BY <5>1, CongruentEquiv
        <5> QED BY <5>2, <5>3, <5>4
      <4>4. Congruent(m, v * k, (u * x) * k) /\ Congruent(m, y * x, (u * k) * x)
        BY <4>2, <4>3, CongruentTimes
      <4>5. PICK z \in Int : z = (u * x) * k /\ z = (u * k) * x
        OBVIOUS
      <4>6. PICK vk \in Int, yx \in Int : vk = v * k /\ yx = y * x
        OBVIOUS
      <4>7. Congruent(m, vk, yx)
        BY <4>4, <4>5, <4>6, CongruentEquiv
      <4>8. h[j + 1] = (f[j + 1] * x) % m
        BY <2>3, <3>3, <4>1, <4>6, <4>7, CongruentIsMod
      <4> QED BY <2>6, <4>8
    <3> QED BY <3>2, <3>3
  <2> QED BY <2>4, <2>5, <2>6
<1>5. Nat \subseteq T
  <2> HIDE DEF T
  <2> QED BY <1>3, <1>4, Induction
<1> QED BY <1>1, <1>2, <1>5

\* A product of numbers below a prime is not a multiple of it.
LEMMA ProductNotZero ==
    ASSUME NEW m, IsPrime(m), NEW S, NEW n \in 0 .. m - 1
    PROVE  Product(m, S)[n] \in 1 .. m - 1
<1> m \in Nat \ {0} /\ m > 1
  BY DEF IsPrime
<1>1. PICK f : f = Product(m, S) /\ IsProduct(f, m, S)
  BY ProductDefined
<1> DEFINE T == {j \in Nat : j < m => f[j] # 0}
<1>2. 0 \in T
  <2>1. 1 % m = 1
    BY ModSmall
  <2> QED BY <1>1, <2>1 DEF IsProduct
<1>3. ASSUME NEW j \in Nat, j \in T
      PROVE  j + 1 \in T
  <2>1. PICK u \in 0 .. m - 1 : u = f[j]
    BY <1>1 DEF IsProduct
  <2>2. f[j + 1] = IF j + 1 \in S THEN (u * (j + 1)) % m ELSE u
    BY <1>1, <2>1 DEF IsProduct
  <2>3. CASE j + 1 < m
    <3>1. PICK k \in 1 .. m - 1 : k = j + 1
      BY <2>3
    <3>2. u \in 1 .. m - 1 /\ u \in Int /\ k \in Int
      BY <1>3, <2>1, <2>3
    <3>3. (u * (j + 1)) % m # 0
      <4>1. ~Congruent(m, u, 0) /\ ~Congruent(m, k, 0)
        BY <3>2, NotZero
      <4>2. ~Congruent(m, u * k, 0)
        BY <3>2, <4>1, PrimeFactor
      <4>3. u * k \in Int /\ 0 % m = 0
        BY <3>2, ModSmall
      <4> QED BY <3>1, <4>2, <4>3 DEF Congruent
    <3> QED BY <2>2, <3>2, <3>3
  <2> QED BY <2>3
<1>4. Nat \subseteq T
  <2> HIDE DEF T
  <2> QED BY <1>2, <1>3, Induction
<1>5. f[n] # 0
  BY <1>4
<1> QED BY <1>1, <1>5 DEF IsProduct

\* The multiples of a by 1 .. k.
MultiplesOf(m, a, k) == {(a * i) % m : i \in 1 .. k}

\* The multiples of a number that is not zero differ modulo a prime.
LEMMA MultiplesGrow ==
    ASSUME NEW m, IsPrime(m), NEW a \in 1 .. m - 1, NEW k \in Nat, k + 1 < m
    PROVE  /\ (a * (k + 1)) % m \in 1 .. m - 1
           /\ (a * (k + 1)) % m \notin MultiplesOf(m, a, k)
           /\ MultiplesOf(m, a, k + 1) = MultiplesOf(m, a, k) \union {(a * (k + 1)) % m}
<1> m \in Nat \ {0} /\ m > 1 /\ a \in Int
  BY DEF IsPrime
<1>1. a % m = a
  BY ModSmall
<1>2. PICK x : x = (a * (k + 1)) % m
  OBVIOUS
<1>3. x \in 1 .. m - 1
  <2>1. PICK j \in 1 .. m - 1 : j = k + 1 /\ j \in Int
    OBVIOUS
  <2>2. ~Congruent(m, a, 0) /\ ~Congruent(m, j, 0)
    BY NotZero
  <2>3. a * j \in Int /\ j \in Int /\ 0 % m = 0
    BY ModSmall
  <2>4. (a * j) % m # 0
    <3>1. ~Congruent(m, a * j, 0)
      BY <2>2, <2>3, PrimeFactor
    <3> QED BY <2>3, <3>1 DEF Congruent
  <2> QED BY <1>2, <2>1, <2>3, <2>4, ModOfMod
<1>4. ASSUME NEW i \in 1 .. k, x = (a * i) % m
      PROVE  FALSE
  <2>1. PICK j \in 1 .. m - 1 : j = k + 1 /\ j \in Int
    OBVIOUS
  <2>2. (a * i) % m = (a * j) % m
    BY <1>2, <1>4, <2>1
  <2>3. Congruent(m, i, j)
    <3>1. Congruent(m, a * i, a * j)
      BY <2>2 DEF Congruent
    <3>2. i \in Int /\ j \in Int /\ ~Congruent(m, a, 0)
      BY NotZero
    <3> QED BY <3>1, <3>2, PrimeCancel
  <2>4. i \in 0 .. m - 1 /\ j \in 0 .. m - 1
    OBVIOUS
  <2>5. i = j
    BY <2>3, <2>4, CongruentEqual
  <2> QED BY <2>1, <2>5
<1>5. 1 .. k + 1 = (1 .. k) \union {k + 1}
  OBVIOUS
<1>6. MultiplesOf(m, a, k + 1) = MultiplesOf(m, a, k) \union {x}
  BY <1>2, <1>5 DEF MultiplesOf
<1> QED BY <1>2, <1>3, <1>4, <1>6 DEF MultiplesOf

\* All numbers below a prime are multiples modulo it of each of them but 0.
LEMMA MultiplesAll ==
    ASSUME NEW m, IsPrime(m), NEW a \in 1 .. m - 1
    PROVE  MultiplesOf(m, a, m - 1) = 1 .. m - 1
<1> m \in Nat \ {0} /\ m > 1 /\ a \in Int
  BY DEF IsPrime
<1>1. ASSUME NEW i \in 1 .. m - 1
      PROVE  (a * i) % m \in 1 .. m - 1
  <2>1. ~Congruent(m, a, 0) /\ ~Congruent(m, i, 0)
    BY NotZero
  <2>2. a * i \in Int /\ i \in Int /\ 0 % m = 0
    BY ModSmall
  <2>3. (a * i) % m # 0
    <3>1. ~Congruent(m, a * i, 0)
      BY <2>1, <2>2, PrimeFactor
    <3> QED BY <2>2, <3>1 DEF Congruent
  <2> QED BY <2>2, <2>3, ModOfMod
<1>2. ASSUME NEW i \in 1 .. m - 1, NEW j \in 1 .. m - 1, (a * i) % m = (a * j) % m
      PROVE  i = j
  <2>1. Congruent(m, a * i, a * j)
    BY <1>2 DEF Congruent
  <2>2. i \in Int /\ j \in Int /\ ~Congruent(m, a, 0)
    BY NotZero
  <2>3. Congruent(m, i, j)
    BY <2>1, <2>2, PrimeCancel
  <2>4. i \in 0 .. m - 1 /\ j \in 0 .. m - 1
    OBVIOUS
  <2> QED BY <2>3, <2>4, CongruentEqual
<1>3. PICK S : S = 1 .. m - 1
  OBVIOUS
<1>4. PICK f : f = [i \in S |-> (a * i) % m]
  OBVIOUS
<1>5. f \in Injection(S, S)
  BY <1>1, <1>2, <1>3, <1>4 DEF Injection, IsInjective
<1>6. IsFiniteSet(S)
  BY <1>3, FS_Interval
<1>7. f \in Surjection(S, S)
  BY <1>5, <1>6, FS_Injection
<1>8. \A x \in S : \E i \in S : f[i] = x
  BY <1>7 DEF Surjection
<1> QED BY <1>1, <1>3, <1>4, <1>8 DEF MultiplesOf

\* Fermat's theorem: the product of the numbers below the prime is that of their
\* multiples by a.
LEMMA Fermat ==
    ASSUME NEW m, IsPrime(m), NEW a \in 1 .. m - 1
    PROVE  Powers(m)[m - 1][a] = 1
<1> m \in Nat \ {0} /\ m > 1 /\ a \in Int /\ 1 \in 1 .. m - 1 /\ m - 1 \in Nat /\ a \in 0 .. m - 1
  BY DEF IsPrime
<1> DEFINE Prod(S) == Product(m, S)[m - 1]
           Pow(k) == Powers(m)[k][a]
           T == {k \in Nat : k < m => Prod(MultiplesOf(m, a, k)) =
                                (Pow(k) * Prod(MultiplesOf(m, 1, k))) % m}
<1>1. \A S : Prod(S) \in 1 .. m - 1
  BY ProductNotZero
<1>2. /\ Pow(0) = 1
      /\ \A k \in Nat : Pow(k) \in 0 .. m - 1 /\ Pow(k + 1) = (Pow(k) * a) % m
  BY PowersStep
<1>3. \A S, x : x \in 1 .. m - 1 /\ x \notin S => Prod(S \union {x}) = (Prod(S) * x) % m
  <2> SUFFICES ASSUME NEW S, NEW x \in 1 .. m - 1, x \notin S
               PROVE  Prod(S \union {x}) = (Prod(S) * x) % m
    OBVIOUS
  <2>1. x \in Nat \ {0} /\ ~(m - 1 < x)
    OBVIOUS
  <2> QED BY <2>1, ProductInsert
<1>4. 0 \in T
  <2>1. MultiplesOf(m, a, 0) = MultiplesOf(m, 1, 0)
    BY DEF MultiplesOf
  <2>2. PICK q \in 1 .. m - 1 : q = Prod(MultiplesOf(m, 1, 0))
    BY <1>1
  <2>3. 1 * q = q /\ q % m = q
    BY ModSmall
  <2> QED BY <1>2, <2>1, <2>2, <2>3
<1>5. ASSUME NEW k \in Nat, k \in T
      PROVE  k + 1 \in T
  <2> SUFFICES ASSUME k + 1 < m
               PROVE  Prod(MultiplesOf(m, a, k + 1)) =
                         (Pow(k + 1) * Prod(MultiplesOf(m, 1, k + 1))) % m
    OBVIOUS
  <2>1. PICK x, j \in 1 .. m - 1 : x = (a * (k + 1)) % m /\ j = (1 * (k + 1)) % m
    BY MultiplesGrow
  <2>2. /\ Prod(MultiplesOf(m, a, k + 1)) = (Prod(MultiplesOf(m, a, k)) * x) % m
        /\ Prod(MultiplesOf(m, 1, k + 1)) = (Prod(MultiplesOf(m, 1, k)) * j) % m
    <3> HIDE DEF Prod
    <3>1. x \notin MultiplesOf(m, a, k) /\ MultiplesOf(m, a, k + 1) = MultiplesOf(m, a, k) \union {x}
      BY <2>1, MultiplesGrow
    <3>2. j \notin MultiplesOf(m, 1, k) /\ MultiplesOf(m, 1, k + 1) = MultiplesOf(m, 1, k) \union {j}
      BY <2>1, MultiplesGrow
    <3> QED BY <1>3, <3>1, <3>2
  <2>3. PICK p, q, u \in 0 .. m - 1 : /\ p = Prod(MultiplesOf(m, a, k))
                                    /\ q = Prod(MultiplesOf(m, 1, k)) /\ u = Pow(k)
    BY <1>1, <1>2
  <2>4. p = (u * q) % m
    BY <1>5, <2>3
  <2>5. PICK v, w \in 0 .. m - 1 : v = Pow(k + 1) /\ w = Prod(MultiplesOf(m, 1, k + 1))
    <3>1. k + 1 \in Nat
      OBVIOUS
    <3> QED BY <1>1, <1>2, <3>1
  <2>6. v = (u * a) % m /\ w = (q * j) % m
    BY <1>2, <2>2, <2>3, <2>5
  <2>7. j = k + 1
    <3>1. k + 1 \in 0 .. m - 1 /\ 1 * (k + 1) = k + 1
      OBVIOUS
    <3> QED BY <2>1, <3>1, ModSmall
  <2>8. p \in Int /\ q \in Int /\ u \in Int /\ v \in Int /\ w \in Int /\ x \in Int /\ j \in Int
    OBVIOUS
  <2>9. PICK uq \in Int, ua \in Int, qj \in Int, aj \in Int :
           uq = u * q /\ ua = u * a /\ qj = q * j /\ aj = a * j
    OBVIOUS
  <2>10. /\ Congruent(m, p, uq) /\ Congruent(m, v, ua)
         /\ Congruent(m, w, qj) /\ Congruent(m, x, aj)
    BY <2>1, <2>4, <2>6, <2>7, <2>9, CongruentMod
  <2>11. Congruent(m, p * x, uq * aj) /\ Congruent(m, v * w, ua * qj)
    BY <2>8, <2>10, CongruentTimes
  <2>12. PICK z \in Int : z = uq * aj /\ z = ua * qj
    BY <2>9
  <2>13. PICK px \in Int, vw \in Int : px = p * x /\ vw = v * w
    OBVIOUS
  <2>14. Congruent(m, px, vw)
    BY <2>11, <2>12, <2>13, CongruentEquiv
  <2>15. (p * x) % m = (v * w) % m
    BY <2>13, <2>14, CongruentIsMod
  <2> QED BY <2>2, <2>3, <2>5, <2>15
<1>6. Nat \subseteq T
  <2> HIDE DEF T
  <2> QED BY <1>4, <1>5, Induction
<1>7. PICK q \in 1 .. m - 1, u \in 0 .. m - 1 : q = Prod(1 .. m - 1) /\ u = Pow(m - 1)
  BY <1>1, <1>2
<1>8. q = (u * q) % m
  <2>1. MultiplesOf(m, a, m - 1) = 1 .. m - 1 /\ MultiplesOf(m, 1, m - 1) = 1 .. m - 1
    BY MultiplesAll
  <2>2. m - 1 \in T /\ m - 1 < m
    BY <1>6
  <2> QED BY <1>7, <2>1, <2>2
<1>9. Congruent(m, q * u, q * 1)
  <2>1. PICK uq \in Int : uq = u * q /\ uq = q * u
    OBVIOUS
  <2>2. Congruent(m, q, uq) /\ q \in Int
    <3>1. q = uq % m
      BY <1>8, <2>1
    <3>2. Congruent(m, uq % m, uq)
      BY CongruentMod
    <3>3. q \in Int
      OBVIOUS
    <3> QED BY <3>1, <3>2, <3>3
  <2>3. Congruent(m, uq, q)
    BY <2>1, <2>2, CongruentEquiv
  <2>4. q * 1 = q
    OBVIOUS
  <2> QED BY <2>1, <2>3, <2>4
<1>10. Congruent(m, u, 1)
  <2>1. ~Congruent(m, q, 0) /\ q \in Int /\ u \in Int
    BY NotZero
  <2> QED BY <1>9, <2>1, PrimeCancel
<1> QED BY <1>7, <1>10, CongruentEqual

=============================================================================
