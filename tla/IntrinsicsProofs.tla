-------------------------- MODULE IntrinsicsProofs --------------------------
(***************************************************************************)
(* The builders of expressions are exact for bytes and integers of any     *)
(* width.                                                                  *)
(***************************************************************************)
EXTENDS Intrinsics, WellFoundedInduction, TLAPS

-----------------------------------------------------------------------------
(***************************************************************************)
(* Induction, recursion, and division with remainder                       *)
(***************************************************************************)
\* Every set of natural numbers has a least one: the form in which the proofs
\* below use induction.
LEMMA LeastNumber ==
  ASSUME NEW T \in SUBSET Nat, T # {}
  PROVE  \E n \in T : \A m \in T : n <= m
<1>1. PICK n \in T : \A m \in T : ~(<<m, n>> \in OpToRel(<, Nat))
  BY NatLessThanWellFounded, WFMin
<1>2. ASSUME NEW m \in T PROVE ~(<<m, n>> \in {ss \in Nat \X Nat : ss[1] < ss[2]})
  BY <1>1 DEF OpToRel
<1>3. ASSUME NEW m \in T PROVE ~(m < n)
  BY <1>2
<1> QED
  BY <1>3

\* h is a at lo, and F leads from each of its values to the next one.
Iterates(h, V, lo, hi, a, F) ==
  /\ h \in [lo .. hi -> V]
  /\ \A i \in lo .. hi : h[i] = IF i = lo THEN a ELSE F[<<i, h[i - 1]>>]

\* A function on an interval may be defined by its first value and a step.
LEMMA Recursion ==
  ASSUME NEW V, NEW lo \in Int, NEW hi \in Int, NEW a \in V,
         NEW F \in [(lo .. hi) \X V -> V]
  PROVE  \E h : Iterates(h, V, lo, hi, a, F)
<1> DEFINE Solves(h, n) ==
             \A i \in lo .. n : h[i] = IF i = lo THEN a ELSE F[<<i, h[i - 1]>>]
           T == {k \in Nat : lo + k <= hi /\ ~\E h \in [lo .. lo + k -> V] : Solves(h, lo + k)}
<1>1. T = {}
  <2> SUFFICES ASSUME T # {} PROVE FALSE
    OBVIOUS
  <2> HIDE DEF T
  <2>0. T \in SUBSET Nat
    BY DEF T
  <2>1. PICK k \in T : \A m \in T : k <= m
    BY <2>0, LeastNumber
  <2> USE DEF T
  <2>2. CASE k = 0
    <3> DEFINE h == [i \in lo .. lo + k |-> a]
    <3>1. h \in [lo .. lo + k -> V] /\ Solves(h, lo + k)
      BY <2>2
    <3> QED
      BY <2>1, <3>1
  <2>3. CASE k # 0
    <3>1. k - 1 \in Nat /\ k - 1 \notin T /\ lo + (k - 1) <= hi
      <4>1. k \in Nat /\ lo + k <= hi
        OBVIOUS
      <4> HIDE DEF T
      <4> QED
        BY <2>0, <2>1, <2>3, <4>1
    <3>2. PICK g \in [lo .. lo + (k - 1) -> V] : Solves(g, lo + (k - 1))
      BY <3>1
    <3> DEFINE h == [i \in lo .. lo + k |->
                       IF i = lo + k THEN F[<<i, g[i - 1]>>] ELSE g[i]]
    <3>3. h \in [lo .. lo + k -> V]
      <4>1. ASSUME NEW i \in lo .. lo + k PROVE h[i] \in V
        <5>1. CASE i = lo + k
          <6>1. <<i, g[i - 1]>> \in (lo .. hi) \X V
            BY <2>1, <2>3, <3>1, <3>2, <5>1
          <6> QED
            BY <5>1, <6>1
        <5>2. CASE i # lo + k
          BY <3>1, <3>2, <5>2
        <5> QED
          BY <5>1, <5>2
      <4> QED
        BY <4>1
    <3>4. Solves(h, lo + k)
      <4>1. ASSUME NEW i \in lo .. lo + k
            PROVE  h[i] = IF i = lo THEN a ELSE F[<<i, h[i - 1]>>]
        <5>1. i # lo => i - 1 \in lo .. lo + (k - 1) /\ h[i - 1] = g[i - 1]
          BY <2>1, <3>1
        <5>2. CASE i = lo + k
          BY <2>3, <3>1, <5>1, <5>2
        <5>3. CASE i # lo + k
          <6>1. i \in lo .. lo + (k - 1) /\ h[i] = g[i]
            BY <3>1, <5>3
          <6> QED
            BY <3>2, <5>1, <6>1
        <5> QED
          BY <5>2, <5>3
      <4> QED
        BY <4>1
    <3> QED
      BY <2>1, <3>3, <3>4
  <2> QED
    BY <2>2, <2>3
<1>2. CASE lo <= hi
  <2>1. hi - lo \in Nat /\ lo + (hi - lo) = hi
    BY <1>2
  <2>2. hi - lo \notin T
    BY <1>1
  <2>3. \E h \in [lo .. hi -> V] : Solves(h, hi)
    BY <2>1, <2>2
  <2> QED
    BY <2>3 DEF Iterates
<1>3. CASE ~(lo <= hi)
  <2> DEFINE h == [i \in lo .. hi |-> a]
  <2>1. h \in [lo .. hi -> V] /\ lo .. hi = {}
    BY <1>3
  <2> QED
    BY <2>1 DEF Iterates
<1> QED
  BY <1>2, <1>3

\* Division leaves a remainder.
LEMMA DivMod ==
  ASSUME NEW a \in Int, NEW n \in Nat \ {0}
  PROVE  a \div n \in Int /\ a % n \in 0 .. n - 1 /\ a = n * (a \div n) + (a % n)
  OBVIOUS

\* A multiple of n between -n and n is zero.
LEMMA SmallMultiple ==
  ASSUME NEW n \in Nat \ {0}, NEW k \in Int, n * k < n, n * k > -n
  PROVE  k = 0
  OBVIOUS

\* Quotient and remainder are unique.
LEMMA DivUnique ==
  ASSUME NEW a \in Int, NEW n \in Nat \ {0}, NEW q \in Int, NEW r \in 0 .. n - 1,
         a = n * q + r
  PROVE  a \div n = q /\ a % n = r
<1> DEFINE d == a \div n
           m == a % n
<1>1. d \in Int /\ m \in 0 .. n - 1 /\ a = n * d + m
  BY DivMod
<1> HIDE DEF d, m
<1>2. n * (q - d) = m - r
  BY <1>1
<1>3. q - d = 0
  BY <1>1, <1>2, SmallMultiple
<1> QED
  BY <1>1, <1>3 DEF d, m

\* Adding a multiple does not change the remainder.
LEMMA ModShift ==
  ASSUME NEW a \in Int, NEW n \in Nat \ {0}, NEW k \in Int
  PROVE  (a + n * k) % n = a % n /\ (a + n * k) \div n = (a \div n) + k
<1> DEFINE d == a \div n
           m == a % n
<1>1. d \in Int /\ m \in 0 .. n - 1 /\ a = n * d + m
  BY DivMod
<1> HIDE DEF d, m
<1>2. a + n * k = n * (d + k) + m /\ d + k \in Int /\ a + n * k \in Int
  BY <1>1
<1>3. (a + n * k) \div n = d + k /\ (a + n * k) % n = m
  BY ONLY <1>1, <1>2, DivUnique, n \in Nat \ {0}
<1> QED
  BY <1>3 DEF d, m

\* Numbers with the same remainder differ by a multiple.
LEMMA ModEqual ==
  ASSUME NEW a \in Int, NEW b \in Int, NEW n \in Nat \ {0}, a % n = b % n
  PROVE  \E k \in Int : a = b + n * k
<1>1. PICK d \in Int : a = n * d + (a % n)
  BY DivMod
<1>2. PICK e \in Int : b = n * e + (b % n)
  BY DivMod
<1>3. a % n \in Int
  BY DivMod
<1>4. a = b + n * (d - e) /\ d - e \in Int
  BY <1>1, <1>2, <1>3
<1> QED
  BY <1>4

\* A number below n is its own remainder.
LEMMA ModSmall ==
  ASSUME NEW n \in Nat \ {0}, NEW a \in 0 .. n - 1
  PROVE  a % n = a /\ a \div n = 0
  OBVIOUS

\* Remainders may be taken before or after adding, subtracting, multiplying.
LEMMA ModArith ==
  ASSUME NEW a \in Int, NEW b \in Int, NEW n \in Nat \ {0}
  PROVE  /\ ((a % n) + (b % n)) % n = (a + b) % n
         /\ ((a % n) - (b % n)) % n = (a - b) % n
         /\ ((a % n) * (b % n)) % n = (a * b) % n
<1>1. PICK d \in Int : a = n * d + (a % n)
  BY DivMod
<1>2. PICK e \in Int : b = n * e + (b % n)
  BY DivMod
<1> DEFINE p == a % n
           q == b % n
<1>3. p \in Int /\ q \in Int /\ a = n * d + p /\ b = n * e + q
  BY <1>1, <1>2, DivMod
<1> HIDE DEF p, q
<1>4. ((p + q) + n * (d + e)) % n = (p + q) % n
  <2>1. p + q \in Int /\ d + e \in Int
    BY <1>3
  <2> QED
    BY ONLY <2>1, ModShift, n \in Nat \ {0}
<1>5. ((p - q) + n * (d - e)) % n = (p - q) % n
  <2>1. p - q \in Int /\ d - e \in Int
    BY <1>3
  <2> QED
    BY ONLY <2>1, ModShift, n \in Nat \ {0}
<1>6. ((p * q) + n * (d * b + p * e)) % n = (p * q) % n
  <2>1. p * q \in Int /\ d * b + p * e \in Int
    BY <1>3
  <2> QED
    BY ONLY <2>1, ModShift, n \in Nat \ {0}
<1>7. a + b = (p + q) + n * (d + e) /\ a - b = (p - q) + n * (d - e)
  BY <1>3
<1>8. a * b = (p * q) + n * (d * b + p * e)
  <2>1. a * b = n * (d * b) + p * b
    BY <1>3
  <2>2. p * b = n * (p * e) + p * q
    BY <1>3
  <2> QED
    BY <1>3, <2>1, <2>2
<1> QED
  BY <1>4, <1>5, <1>6, <1>7, <1>8 DEF p, q

-----------------------------------------------------------------------------
(***************************************************************************)
(* Powers of two                                                           *)
(***************************************************************************)
\* h lists the powers of two up to 2^n.
Powers(h, n) ==
  h \in [0 .. n -> Nat] /\ \A i \in 0 .. n : h[i] = IF i = 0 THEN 1 ELSE 2 * h[i - 1]

\* There is such a list,
LEMMA PowersExist == \A n \in Nat : \E h : Powers(h, n)
<1> SUFFICES ASSUME NEW n \in Nat PROVE \E h : Powers(h, n)
  OBVIOUS
<1> DEFINE F == [p \in (0 .. n) \X Nat |-> 2 * p[2]]
<1>1. F \in [(0 .. n) \X Nat -> Nat]
  OBVIOUS
<1>2. \A i \in 0 .. n, v \in Nat : F[<<i, v>>] = 2 * v
  OBVIOUS
<1> HIDE DEF F
<1>3. PICK h : Iterates(h, Nat, 0, n, 1, F)
  <2>1. 0 \in Int /\ n \in Int /\ 1 \in Nat
    OBVIOUS
  <2> QED
    BY ONLY <1>1, <2>1, Recursion, Zenon
<1>4. \A i \in 0 .. n : i # 0 => h[i - 1] \in Nat
  BY <1>3 DEF Iterates
<1> QED
  BY <1>2, <1>3, <1>4 DEF Powers, Iterates

\* and a longer one begins with it.
LEMMA PowersAgree ==
  ASSUME NEW n \in Nat, NEW g, NEW h, Powers(g, n), Powers(h, n + 1)
  PROVE  g[n] = h[n]
<1> DEFINE T == {i \in 0 .. n : g[i] # h[i]}
<1>1. T = {}
  <2> SUFFICES ASSUME T # {} PROVE FALSE
    OBVIOUS
  <2>0. T \in SUBSET Nat
    OBVIOUS
  <2>1. PICK i \in T : \A j \in T : i <= j
    BY ONLY <2>0, T # {}, LeastNumber
  <2>2. i \in 0 .. n /\ i \in 0 .. n + 1 /\ g[i] # h[i]
    OBVIOUS
  <2>3. i # 0
    BY <2>2 DEF Powers
  <2>4. i - 1 \in 0 .. n /\ i - 1 \notin T
    BY <2>1, <2>2, <2>3
  <2>5. g[i] = 2 * g[i - 1] /\ h[i] = 2 * h[i - 1]
    BY <2>2, <2>3 DEF Powers
  <2> QED
    BY <2>2, <2>4, <2>5
<1> QED
  BY <1>1

\* The function Pow2 is what its definition says.
LEMMA PowDef == Pow2 = [n \in Nat |-> IF n = 0 THEN 1 ELSE 2 * Pow2[n - 1]]
<1> DEFINE D(f) == f = [n \in Nat |-> IF n = 0 THEN 1 ELSE 2 * f[n - 1]]
           H(n) == CHOOSE h : Powers(h, n)
           f == [n \in Nat |-> H(n)[n]]
<1>1. \A n \in Nat : Powers(H(n), n)
  BY PowersExist
<1> HIDE DEF H
<1>2. ASSUME NEW n \in Nat PROVE f[n] = IF n = 0 THEN 1 ELSE 2 * f[n - 1]
  <2>1. f[n] = H(n)[n]
    OBVIOUS
  <2>2. CASE n = 0
    BY <1>1, <2>1, <2>2 DEF Powers
  <2>3. CASE n # 0
    <3>1. n - 1 \in Nat /\ (n - 1) + 1 = n
      BY <2>3
    <3>2. H(n - 1)[n - 1] = H(n)[n - 1]
      BY <1>1, <3>1, PowersAgree
    <3>3. H(n)[n] = 2 * H(n)[n - 1]
      BY <1>1, <2>3 DEF Powers
    <3>4. f[n - 1] = H(n - 1)[n - 1]
      BY <3>1
    <3> QED
      BY <2>1, <2>3, <3>2, <3>3, <3>4
  <2> QED
    BY <2>2, <2>3
<1>3. D(f)
  <2>1. f = [n \in Nat |-> f[n]]
    OBVIOUS
  <2> HIDE DEF f
  <2> QED
    BY <1>2, <2>1
<1>4. Pow2 = CHOOSE g : D(g)
  BY DEF Pow2
<1> HIDE DEF D
<1>5. D(CHOOSE g : D(g))
  BY <1>3
<1>6. D(Pow2)
  BY <1>4, <1>5
<1> QED
  BY <1>6 DEF D

\* Powers of two double from one to the next,
LEMMA PowStep ==
  /\ Pow2[0] = 1
  /\ \A n \in Nat : Pow2[n + 1] = 2 * Pow2[n]
<1>1. \A n \in Nat : Pow2[n] = IF n = 0 THEN 1 ELSE 2 * Pow2[n - 1]
  BY PowDef
<1>2. ASSUME NEW n \in Nat PROVE Pow2[n + 1] = 2 * Pow2[n]
  <2>1. n + 1 \in Nat /\ n + 1 # 0 /\ (n + 1) - 1 = n
    OBVIOUS
  <2> QED
    BY <1>1, <2>1
<1> QED
  BY <1>1, <1>2

\* are positive,
LEMMA PowType == \A n \in Nat : Pow2[n] \in Nat \ {0}
<1> DEFINE T == {n \in Nat : Pow2[n] \notin Nat \ {0}}
<1>1. T = {}
  <2> SUFFICES ASSUME T # {} PROVE FALSE
    OBVIOUS
  <2>1. PICK n \in T : \A m \in T : n <= m
    BY LeastNumber
  <2>2. n # 0
    BY PowStep
  <2>3. n - 1 \in Nat /\ n - 1 \notin T /\ (n - 1) + 1 = n
    BY <2>1, <2>2
  <2>4. Pow2[n - 1] \in Nat \ {0} /\ Pow2[n] = 2 * Pow2[n - 1]
    BY <2>3, PowStep
  <2> QED
    BY <2>4
<1> QED
  BY <1>1

\* and the power of a sum is a product.
LEMMA PowSum == \A m, n \in Nat : Pow2[m + n] = Pow2[m] * Pow2[n]
<1> SUFFICES ASSUME NEW m \in Nat PROVE \A n \in Nat : Pow2[m + n] = Pow2[m] * Pow2[n]
  OBVIOUS
<1> DEFINE T == {n \in Nat : Pow2[m + n] # Pow2[m] * Pow2[n]}
<1>1. T = {}
  <2> SUFFICES ASSUME T # {} PROVE FALSE
    OBVIOUS
  <2>1. PICK n \in T : \A k \in T : n <= k
    BY LeastNumber
  <2>2. Pow2[m] \in Nat /\ Pow2[m] * 1 = Pow2[m]
    BY PowType
  <2>3. n # 0
    <3>1. m + 0 = m
      OBVIOUS
    <3> QED
      BY <2>2, <3>1, PowStep
  <2>4. n - 1 \in Nat /\ n - 1 \notin T /\ (n - 1) + 1 = n /\ (m + (n - 1)) + 1 = m + n
    BY <2>1, <2>3
  <2>5. Pow2[m + (n - 1)] = Pow2[m] * Pow2[n - 1] /\ m + (n - 1) \in Nat
    BY <2>4
  <2>6. Pow2[n] = 2 * Pow2[n - 1] /\ Pow2[m + n] = 2 * Pow2[m + (n - 1)]
    BY <2>4, <2>5, PowStep
  <2>7. Pow2[n - 1] \in Nat
    BY <2>4, PowType
  <2> QED
    BY <2>2, <2>5, <2>6, <2>7
<1> QED
  BY <1>1

\* A larger exponent makes a larger power.
LEMMA PowGrows ==
  ASSUME NEW m \in Nat, NEW n \in Nat, m < n
  PROVE  2 * Pow2[m] <= Pow2[n]
<1>1. Pow2[n] = Pow2[m + 1] * Pow2[n - (m + 1)]
  <2>1. n - (m + 1) \in Nat /\ m + 1 \in Nat /\ (m + 1) + (n - (m + 1)) = n
    OBVIOUS
  <2> QED
    BY <2>1, PowSum
<1>2. Pow2[m + 1] = 2 * Pow2[m] /\ Pow2[m + 1] \in Nat \ {0} /\ Pow2[n - (m + 1)] \in Nat \ {0}
  BY PowStep, PowType
<1> QED
  BY <1>1, <1>2

-----------------------------------------------------------------------------
(***************************************************************************)
(* Bit vectors as numbers                                                  *)
(***************************************************************************)
\* The bit vector of a number.
LEMMA BVFacts ==
  ASSUME NEW w \in Nat, NEW v \in Int
  PROVE  /\ BV(w, v) \in Values(w) /\ BV(w, v).w = w /\ BV(w, v).v = v % Pow2[w]
         /\ BV(w, v).v \in 0 .. Pow2[w] - 1
<1>1. Pow2[w] \in Nat \ {0}
  BY PowType
<1>2. v % Pow2[w] \in 0 .. Pow2[w] - 1
  BY <1>1, DivMod
<1>3. (v % Pow2[w]) % Pow2[w] = v % Pow2[w]
  BY <1>1, <1>2, ModSmall
<1>4. BV(w, v) = BV(w, v % Pow2[w])
  BY <1>3 DEF BV
<1>5. BV(w, v) \in Values(w)
  BY <1>2, <1>4 DEF Values
<1> QED
  BY <1>2, <1>5 DEF BV

\* A bit vector is that of its value.
LEMMA ValuesFacts ==
  ASSUME NEW w \in Nat, NEW x \in Values(w)
  PROVE  x.w = w /\ x.v \in 0 .. Pow2[w] - 1 /\ x = BV(w, x.v)
<1>1. PICK v \in 0 .. Pow2[w] - 1 : x = BV(w, v)
  BY DEF Values
<1>2. Pow2[w] \in Nat \ {0}
  BY PowType
<1>3. v % Pow2[w] = v
  BY <1>2, ModSmall
<1>4. x.w = w /\ x.v = v
  BY <1>1, <1>3 DEF BV
<1> QED
  BY <1>1, <1>4

\* Numbers that differ by a multiple of 2^w have the same bit vector,
LEMMA BVShift ==
  ASSUME NEW w \in Nat, NEW v \in Int, NEW k \in Int
  PROVE  BV(w, v + Pow2[w] * k) = BV(w, v)
<1>1. (v + Pow2[w] * k) % Pow2[w] = v % Pow2[w]
  BY PowType, ModShift
<1> QED
  BY <1>1 DEF BV

\* and no others.
LEMMA BVEqual ==
  ASSUME NEW w \in Nat, NEW u \in Int, NEW v \in Int, BV(w, u) = BV(w, v)
  PROVE  \E k \in Int : u = v + Pow2[w] * k
<1>1. u % Pow2[w] = v % Pow2[w]
  BY DEF BV
<1> QED
  BY <1>1, PowType, ModEqual

\* Arithmetic on bit vectors is arithmetic on the numbers.
LEMMA BVArith ==
  ASSUME NEW w \in Nat, NEW u \in Int, NEW v \in Int
  PROVE  /\ Add(BV(w, u), BV(w, v)) = BV(w, u + v)
         /\ Sub(BV(w, u), BV(w, v)) = BV(w, u - v)
         /\ Mul(BV(w, u), BV(w, v)) = BV(w, u * v)
<1> DEFINE n == Pow2[w]
<1>1. n \in Nat \ {0}
  BY PowType
<1> HIDE DEF n
<1>2. /\ ((u % n) + (v % n)) % n = (u + v) % n
      /\ ((u % n) - (v % n)) % n = (u - v) % n
      /\ ((u % n) * (v % n)) % n = (u * v) % n
  BY <1>1, ModArith
<1> QED
  BY <1>2 DEF Add, Sub, Mul, BV, n

\* The signed value is in the signed range and has the same bit vector.
LEMMA SignedFacts ==
  ASSUME NEW w \in Nat \ {0}, NEW x \in Values(w)
  PROVE  /\ SignedValue(x) \in -Pow2[w - 1] .. Pow2[w - 1] - 1
         /\ SignedValue(x) = IF x.v >= Pow2[w - 1] THEN x.v - Pow2[w] ELSE x.v
         /\ x = BV(w, SignedValue(x))
         /\ Pow2[w] = 2 * Pow2[w - 1] /\ Pow2[w - 1] \in Nat \ {0}
<1>1. w - 1 \in Nat /\ (w - 1) + 1 = w
  OBVIOUS
<1>2. Pow2[w] = 2 * Pow2[w - 1] /\ Pow2[w - 1] \in Nat \ {0}
  BY <1>1, PowStep, PowType
<1>3. x.w = w /\ x.v \in 0 .. Pow2[w] - 1 /\ x = BV(w, x.v)
  BY ValuesFacts
<1>4. SignedValue(x) = IF x.v >= Pow2[w - 1] THEN x.v - Pow2[w] ELSE x.v
  BY <1>3 DEF SignedValue
<1>5. SignedValue(x) \in -Pow2[w - 1] .. Pow2[w - 1] - 1
  BY <1>2, <1>3, <1>4
<1>6. BV(w, x.v + Pow2[w] * (-1)) = BV(w, x.v)
  <2>1. x.v \in Int /\ -1 \in Int /\ w \in Nat
    BY <1>2, <1>3
  <2> QED
    BY ONLY <2>1, BVShift, Zenon
<1>7. x.v + Pow2[w] * (-1) = x.v - Pow2[w]
  BY <1>2, <1>3
<1>8. x = BV(w, SignedValue(x))
  BY <1>3, <1>4, <1>6, <1>7
<1> QED
  BY <1>2, <1>4, <1>5, <1>8

\* A number in the signed range is the signed value of its bit vector.
LEMMA SignedBV ==
  ASSUME NEW w \in Nat \ {0}, NEW s \in -Pow2[w - 1] .. Pow2[w - 1] - 1
  PROVE  SignedValue(BV(w, s)) = s
<1> DEFINE x == BV(w, s)
           t == SignedValue(x)
<1>0. w - 1 \in Nat /\ w \in Nat
  OBVIOUS
<1>1. Pow2[w - 1] \in Nat \ {0} /\ Pow2[w] \in Nat \ {0}
  BY <1>0, PowType
<1>2. s \in Int
  BY <1>1
<1>3. x \in Values(w)
  BY <1>2, BVFacts
<1>4. /\ t \in -Pow2[w - 1] .. Pow2[w - 1] - 1 /\ x = BV(w, t)
      /\ Pow2[w] = 2 * Pow2[w - 1]
  BY <1>3, SignedFacts
<1>5. t \in Int /\ BV(w, t) = BV(w, s)
  BY <1>1, <1>4
<1> HIDE DEF x, t
<1>6. PICK k \in Int : t = s + Pow2[w] * k
  BY <1>0, <1>2, <1>5, BVEqual
<1>7. Pow2[w] * k < Pow2[w] /\ Pow2[w] * k > -Pow2[w]
  BY <1>1, <1>2, <1>4, <1>5, <1>6
<1>8. k = 0
  BY <1>1, <1>7, SmallMultiple
<1> QED
  BY <1>1, <1>2, <1>6, <1>8 DEF x, t

\* The bit vectors of width one,
LEMMA OneBit ==
  /\ Pow2[1] = 2 /\ BV(1, 1) = [w |-> 1, v |-> 1] /\ BV(1, 0) = [w |-> 1, v |-> 0]
  /\ BV(1, 1) \in Values(1) /\ BV(1, 0) \in Values(1)
  /\ \A v \in Int : BV(1, v).w = 1 /\ BV(1, v).v = v % 2
<1>1. Pow2[1] = 2
  <2>1. 0 \in Nat /\ 0 + 1 = 1
    OBVIOUS
  <2> QED
    BY <2>1, PowStep
<1>2. 1 % 2 = 1 /\ 0 % 2 = 0
  OBVIOUS
<1>3. 1 \in Nat /\ 1 \in Int /\ 0 \in Int
  OBVIOUS
<1>4. BV(1, 1) \in Values(1) /\ BV(1, 0) \in Values(1)
  BY ONLY <1>3, BVFacts
<1> QED
  BY <1>1, <1>2, <1>4 DEF BV

\* and Booleans, which choose between two others and are as good as a bit.
LEMMA BoolFacts ==
  ASSUME NEW p \in BOOLEAN
  PROVE  /\ Bool(p).w = 0 /\ Bool(p).v = IF p THEN 1 ELSE 0
         /\ Bool(p) \in Booleans
         /\ \A x, y : Ite(Bool(p), x, y) = IF p THEN x ELSE y
<1>1. Bool(p) \in Booleans
  <2>1. CASE p
    BY <2>1 DEF Booleans, Bool
  <2>2. CASE ~p
    BY <2>2 DEF Booleans, Bool
  <2> QED
    BY <2>1, <2>2
<1> QED
  BY <1>1 DEF Bool, Ite, IsBoolean

LEMMA BooleanFacts ==
  ASSUME NEW f \in Booleans
  PROVE  /\ f.w = 0 /\ f.v \in {0, 1} /\ f = [w |-> 0, v |-> f.v]
         /\ _sym_build_bool_to_bit(f) \in Values(1) /\ _sym_build_bool_to_bit(f).v = f.v
         /\ _sym_build_bool_to_bit(f).w = 1 /\ _sym_build_bool_to_bit(f) = BV(1, f.v)
<1>1. CASE f = Bool(TRUE)
  <2>1. f = [w |-> 0, v |-> 1]
    BY <1>1 DEF Bool
  <2>2. _sym_build_bool_to_bit(f) = BV(1, 1)
    BY <2>1 DEF _sym_build_bool_to_bit, Ite, IsBoolean
  <2> QED
    BY <2>1, <2>2, OneBit
<1>2. CASE f = Bool(FALSE)
  <2>1. f = [w |-> 0, v |-> 0]
    BY <1>2 DEF Bool
  <2>2. _sym_build_bool_to_bit(f) = BV(1, 0)
    BY <2>1 DEF _sym_build_bool_to_bit, Ite, IsBoolean
  <2> QED
    BY <2>1, <2>2, OneBit
<1> QED
  BY <1>1, <1>2 DEF Booleans

\* Extensions of a bit vector, and its lower bits.
LEMMA ExtFacts ==
  ASSUME NEW w \in Nat \ {0}, NEW x \in Values(w), NEW n
  PROVE  SExt(x, n) = BV(w + n, SignedValue(x)) /\ ZExt(x, n) = BV(w + n, x.v)
<1>1. x.w = w /\ w > 0
  BY ValuesFacts
<1> QED
  BY <1>1 DEF SExt, ZExt, IsBitVector

-----------------------------------------------------------------------------
(***************************************************************************)
(* Saturating arithmetic                                                   *)
(***************************************************************************)
\* The limits of integers below the width of a machine word: no shift is
\* oversized.
LEMMA Limits ==
  ASSUME NEW w \in Nat \ {0}, w < WordBits, NEW wraps
  PROVE  /\ buildMinSignedInt(w) = BV(w, -Pow2[w - 1])
         /\ buildMaxSignedInt(w, wraps) = BV(w, Pow2[w - 1] - 1)
         /\ buildMaxUnsignedInt(w, wraps) = BV(w, Pow2[w] - 1)
<1>0. w - 1 \in Nat /\ (w - 1) + 1 = w /\ w \in Nat /\ WordBits \in Nat
  BY BitsAssumption
<1>1. Pow2[w] = 2 * Pow2[w - 1] /\ Pow2[w - 1] \in Nat \ {0} /\ Pow2[w] \in Nat \ {0}
  BY <1>0, PowStep, PowType
<1>2. BV(w, Pow2[w - 1]) = BV(w, -Pow2[w - 1])
  <2>1. -Pow2[w - 1] \in Int /\ 1 \in Int /\ Pow2[w - 1] = -Pow2[w - 1] + Pow2[w] * 1
    BY <1>1
  <2>2. BV(w, -Pow2[w - 1] + Pow2[w] * 1) = BV(w, -Pow2[w - 1])
    BY ONLY <1>0, <2>1, BVShift, Zenon
  <2> QED
    BY <2>1, <2>2
<1>3. Mask(w, wraps) = Pow2[w] - 1
  <2>1. Pow2[w] - 1 \in 0 .. Pow2[WordBits] - 1
    BY <1>0, <1>1, PowGrows, PowType
  <2>2. (Pow2[w] - 1) % Pow2[WordBits] = Pow2[w] - 1
    BY <1>0, <2>1, PowType, ModSmall
  <2> QED
    BY <2>2 DEF Mask, OneShifted
<1>4. (Pow2[w] - 1) \div 2 = Pow2[w - 1] - 1
  BY <1>1
<1> QED
  BY <1>2, <1>3, <1>4 DEF buildMinSignedInt, buildMaxSignedInt, buildMaxUnsignedInt

\* An exact result of one bit more is clamped to the signed range.
LEMMA SaturateOK ==
  ASSUME NEW w \in Nat \ {0}, w < WordBits, NEW wraps,
         NEW r \in -Pow2[w] .. Pow2[w] - 1
  PROVE  SaturateSigned(BV(w + 1, r), BV(w, r), wraps)
           = BV(w, Clamp(-Pow2[w - 1], Pow2[w - 1] - 1, r))
<1> DEFINE H == Pow2[w - 1]
           min == buildMinSignedInt(w)
           max == buildMaxSignedInt(w, wraps)
<1>0. w - 1 \in Nat /\ (w - 1) + 1 = w /\ w \in Nat /\ w + 1 \in Nat \ {0} /\ (w + 1) - 1 = w
  OBVIOUS
<1>1. Pow2[w] = 2 * H /\ H \in Nat \ {0} /\ Pow2[w] \in Nat \ {0}
  BY <1>0, PowStep, PowType
<1>2. min = BV(w, -H) /\ max = BV(w, H - 1)
  BY Limits
<1> HIDE DEF H, min, max
<1>3. r \in Int /\ -H \in Int /\ H - 1 \in Int /\ -H \in -H .. H - 1 /\ H - 1 \in -H .. H - 1
  BY <1>1
<1>4. SignedValue(BV(w + 1, r)) = r
  BY <1>0, SignedBV
<1>5. SignedValue(min) = -H /\ SignedValue(max) = H - 1 /\ min \in Values(w) /\ max \in Values(w)
  BY <1>0, <1>2, <1>3, SignedBV, BVFacts DEF H
<1>6. SExt(min, 1) = BV(w + 1, -H) /\ SExt(max, 1) = BV(w + 1, H - 1)
  BY <1>0, <1>5, ExtFacts
<1>7. -H \in -Pow2[w] .. Pow2[w] - 1 /\ H - 1 \in -Pow2[w] .. Pow2[w] - 1
  BY <1>1
<1>8. SignedValue(SExt(min, 1)) = -H /\ SignedValue(SExt(max, 1)) = H - 1
  BY <1>0, <1>6, <1>7, SignedBV
<1>9. BV(w, r).w = w
  BY <1>0, <1>3, BVFacts
<1>10. SaturateSigned(BV(w + 1, r), BV(w, r), wraps)
         = Ite(Bool(r <= -H), min, Ite(Bool(r >= H - 1), max, BV(w, r)))
  BY <1>4, <1>8, <1>9 DEF SaturateSigned, min, max
<1>11. Ite(Bool(r <= -H), min, Ite(Bool(r >= H - 1), max, BV(w, r)))
         = IF r <= -H THEN min ELSE IF r >= H - 1 THEN max ELSE BV(w, r)
  <2>1. (r <= -H) \in BOOLEAN /\ (r >= H - 1) \in BOOLEAN
    BY <1>1, <1>3
  <2> DEFINE below == r <= -H
             above == r >= H - 1
  <2>2. below \in BOOLEAN /\ above \in BOOLEAN
    BY <2>1
  <2>3. Ite(Bool(below), min, Ite(Bool(above), max, BV(w, r)))
          = IF below THEN min ELSE IF above THEN max ELSE BV(w, r)
    <3> HIDE DEF below, above
    <3>1. Ite(Bool(above), max, BV(w, r)) = IF above THEN max ELSE BV(w, r)
      BY ONLY <2>2, BoolFacts
    <3>2. Ite(Bool(below), min, Ite(Bool(above), max, BV(w, r)))
            = IF below THEN min ELSE Ite(Bool(above), max, BV(w, r))
      BY ONLY <2>2, BoolFacts
    <3> QED
      BY ONLY <3>1, <3>2
  <2> QED
    BY <2>3
<1>12. BV(w, Clamp(-H, H - 1, r))
         = IF r <= -H THEN BV(w, -H) ELSE IF r >= H - 1 THEN BV(w, H - 1) ELSE BV(w, r)
  BY <1>1, <1>3 DEF Clamp
<1> QED
  BY <1>2, <1>10, <1>11, <1>12 DEF H

\* sadd_sat, ssub_sat, uadd_sat and usub_sat.
LEMMA SaturatingAdd ==
  ASSUME Bits < WordBits, NEW a \in Ints, NEW b \in Ints, NEW wraps
  PROVE  /\ _sym_build_sadd_sat(a, b, wraps) = ClampSigned(SignedValue(a) + SignedValue(b))
         /\ _sym_build_ssub_sat(a, b, wraps) = ClampSigned(SignedValue(a) - SignedValue(b))
<1> DEFINE s == SignedValue(a)
           t == SignedValue(b)
           H == Pow2[Bits - 1]
<1>0. Bits \in Nat \ {0} /\ Bits + 1 \in Nat /\ a \in Values(Bits) /\ b \in Values(Bits)
  BY WidthAssumption DEF Ints
<1>1. /\ s \in -H .. H - 1 /\ t \in -H .. H - 1 /\ a = BV(Bits, s) /\ b = BV(Bits, t)
      /\ Pow2[Bits] = 2 * H /\ H \in Nat \ {0}
  BY <1>0, SignedFacts
<1>2. SExt(a, 1) = BV(Bits + 1, s) /\ SExt(b, 1) = BV(Bits + 1, t)
  BY <1>0, ExtFacts
<1> HIDE DEF s, t
<1>3. s \in Int /\ t \in Int
  BY <1>1
<1>4. /\ Add(SExt(a, 1), SExt(b, 1)) = BV(Bits + 1, s + t) /\ Add(a, b) = BV(Bits, s + t)
      /\ Sub(SExt(a, 1), SExt(b, 1)) = BV(Bits + 1, s - t) /\ Sub(a, b) = BV(Bits, s - t)
  <2>1. /\ Add(BV(Bits + 1, s), BV(Bits + 1, t)) = BV(Bits + 1, s + t)
        /\ Sub(BV(Bits + 1, s), BV(Bits + 1, t)) = BV(Bits + 1, s - t)
    BY ONLY <1>0, <1>3, BVArith
  <2>2. /\ Add(BV(Bits, s), BV(Bits, t)) = BV(Bits, s + t)
        /\ Sub(BV(Bits, s), BV(Bits, t)) = BV(Bits, s - t)
    BY ONLY <1>0, <1>3, BVArith
  <2> QED
    BY ONLY <1>1, <1>2, <2>1, <2>2, Zenon
<1>5. s + t \in -Pow2[Bits] .. Pow2[Bits] - 1 /\ s - t \in -Pow2[Bits] .. Pow2[Bits] - 1
  BY <1>1
<1>6. /\ SaturateSigned(BV(Bits + 1, s + t), BV(Bits, s + t), wraps) = ClampSigned(s + t)
      /\ SaturateSigned(BV(Bits + 1, s - t), BV(Bits, s - t), wraps) = ClampSigned(s - t)
  BY <1>0, <1>5, SaturateOK DEF ClampSigned
<1> QED
  BY <1>4, <1>6 DEF _sym_build_sadd_sat, _sym_build_ssub_sat, s, t

\* The bits hi down to lo of a bit vector that has them.
LEMMA ExtractFacts ==
  ASSUME NEW w \in Nat, NEW x \in Values(w), NEW lo \in Nat, NEW hi \in Nat,
         lo <= hi, hi < w
  PROVE  Extract(x, hi, lo) = BV(hi - lo + 1, x.v \div Pow2[lo])
<1>1. x.w = w
  BY ValuesFacts
<1> QED
  BY <1>1 DEF Extract

\* The highest bit says whether the number is at least half of the range.
LEMMA TopBit ==
  ASSUME NEW w \in Nat, NEW i \in 0 .. 2 * Pow2[w] - 1
  PROVE  _sym_build_bit_to_bool(Extract(BV(w + 1, i), w, w)) = Bool(i >= Pow2[w])
<1>1. Pow2[w] \in Nat \ {0} /\ Pow2[w + 1] = 2 * Pow2[w]
  BY PowStep, PowType
<1>2. i \in Int /\ w + 1 \in Nat /\ w < w + 1 /\ w <= w /\ w - w + 1 = 1
  BY <1>1
<1>3. i % Pow2[w + 1] = i
  BY <1>1, ModSmall
<1>4. BV(w + 1, i) \in Values(w + 1) /\ BV(w + 1, i).v = i
  BY <1>2, <1>3, BVFacts
<1>5. Extract(BV(w + 1, i), w, w) = BV(w - w + 1, BV(w + 1, i).v \div Pow2[w])
  BY ONLY <1>2, <1>4, w \in Nat, ExtractFacts
<1>6. Extract(BV(w + 1, i), w, w) = BV(1, i \div Pow2[w])
  BY <1>2, <1>4, <1>5
<1>7. i \div Pow2[w] = IF i >= Pow2[w] THEN 1 ELSE 0
  <2>1. CASE i >= Pow2[w]
    <3>1. i = Pow2[w] * 1 + (i - Pow2[w]) /\ i - Pow2[w] \in 0 .. Pow2[w] - 1 /\ 1 \in Int
      BY <1>1, <2>1
    <3> QED
      BY <1>1, <1>2, <2>1, <3>1, DivUnique
  <2>2. CASE ~(i >= Pow2[w])
    <3>1. i \in 0 .. Pow2[w] - 1
      BY <1>1, <2>2
    <3> QED
      BY <1>1, <2>2, <3>1, ModSmall
  <2> QED
    BY <2>1, <2>2
<1>8. /\ Extract(BV(w + 1, i), w, w).w = 1
      /\ (Extract(BV(w + 1, i), w, w).v # 0) <=> (i >= Pow2[w])
  BY <1>6, <1>7, OneBit
<1> QED
  BY <1>8 DEF _sym_build_bit_to_bool, IsBitVector, Bool

\* uadd_sat and usub_sat.
LEMMA SaturatingUnsigned ==
  ASSUME NEW a \in Ints, NEW b \in Ints, NEW wraps
  PROVE  /\ Bits < WordBits => _sym_build_uadd_sat(a, b, wraps) = ClampUnsigned(a.v + b.v)
         /\ _sym_build_usub_sat(a, b) = ClampUnsigned(a.v - b.v)
<1> DEFINE N == Pow2[Bits]
<1>0. Bits \in Nat \ {0} /\ Bits + 1 \in Nat /\ a \in Values(Bits) /\ b \in Values(Bits)
  BY WidthAssumption DEF Ints
<1>1. /\ a.v \in 0 .. N - 1 /\ b.v \in 0 .. N - 1 /\ a = BV(Bits, a.v) /\ b = BV(Bits, b.v)
      /\ a.w = Bits /\ N \in Nat \ {0}
  BY <1>0, ValuesFacts, PowType
<1>2. ZExt(a, 1) = BV(Bits + 1, a.v) /\ ZExt(b, 1) = BV(Bits + 1, b.v)
  BY <1>0, ExtFacts
<1>3. a.v \in Int /\ b.v \in Int
  BY <1>1
<1>4. /\ Add(ZExt(a, 1), ZExt(b, 1)) = BV(Bits + 1, a.v + b.v)
      /\ Add(a, b) = BV(Bits, a.v + b.v) /\ Sub(a, b) = BV(Bits, a.v - b.v)
  <2>1. Add(BV(Bits + 1, a.v), BV(Bits + 1, b.v)) = BV(Bits + 1, a.v + b.v)
    BY ONLY <1>0, <1>3, BVArith
  <2>2. /\ Add(BV(Bits, a.v), BV(Bits, b.v)) = BV(Bits, a.v + b.v)
        /\ Sub(BV(Bits, a.v), BV(Bits, b.v)) = BV(Bits, a.v - b.v)
    BY ONLY <1>0, <1>3, BVArith
  <2> QED
    BY ONLY <1>1, <1>2, <2>1, <2>2, Zenon
<1>5. a.v + b.v \in 0 .. 2 * Pow2[Bits] - 1
  BY <1>1
<1>6. _sym_build_bit_to_bool(Extract(BV(Bits + 1, a.v + b.v), Bits, Bits))
        = Bool(a.v + b.v >= N)
  BY <1>0, <1>5, TopBit
<1>7. Bits < WordBits => buildMaxUnsignedInt(a.w, wraps) = BV(Bits, N - 1)
  BY <1>0, <1>1, Limits
<1>8. Bits < WordBits =>
      _sym_build_uadd_sat(a, b, wraps)
        = Ite(Bool(a.v + b.v >= N), BV(Bits, N - 1), BV(Bits, a.v + b.v))
  BY <1>1, <1>4, <1>6, <1>7 DEF _sym_build_uadd_sat
<1>9. Ite(Bool(a.v + b.v >= N), BV(Bits, N - 1), BV(Bits, a.v + b.v))
        = ClampUnsigned(a.v + b.v)
  BY <1>1 DEF Ite, IsBoolean, Bool, ClampUnsigned, Clamp
<1>10. _sym_build_usub_sat(a, b) = ClampUnsigned(a.v - b.v)
  BY <1>1, <1>4 DEF _sym_build_usub_sat, Ite, IsBoolean, Bool, ClampUnsigned, Clamp
<1> QED
  BY <1>8, <1>9, <1>10

\* abs and ptrtoint.
LEMMA AbsOK ==
  ASSUME NEW a \in Ints
  PROVE  _sym_build_abs(a) = BV(Bits, IF SignedValue(a) < 0 THEN -SignedValue(a)
                                                             ELSE SignedValue(a))
<1> DEFINE s == SignedValue(a)
<1>0. Bits \in Nat \ {0} /\ a \in Values(Bits)
  BY WidthAssumption DEF Ints
<1>1. s \in Int /\ a = BV(Bits, s) /\ a.w = Bits
  BY <1>0, SignedFacts, ValuesFacts
<1> HIDE DEF s
<1>2. Sub(BV(Bits, 0), BV(Bits, s)) = BV(Bits, 0 - s)
  <2>1. 0 \in Int /\ Bits \in Nat
    BY <1>0
  <2> QED
    BY ONLY <1>1, <2>1, BVArith, Zenon
<1>3. Sub(BV(a.w, 0), a) = BV(Bits, 0 - s)
  BY ONLY <1>1, <1>2, Zenon
<1>4. _sym_build_abs(a) = IF s >= 0 THEN a ELSE BV(Bits, 0 - s)
  BY <1>1, <1>3 DEF _sym_build_abs, Ite, IsBoolean, Bool, s
<1>5. 0 - s = -s /\ (s >= 0 <=> ~(s < 0))
  BY <1>1
<1>6. CASE s >= 0
  BY <1>1, <1>4, <1>5, <1>6 DEF s
<1>7. CASE ~(s >= 0)
  BY <1>1, <1>4, <1>5, <1>7 DEF s
<1> QED
  BY <1>6, <1>7

\* A shift to the left and back changes the number exactly if the result does
\* not fit.
LEMMA ShiftOverflow ==
  ASSUME NEW a \in Ints, NEW b \in Ints, b.v < Bits
  PROVE  /\ Shl(a, b) = BV(Bits, SignedValue(a) * Pow2[b.v])
         /\ AShr(Shl(a, b), b) = a
              <=> SignedValue(a) * Pow2[b.v] \in -Pow2[Bits - 1] .. Pow2[Bits - 1] - 1
<1> DEFINE s == SignedValue(a)
           k == b.v
           K == Pow2[k]
           Q == Pow2[Bits - k]
           R == Pow2[Bits - k - 1]
           N == Pow2[Bits]
           H == Pow2[Bits - 1]
<1>0. Bits \in Nat \ {0} /\ Bits \in Nat /\ Bits - 1 \in Nat /\ a \in Values(Bits) /\ b \in Values(Bits)
  BY WidthAssumption DEF Ints
<1>1. /\ k \in Nat /\ Bits - k - 1 \in Nat /\ (Bits - k - 1) + 1 = Bits - k
      /\ k + (Bits - k - 1) = Bits - 1 /\ k < Bits
  BY <1>0, ValuesFacts
<1>2. K \in Nat \ {0} /\ R \in Nat \ {0} /\ Q = 2 * R /\ H = K * R
  BY <1>1, PowType, PowStep, PowSum
<1>3. s \in -H .. H - 1 /\ a = BV(Bits, s) /\ N = 2 * H /\ s = IF a.v >= H THEN a.v - N ELSE a.v
  BY <1>0, SignedFacts
<1>4. a.v \in Int /\ a.w = Bits /\ H \in Nat \ {0} /\ N \in Nat \ {0}
  BY <1>0, ValuesFacts, PowType
<1> HIDE DEF s, k, K, Q, R, N, H
<1>5. s \in Int /\ s * K \in Int /\ N = K * Q
  <2>1. K * Q = 2 * (K * R)
    BY <1>2
  <2> QED
    BY <1>2, <1>3, <1>4, <2>1
<1>6. Shl(a, b) = BV(Bits, s * K)
  <2>1. Shl(a, b) = BV(Bits, a.v * K)
    BY <1>4 DEF Shl, K, k
  <2>2. CASE a.v >= H
    <3>1. a.v * K = s * K + N * K
      BY <1>2, <1>3, <1>4, <2>2
    <3>2. BV(Bits, s * K + Pow2[Bits] * K) = BV(Bits, s * K)
      BY ONLY <1>0, <1>2, <1>5, K \in Int, BVShift
    <3> QED
      BY <2>1, <3>1, <3>2 DEF N
  <2>3. CASE ~(a.v >= H)
    BY <1>3, <2>1, <2>3
  <2> QED
    BY <2>2, <2>3
<1> DEFINE y == BV(Bits, s * K)
           sy == SignedValue(y)
<1>7. y \in Values(Bits) /\ y.w = Bits
  BY <1>0, <1>5, BVFacts
<1>8. sy \in -H .. H - 1 /\ BV(Bits, sy) = y
  BY <1>0, <1>7, SignedFacts DEF H
<1>9. sy \in Int
  BY <1>4, <1>8
<1>10. PICK t \in Int : sy = s * K + N * t
  BY ONLY <1>0, <1>5, <1>8, <1>9, BVEqual DEF N, y
<1> HIDE DEF y, sy
<1> DEFINE u == s + Q * t
<1>11. u \in Int /\ sy = K * u + 0
  <2>1. Q \in Int /\ Q * t \in Int
    BY <1>2
  <2>2. N * t = K * (Q * t)
    BY <1>2, <1>5
  <2>3. K * (s + Q * t) = K * s + K * (Q * t)
    BY <1>2, <1>5, <2>1
  <2> QED
    BY <1>2, <1>5, <1>10, <2>1, <2>2, <2>3
<1> HIDE DEF u
<1>12. sy \div K = u
  BY <1>2, <1>9, <1>11, DivUnique
<1>13. AShr(Shl(a, b), b) = BV(Bits, u)
  BY <1>6, <1>7, <1>12 DEF AShr, K, k, y, sy
<1>14. u \in -R .. R - 1
  <2>1. K * u >= -(K * R) /\ K * u < K * R
    BY <1>2, <1>8, <1>9, <1>11
  <2>2. u < R
    <3> SUFFICES ASSUME u >= R PROVE FALSE
      BY <1>2, <1>11
    <3> QED
      BY <1>2, <1>11, <2>1
  <2>3. u >= -R
    <3> SUFFICES ASSUME u < -R PROVE FALSE
      BY <1>2, <1>11
    <3>1. K * (-R - u) > 0
      BY <1>2, <1>11
    <3>2. K * (-R - u) = -(K * R) - K * u
      BY <1>2, <1>11
    <3> QED
      BY <1>2, <1>11, <2>1, <3>1, <3>2
  <2> QED
    BY <1>2, <1>11, <2>2, <2>3
<1>15. R <= H
  BY <1>2
<1>16. u \in -H .. H - 1
  BY <1>2, <1>4, <1>14, <1>15
<1>17. BV(Bits, u) = a <=> u = s
  <2>1. SignedValue(BV(Bits, u)) = u
    BY <1>0, <1>16, SignedBV DEF H
  <2> QED
    BY <1>3, <2>1 DEF s
<1>18. u = s <=> t = 0
  BY <1>2, <1>5, <1>11 DEF u
<1>19. t = 0 <=> s * K \in -H .. H - 1
  <2>1. t = 0 => s * K = sy
    BY <1>4, <1>5, <1>10
  <2>2. ASSUME s * K \in -H .. H - 1 PROVE t = 0
    <3>1. sy = s * K
      BY <1>0, <2>2, SignedBV DEF H, y, sy
    <3>2. N * t = 0
      BY <1>4, <1>5, <1>10, <3>1
    <3> QED
      BY <1>4, <3>2
  <2> QED
    BY <1>8, <2>1, <2>2
<1>20. AShr(Shl(a, b), b) = a <=> s * K \in -H .. H - 1
  BY <1>13, <1>17, <1>18, <1>19
<1> QED
  BY <1>6, <1>20 DEF s, K, k, H

\* sshl_sat, for shifts that are defined.
LEMMA SaturatingShift ==
  ASSUME Bits < WordBits, NEW a \in Ints, NEW b \in Ints, b.v < Bits, NEW wraps
  PROVE  _sym_build_sshl_sat(a, b, wraps) = ClampSigned(SignedValue(a) * Pow2[b.v])
<1> DEFINE s == SignedValue(a)
           K == Pow2[b.v]
           H == Pow2[Bits - 1]
           r == s * K
<1>0. Bits \in Nat \ {0} /\ Bits - 1 \in Nat /\ (Bits - 1) + 1 = Bits
      /\ a \in Values(Bits) /\ b \in Values(Bits)
  BY WidthAssumption DEF Ints
<1>1. s \in -H .. H - 1 /\ Pow2[Bits] = 2 * H /\ s = IF a.v >= H THEN a.v - Pow2[Bits] ELSE a.v
  BY <1>0, SignedFacts
<1>2. /\ a.v \in 0 .. Pow2[Bits] - 1 /\ b.v \in 0 .. Pow2[Bits] - 1 /\ a.w = Bits
      /\ a = BV(Bits, a.v) /\ H \in Nat \ {0}
  BY <1>0, ValuesFacts, PowType
<1>3. b.v \in Nat /\ K \in Nat \ {0}
  BY <1>1, <1>2, PowType
<1>4. s < 0 <=> a.v >= H
  BY <1>1, <1>2
<1>5. Shl(a, b) = BV(Bits, r) /\ (AShr(Shl(a, b), b) = a <=> r \in -H .. H - 1)
  BY ShiftOverflow
<1>6. _sym_build_bit_to_bool(Extract(a, a.w - 1, a.w - 1)) = Bool(a.v >= H)
  <2>1. a.v \in 0 .. 2 * Pow2[Bits - 1] - 1
    BY <1>1, <1>2
  <2>2. _sym_build_bit_to_bool(Extract(BV((Bits - 1) + 1, a.v), Bits - 1, Bits - 1))
          = Bool(a.v >= Pow2[Bits - 1])
    BY ONLY <1>0, <2>1, TopBit
  <2> QED
    BY <1>0, <1>2, <2>2
<1>7. /\ buildMinSignedInt(a.w) = BV(Bits, -H)
      /\ buildMaxSignedInt(a.w, wraps) = BV(Bits, H - 1)
  BY <1>0, <1>2, Limits
<1> HIDE DEF s, K, H
<1>8. s \in Int /\ r \in Int
  BY <1>1, <1>2, <1>3
<1>9. (s < 0 => r < 0) /\ (~(s < 0) => r >= 0)
  BY <1>3, <1>8
<1> HIDE DEF r
<1>10. _sym_build_sshl_sat(a, b, wraps)
         = IF r \in -H .. H - 1 THEN BV(Bits, r)
           ELSE IF s < 0 THEN BV(Bits, -H) ELSE BV(Bits, H - 1)
  <2>1. CASE r \in -H .. H - 1
    BY <1>5, <2>1
       DEF _sym_build_sshl_sat, _sym_build_shift_left_overflow, Ite, IsBoolean, Bool
  <2>2. CASE ~(r \in -H .. H - 1)
    BY <1>4, <1>5, <1>6, <1>7, <2>2
       DEF _sym_build_sshl_sat, _sym_build_shift_left_overflow, Ite, IsBoolean, Bool
  <2> QED
    BY <2>1, <2>2
<1>11. ClampSigned(r) = IF r \in -H .. H - 1 THEN BV(Bits, r)
                        ELSE IF s < 0 THEN BV(Bits, -H) ELSE BV(Bits, H - 1)
  BY <1>2, <1>8, <1>9 DEF ClampSigned, Clamp, H
<1> QED
  BY <1>10, <1>11 DEF r, s, K

-----------------------------------------------------------------------------
(***************************************************************************)
(* Arithmetic with overflow                                                *)
(***************************************************************************)
\* A number differs from its narrow bit vector, extended again, exactly if it
\* does not fit.
LEMMA SignedFlag ==
  ASSUME NEW w \in Nat \ {0}, NEW e \in Nat \ {0},
         NEW r \in -Pow2[w + e - 1] .. Pow2[w + e - 1] - 1
  PROVE  BV(w + e, r) = SExt(BV(w, r), e) <=> r \in -Pow2[w - 1] .. Pow2[w - 1] - 1
<1> DEFINE x == BV(w, r)
           s == SignedValue(x)
<1>0. /\ w \in Nat /\ w + e \in Nat \ {0} /\ w - 1 \in Nat /\ w + e - 1 \in Nat
      /\ w - 1 < w + e - 1
  OBVIOUS
<1>1. /\ Pow2[w - 1] \in Nat \ {0} /\ Pow2[w + e - 1] \in Nat \ {0}
      /\ 2 * Pow2[w - 1] <= Pow2[w + e - 1]
  BY <1>0, PowType, PowGrows
<1>2. r \in Int
  BY <1>1
<1>3. x \in Values(w)
  BY <1>0, <1>2, BVFacts
<1>4. s \in -Pow2[w - 1] .. Pow2[w - 1] - 1 /\ x = BV(w, s)
  BY <1>3, SignedFacts
<1>5. SExt(x, e) = BV(w + e, s)
  BY <1>0, <1>3, ExtFacts
<1>6. s \in -Pow2[w + e - 1] .. Pow2[w + e - 1] - 1
  BY <1>1, <1>4
<1>7. SignedValue(BV(w + e, s)) = s /\ SignedValue(BV(w + e, r)) = r
  BY <1>0, <1>6, SignedBV
<1>8. r \in -Pow2[w - 1] .. Pow2[w - 1] - 1 => s = r
  BY SignedBV
<1> HIDE DEF s, x
<1>9. BV(w + e, r) = BV(w + e, s) <=> r = s
  BY <1>7
<1> QED
  BY <1>4, <1>5, <1>8, <1>9 DEF x

\* The flags of signed addition, subtraction and multiplication.
LEMMA SignedOverflows ==
  ASSUME NEW a \in Ints, NEW b \in Ints
  PROVE  LET s == SignedValue(a)
             t == SignedValue(b)
             Fits(r) == r \in -Pow2[Bits - 1] .. Pow2[Bits - 1] - 1
         IN  /\ Add(a, b) = BV(Bits, s + t) /\ AddOverflows(a, b, TRUE) = Bool(~Fits(s + t))
             /\ Sub(a, b) = BV(Bits, s - t) /\ SubOverflows(a, b, TRUE) = Bool(~Fits(s - t))
             /\ Mul(a, b) = BV(Bits, s * t) /\ MulOverflows(a, b, TRUE) = Bool(~Fits(s * t))
<1> DEFINE s == SignedValue(a)
           t == SignedValue(b)
           H == Pow2[Bits - 1]
<1>0. /\ Bits \in Nat \ {0} /\ Bits \in Nat /\ Bits + 1 \in Nat /\ Bits + Bits \in Nat
      /\ 1 \in Nat \ {0} /\ a \in Values(Bits) /\ b \in Values(Bits)
      /\ Bits - 1 \in Nat /\ Bits + Bits - 1 = Bits + (Bits - 1) /\ Bits + 1 - 1 = Bits
  BY WidthAssumption DEF Ints
<1>1. /\ s \in -H .. H - 1 /\ t \in -H .. H - 1 /\ a = BV(Bits, s) /\ b = BV(Bits, t)
      /\ Pow2[Bits] = 2 * H /\ H \in Nat \ {0}
  BY <1>0, SignedFacts
<1>2. a.w = Bits /\ b.w = Bits
  BY <1>0, ValuesFacts
<1>3. /\ SExt(a, 1) = BV(Bits + 1, s) /\ SExt(b, 1) = BV(Bits + 1, t)
      /\ SExt(a, a.w) = BV(Bits + Bits, s) /\ SExt(b, a.w) = BV(Bits + Bits, t)
  BY <1>0, <1>2, ExtFacts
<1> HIDE DEF s, t
<1>4. s \in Int /\ t \in Int /\ s + t \in Int /\ s - t \in Int /\ s * t \in Int
  BY <1>1
<1>5. /\ Add(a, b) = BV(Bits, s + t) /\ Sub(a, b) = BV(Bits, s - t)
      /\ Mul(a, b) = BV(Bits, s * t)
  <2>1. /\ Add(BV(Bits, s), BV(Bits, t)) = BV(Bits, s + t)
        /\ Sub(BV(Bits, s), BV(Bits, t)) = BV(Bits, s - t)
        /\ Mul(BV(Bits, s), BV(Bits, t)) = BV(Bits, s * t)
    BY ONLY <1>0, <1>4, BVArith
  <2> QED
    BY ONLY <1>1, <2>1, Zenon
<1>6. /\ Add(SExt(a, 1), SExt(b, 1)) = BV(Bits + 1, s + t)
      /\ Sub(SExt(a, 1), SExt(b, 1)) = BV(Bits + 1, s - t)
  <2>1. /\ Add(BV(Bits + 1, s), BV(Bits + 1, t)) = BV(Bits + 1, s + t)
        /\ Sub(BV(Bits + 1, s), BV(Bits + 1, t)) = BV(Bits + 1, s - t)
    BY ONLY <1>0, <1>4, BVArith
  <2> QED
    BY ONLY <1>3, <2>1, Zenon
<1>7. Mul(SExt(a, a.w), SExt(b, a.w)) = BV(Bits + Bits, s * t)
  <2>1. Mul(BV(Bits + Bits, s), BV(Bits + Bits, t)) = BV(Bits + Bits, s * t)
    BY ONLY <1>0, <1>4, BVArith
  <2> QED
    BY ONLY <1>3, <2>1, Zenon
<1>8. s + t \in -Pow2[Bits] .. Pow2[Bits] - 1 /\ s - t \in -Pow2[Bits] .. Pow2[Bits] - 1
  BY <1>1
<1>9. /\ BV(Bits + 1, s + t) = SExt(BV(Bits, s + t), 1) <=> s + t \in -H .. H - 1
      /\ BV(Bits + 1, s - t) = SExt(BV(Bits, s - t), 1) <=> s - t \in -H .. H - 1
  BY <1>0, <1>8, SignedFlag
<1>10. s * t \in -Pow2[Bits + Bits - 1] .. Pow2[Bits + Bits - 1] - 1
  <2>1. Pow2[Bits + Bits - 1] = 2 * (H * H)
    <3>1. Pow2[Bits + (Bits - 1)] = Pow2[Bits] * H
      BY <1>0, PowSum
    <3>2. Pow2[Bits] * H = 2 * (H * H)
      BY <1>1
    <3> QED
      BY <1>0, <3>1, <3>2
  <2>2. H * H \in Nat \ {0}
    BY <1>1
  <2> HIDE DEF H
  <2>3. s * t <= H * H
    <3>1. CASE s >= 0 /\ t >= 0
      BY <1>1, <3>1
    <3>2. CASE s >= 0 /\ t < 0
      <4>1. s * t <= 0
        BY <1>4, <3>2
      <4> QED
        BY <1>4, <2>2, <4>1
    <3>3. CASE s < 0 /\ t >= 0
      <4>1. s * t <= 0
        BY <1>4, <3>3
      <4> QED
        BY <1>4, <2>2, <4>1
    <3>4. CASE s < 0 /\ t < 0
      <4>1. s * t = (-s) * (-t) /\ -s \in 0 .. H /\ -t \in 0 .. H
        BY <1>1, <1>4, <3>4
      <4>2. (-s) * (-t) <= H * H
        BY <1>1, <4>1
      <4> QED
        BY <4>1, <4>2
    <3> QED
      BY <1>4, <3>1, <3>2, <3>3, <3>4
  <2>4. s * t >= -(H * H)
    <3>1. CASE s >= 0 /\ t >= 0
      <4>1. s * t >= 0
        BY <1>4, <3>1
      <4> QED
        BY <1>4, <2>2, <4>1
    <3>2. CASE s < 0 /\ t < 0
      <4>1. s * t >= 0
        BY <1>4, <3>2
      <4> QED
        BY <1>4, <2>2, <4>1
    <3>3. CASE s >= 0 /\ t < 0
      <4>1. s * t = -(s * (-t)) /\ s \in 0 .. H /\ -t \in 0 .. H
        BY <1>1, <1>4, <3>3
      <4>2. s * (-t) <= H * H
        BY <1>1, <4>1
      <4> QED
        BY <1>1, <1>4, <4>1, <4>2
    <3>4. CASE s < 0 /\ t >= 0
      <4>1. s * t = -((-s) * t) /\ -s \in 0 .. H /\ t \in 0 .. H
        BY <1>1, <1>4, <3>4
      <4>2. (-s) * t <= H * H
        BY <1>1, <4>1
      <4> QED
        BY <1>1, <1>4, <4>1, <4>2
    <3> QED
      BY <1>4, <3>1, <3>2, <3>3, <3>4
  <2> QED
    BY <1>4, <2>1, <2>2, <2>3, <2>4
<1>11. BV(Bits + Bits, s * t) = SExt(BV(Bits, s * t), Bits) <=> s * t \in -H .. H - 1
  BY <1>0, <1>10, SignedFlag
<1>12. AddOverflows(a, b, TRUE) = Bool(~(s + t \in -H .. H - 1))
  BY <1>5, <1>6, <1>9 DEF AddOverflows, Bool
<1>13. SubOverflows(a, b, TRUE) = Bool(~(s - t \in -H .. H - 1))
  BY <1>5, <1>6, <1>9 DEF SubOverflows, Bool
<1>14. MulOverflows(a, b, TRUE) = Bool(~(s * t \in -H .. H - 1))
  BY <1>2, <1>5, <1>7, <1>11 DEF MulOverflows, Bool
<1> QED
  BY <1>5, <1>12, <1>13, <1>14, Zenon DEF s, t

\* What the builders put together for arithmetic with overflow is the structure
\* of LLVM's result and flag.
LEMMA OverflowOK ==
  ASSUME NEW op, NEW is_signed, <<op, is_signed>> \in SoundOverflow,
         NEW a \in Ints, NEW b \in Ints
  PROVE  LET m == WithOverflow(op, is_signed, a, b)
         IN  /\ m[0] \in Ints /\ m[1] \in Booleans /\ m \in [0 .. 1 -> {m[0], m[1]}]
             /\ BuildOverflow(op, is_signed, a, b) = buildOverflowResult(m[0], m[1], LittleEndian)
<1> DEFINE m == WithOverflow(op, is_signed, a, b)
           H == Pow2[Bits - 1]
           x == SignedValue(a)
           y == SignedValue(b)
           r == CASE op = "add" -> x + y [] op = "sub" -> x - y [] op = "mul" -> x * y
           flag == Bool(~(r \in -H .. H - 1))
<1>0. Bits \in Nat \ {0} /\ Bits \in Nat /\ a \in Values(Bits) /\ b \in Values(Bits)
  BY WidthAssumption DEF Ints
<1>1. op \in {"add", "sub", "mul"} /\ is_signed = TRUE
  BY DEF SoundOverflow
<1>2. H \in Nat \ {0}
  BY <1>0, PowType
<1>3. SignedValue(a) \in Int /\ SignedValue(b) \in Int
  BY <1>0, <1>2, SignedFacts
<1>4. r \in Int
  BY <1>1, <1>3
<1>5. m[0] = BV(Bits, r) /\ m[1] = flag /\ m \in [0 .. 1 -> {m[0], m[1]}]
  <2>1. m = [i \in 0 .. 1 |-> IF i = 0 THEN BV(Bits, r) ELSE flag]
    BY <1>1 DEF WithOverflow
  <2> HIDE DEF m, r, flag
  <2> QED
    BY <2>1
<1>6. m[0] \in Ints /\ m[1] \in Booleans
  <2>1. flag \in Booleans
    <3>1. (~(r \in -H .. H - 1)) \in BOOLEAN
      OBVIOUS
    <3> HIDE DEF r
    <3> QED
      BY ONLY <3>1, BoolFacts
  <2>2. BV(Bits, r) \in Values(Bits)
    BY <1>0, <1>4, BVFacts
  <2> QED
    BY <1>5, <2>1, <2>2 DEF Ints
<1>7. BuildOverflow(op, is_signed, a, b) = buildOverflowResult(BV(Bits, r), flag, LittleEndian)
  <2>1. CASE op = "add"
    BY <1>1, <2>1, SignedOverflows DEF BuildOverflow, _sym_build_add_overflow
  <2>2. CASE op = "sub"
    BY <1>1, <2>2, SignedOverflows DEF BuildOverflow, _sym_build_sub_overflow
  <2>3. CASE op = "mul"
    BY <1>1, <2>3, SignedOverflows DEF BuildOverflow, _sym_build_mul_overflow
  <2> QED
    BY <1>1, <2>1, <2>2, <2>3
<1> QED
  BY <1>5, <1>6, <1>7

-----------------------------------------------------------------------------
(***************************************************************************)
(* Conversions and comparisons                                             *)
(***************************************************************************)
\* Integers are at least as wide as bytes.
LEMMA Widths ==
  /\ Bits \in Nat \ {0} /\ ByteBits \in Nat \ {0} /\ Bits \div ByteBits \in Nat \ {0}
  /\ Bits = ByteBits * (Bits \div ByteBits) /\ ByteBits <= Bits
<1>1. Bits \in Nat \ {0} /\ ByteBits \in Nat \ {0} /\ Bits % ByteBits = 0
  BY WidthAssumption, BitsAssumption
<1>2. Bits \div ByteBits \in Int /\ Bits = ByteBits * (Bits \div ByteBits) + (Bits % ByteBits)
  BY <1>1, DivMod
<1> DEFINE q == Bits \div ByteBits
<1>3. q \in Int /\ Bits = ByteBits * q
  BY <1>1, <1>2
<1> HIDE DEF q
<1>4. q > 0
  <2> SUFFICES ASSUME q <= 0 PROVE FALSE
    BY <1>3
  <2>1. ByteBits * q <= 0
    BY <1>1, <1>3
  <2> QED
    BY <1>1, <1>3, <2>1
<1>5. ByteBits * q >= ByteBits
  BY <1>1, <1>3, <1>4
<1> QED
  BY <1>1, <1>3, <1>4, <1>5 DEF q

\* trunc
LEMMA TruncOK ==
  ASSUME NEW x \in Ints, NEW bits \in {1, ByteBits}
  PROVE  visitTruncInst(x, bits) = Truncated(x, bits) /\ Truncated(x, bits) \in Booleans \cup Values(ByteBits)
<1>1. /\ Bits \in Nat /\ bits - 1 \in Nat /\ 0 \in Nat /\ 0 <= bits - 1 /\ bits - 1 < Bits
      /\ bits - 1 - 0 + 1 = bits
  BY Widths
<1>2. x \in Values(Bits) /\ x.v \in Int
  BY <1>1, ValuesFacts, PowType DEF Ints
<1>3. Extract(x, bits - 1, 0) = BV(bits - 1 - 0 + 1, x.v \div Pow2[0])
  BY ONLY <1>1, <1>2, ExtractFacts
<1>4. x.v \div Pow2[0] = x.v
  BY <1>2, PowStep
<1>5. Extract(x, bits - 1, 0) = BV(bits, x.v)
  BY <1>1, <1>3, <1>4
<1>6. CASE bits = 1
  <2>1. BV(1, x.v).w = 1 /\ BV(1, x.v).v = x.v % 2 /\ x.v % 2 \in {0, 1}
    BY <1>2, OneBit
  <2>2. _sym_build_bit_to_bool(BV(1, x.v)) = Bool(x.v % 2 = 1)
    BY <2>1 DEF _sym_build_bit_to_bool, IsBitVector, Bool
  <2>3. Bool(x.v % 2 = 1) \in Booleans
    BY BoolFacts
  <2> QED
    BY <1>5, <1>6, <2>2, <2>3 DEF visitTruncInst, Truncated
<1>7. CASE bits # 1
  <2>1. BV(bits, x.v) \in Values(ByteBits)
    BY <1>2, <1>7, Widths, BVFacts
  <2> QED
    BY <1>5, <1>7, <2>1 DEF visitTruncInst, Truncated
<1> QED
  BY <1>6, <1>7

\* sext and zext
LEMMA CastOK ==
  ASSUME NEW opcode \in {"sext", "zext"}, NEW x \in Booleans \cup Values(ByteBits)
  PROVE  /\ visitCastInst(opcode, x, Bits) = Extended(opcode, x, Bits)
         /\ Extended(opcode, x, Bits) \in Ints
<1>0. Bits \in Nat /\ 1 \in Nat \ {0} /\ ByteBits \in Nat \ {0} /\ 1 + (Bits - 1) = Bits
      /\ ByteBits + (Bits - ByteBits) = Bits /\ \A v \in Int : BV(Bits, v) \in Ints
  BY Widths, BVFacts DEF Ints
<1>1. CASE x \in Booleans
  <2> DEFINE bit == _sym_build_bool_to_bit(x)
  <2>1. IsBoolean(x) /\ x.v \in {0, 1} /\ bit \in Values(1) /\ bit.w = 1 /\ bit.v = x.v
    BY <1>1, BooleanFacts DEF IsBoolean
  <2> HIDE DEF bit
  <2>2. SExt(bit, Bits - 1) = BV(Bits, SignedValue(bit)) /\ ZExt(bit, Bits - 1) = BV(Bits, bit.v)
    BY ONLY <1>0, <2>1, ExtFacts
  <2>3. SignedValue(bit) = -x.v
    <3>1. Pow2[1] = 2 /\ Pow2[0] = 1 /\ 1 - 1 = 0
      BY OneBit, PowStep
    <3> QED
      BY <2>1, <3>1 DEF SignedValue
  <2>4. visitCastInst(opcode, x, Bits) = IF opcode = "sext" THEN SExt(bit, Bits - 1) ELSE ZExt(bit, Bits - 1)
    BY <2>1 DEF visitCastInst, bit
  <2>5. Extended(opcode, x, Bits) = BV(Bits, IF opcode = "sext" THEN -x.v ELSE x.v)
    BY <2>1 DEF Extended
  <2> QED
    BY <1>0, <2>1, <2>2, <2>3, <2>4, <2>5
<1>2. CASE x \in Values(ByteBits)
  <2>1. x.w = ByteBits /\ ~IsBoolean(x) /\ x.v \in Int /\ SignedValue(x) \in Int
    BY <1>0, <1>2, ValuesFacts, SignedFacts, PowType DEF IsBoolean
  <2>2. SExt(x, Bits - ByteBits) = BV(Bits, SignedValue(x)) /\ ZExt(x, Bits - ByteBits) = BV(Bits, x.v)
    BY <1>0, <1>2, ExtFacts
  <2>3. visitCastInst(opcode, x, Bits)
          = IF opcode = "sext" THEN SExt(x, Bits - ByteBits) ELSE ZExt(x, Bits - ByteBits)
    BY <2>1 DEF visitCastInst
  <2>4. Extended(opcode, x, Bits) = BV(Bits, IF opcode = "sext" THEN SignedValue(x) ELSE x.v)
    BY <2>1 DEF Extended
  <2> QED
    BY <1>0, <2>1, <2>2, <2>3, <2>4
<1> QED
  BY <1>1, <1>2

\* Comparisons of floating-point numbers.
LEMMA CompareOK ==
  ASSUME NEW pred \in SoundPredicates, NEW a \in Floats, NEW b \in Floats
  PROVE  visitCmpInst(pred, a, b) = FloatCompare(pred, a, b)
<1>1. CASE pred \in BOOLEAN \X {"any"}
  BY <1>1 DEF visitCmpInst, FloatCompare, _sym_build_float_unordered, Bool
<1>2. CASE pred \in {TRUE} \X {"gt", "ge", "lt", "le", "eq"}
  <2>1. pred[1] = TRUE /\ pred[2] \in {"gt", "ge", "lt", "le", "eq"}
    BY <1>2
  <2>2. visitCmpInst(pred, a, b)
          = Bool(~(a.nan \/ b.nan) /\ Related(pred[2], a, b))
    BY <2>1 DEF visitCmpInst, _sym_build_float_ordered, OrderedAnd,
                _sym_build_float_unordered
  <2>3. FloatCompare(pred, a, b)
          = Bool(IF a.nan \/ b.nan THEN ~pred[1] ELSE Related(pred[2], a, b))
    BY <2>1 DEF FloatCompare
  <2> QED
    BY <2>1, <2>2, <2>3 DEF Bool
<1> QED
  BY <1>1, <1>2 DEF SoundPredicates

-----------------------------------------------------------------------------
(***************************************************************************)
(* getelementptr, for paths of any length                                  *)
(***************************************************************************)
\* A step of a path: an index is as wide as a pointer, or a narrow one that is
\* not negative.
Index(i) ==
  i \in Values(Bits) \/ (i \in Values(ByteBits) /\ i.v < Pow2[ByteBits - 1])

SoundStep(s) ==
  /\ s.offset \in Nat
  /\ ~s.struct => Index(s.index)

\* What a step adds to the address, and the expression that is built for it.
Delta(s) == IF s.struct THEN s.offset ELSE SignedValue(s.index) * s.offset

Contribution(s) ==
  IF s.struct THEN BV(Bits, s.offset)
  ELSE Mul(IF s.index.w # Bits THEN ZExt(s.index, Bits - s.index.w) ELSE s.index,
           BV(Bits, s.offset))

\* The index as an address: narrow ones are zero-extended.
LEMMA IndexOK ==
  ASSUME NEW i, Index(i)
  PROVE  /\ SignedValue(i) \in Int /\ (i.v = 0 => SignedValue(i) = 0)
         /\ (IF i.w # Bits THEN ZExt(i, Bits - i.w) ELSE i) = BV(Bits, SignedValue(i))
<1>1. CASE i \in Values(Bits)
  <2>1. i.w = Bits /\ i.v \in Int
    BY <1>1, Widths, ValuesFacts, PowType
  <2>2. /\ SignedValue(i) \in -Pow2[Bits - 1] .. Pow2[Bits - 1] - 1 /\ i = BV(Bits, SignedValue(i))
        /\ SignedValue(i) = IF i.v >= Pow2[Bits - 1] THEN i.v - Pow2[Bits] ELSE i.v
        /\ Pow2[Bits - 1] \in Nat \ {0}
    BY <1>1, Widths, SignedFacts
  <2> QED
    BY <2>1, <2>2
<1>2. CASE i \in Values(ByteBits) /\ i.v < Pow2[ByteBits - 1]
  <2>1. i.w = ByteBits /\ i.v \in Int /\ i = BV(ByteBits, i.v)
    BY <1>2, Widths, ValuesFacts, PowType
  <2>2. SignedValue(i) = i.v
    <3>1. /\ SignedValue(i) = IF i.v >= Pow2[ByteBits - 1] THEN i.v - Pow2[ByteBits] ELSE i.v
          /\ Pow2[ByteBits - 1] \in Nat \ {0}
      BY <1>2, Widths, SignedFacts
    <3> QED
      BY <1>2, <2>1, <3>1
  <2>3. ZExt(i, Bits - ByteBits) = BV(ByteBits + (Bits - ByteBits), i.v)
    BY <1>2, Widths, ExtFacts
  <2>4. ByteBits + (Bits - ByteBits) = Bits
    BY Widths
  <2>5. CASE Bits = ByteBits
    BY <2>1, <2>2, <2>5
  <2>6. CASE Bits # ByteBits
    BY <2>1, <2>2, <2>3, <2>4, <2>6
  <2> QED
    BY <2>5, <2>6
<1> QED
  BY <1>1, <1>2 DEF Index

\* The expression of a step is what it adds.
LEMMA StepOK ==
  ASSUME NEW s, SoundStep(s)
  PROVE  /\ Delta(s) \in Int /\ Contribution(s) = BV(Bits, Delta(s))
         /\ IsZero(s) => Delta(s) = 0
<1>0. Bits \in Nat /\ s.offset \in Int
  BY Widths DEF SoundStep
<1>1. CASE s.struct
  BY <1>0, <1>1 DEF Delta, Contribution, IsZero
<1>2. CASE ~s.struct
  <2> DEFINE v == SignedValue(s.index)
  <2>1. /\ v \in Int /\ (s.index.v = 0 => v = 0)
        /\ (IF s.index.w # Bits THEN ZExt(s.index, Bits - s.index.w) ELSE s.index) = BV(Bits, v)
    BY <1>2, IndexOK DEF SoundStep
  <2>2. Contribution(s) = Mul(BV(Bits, v), BV(Bits, s.offset))
    BY <1>2, <2>1 DEF Contribution
  <2>3. Delta(s) = v * s.offset
    BY <1>2 DEF Delta
  <2>4. IsZero(s) => s.index.v = 0
    BY <1>2 DEF IsZero
  <2> HIDE DEF v
  <2>5. Mul(BV(Bits, v), BV(Bits, s.offset)) = BV(Bits, v * s.offset)
    BY ONLY <1>0, <2>1, BVArith
  <2>6. v * s.offset \in Int /\ (v = 0 => v * s.offset = 0)
    BY <1>0, <2>1
  <2> QED
    BY <2>1, <2>2, <2>3, <2>4, <2>5, <2>6
<1> QED
  BY <1>1, <1>2

\* The addresses along a path, as LLVM computes them,
Along(f, p, path) ==
  f = [k \in 0 .. Len(path) |-> IF k = 0 THEN p.v ELSE f[k - 1] + Delta(path[k])]

\* and their expressions.
Built(g, p, path) ==
  g = [k \in 0 .. Len(path) |->
         IF k = 0 THEN p
         ELSE IF ~path[k].struct /\ IsZero(path[k]) THEN g[k - 1]
         ELSE Add(Contribution(path[k]), g[k - 1])]

\* Both are well-defined.
LEMMA PathsDefined ==
  ASSUME NEW p \in Ints, NEW path, Len(path) \in Nat,
         \A k \in 1 .. Len(path) : SoundStep(path[k])
  PROVE  (\E f : Along(f, p, path)) /\ (\E g : Built(g, p, path))
<1> DEFINE n == Len(path)
<1>0. p \in Values(Bits) /\ p.v \in Int /\ p = BV(Bits, p.v) /\ Bits \in Nat
  BY Widths, ValuesFacts, PowType DEF Ints
<1>1. \A k \in 1 .. n : Delta(path[k]) \in Int /\ Contribution(path[k]) = BV(Bits, Delta(path[k]))
  BY StepOK
<1>2. \E f : Along(f, p, path)
  <2> DEFINE F == [q \in (0 .. n) \X Int |-> IF q[1] = 0 THEN q[2] ELSE q[2] + Delta(path[q[1]])]
  <2>1. \A k \in 0 .. n, v \in Int :
          F[<<k, v>>] = IF k = 0 THEN v ELSE v + Delta(path[k])
    OBVIOUS
  <2>2. F \in [(0 .. n) \X Int -> Int]
    <3>1. \A q \in (0 .. n) \X Int : q[1] \in 0 .. n /\ q[2] \in Int
      OBVIOUS
    <3>2. \A q \in (0 .. n) \X Int : q[1] # 0 => Delta(path[q[1]]) \in Int
      BY <1>1, <3>1
    <3> QED
      BY <3>1, <3>2
  <2> HIDE DEF F
  <2>3. PICK h : Iterates(h, Int, 0, n, p.v, F)
    <3>1. 0 \in Int /\ n \in Int
      OBVIOUS
    <3> QED
      BY ONLY <1>0, <2>2, <3>1, Recursion, Zenon
  <2>4. h = [k \in 0 .. n |-> h[k]]
    BY <2>3 DEF Iterates
  <2>5. \A k \in 0 .. n : h[k] = IF k = 0 THEN p.v ELSE h[k - 1] + Delta(path[k])
    <3>1. \A k \in 0 .. n : k # 0 => h[k - 1] \in Int
      BY <2>3 DEF Iterates
    <3> QED
      BY <2>1, <2>3, <3>1 DEF Iterates
  <2>6. Along(h, p, path)
    BY <2>4, <2>5 DEF Along
  <2> QED
    BY <2>6
<1>3. \E g : Built(g, p, path)
  <2> DEFINE V == Values(Bits)
             Step(k, v) == IF ~path[k].struct /\ IsZero(path[k]) THEN v
                           ELSE Add(Contribution(path[k]), v)
             F == [q \in (0 .. n) \X V |-> IF q[1] = 0 THEN q[2] ELSE Step(q[1], q[2])]
  <2>1. ASSUME NEW k \in 1 .. n, NEW v \in V PROVE Step(k, v) \in V
    <3>1. v = BV(Bits, v.v) /\ v.v \in Int
      BY <1>0, ValuesFacts, PowType
    <3>2. Contribution(path[k]) = BV(Bits, Delta(path[k])) /\ Delta(path[k]) \in Int
      BY <1>1
    <3>3. Add(BV(Bits, Delta(path[k])), BV(Bits, v.v)) = BV(Bits, Delta(path[k]) + v.v)
      BY ONLY <1>0, <3>1, <3>2, BVArith
    <3>4. BV(Bits, Delta(path[k]) + v.v) \in V
      BY <1>0, <3>1, <3>2, BVFacts
    <3>5. Add(Contribution(path[k]), v) \in V
      BY ONLY <3>1, <3>2, <3>3, <3>4, Zenon
    <3> QED
      BY <3>5
  <2> HIDE DEF Step, V
  <2>2. \A k \in 0 .. n, v \in V : F[<<k, v>>] = IF k = 0 THEN v ELSE Step(k, v)
    OBVIOUS
  <2>3. F \in [(0 .. n) \X V -> V]
    <3>1. \A q \in (0 .. n) \X V : q[1] \in 0 .. n /\ q[2] \in V
      OBVIOUS
    <3>2. \A q \in (0 .. n) \X V : q[1] # 0 => Step(q[1], q[2]) \in V
      BY <2>1, <3>1
    <3> QED
      BY <3>1, <3>2
  <2> HIDE DEF F
  <2>4. PICK h : Iterates(h, V, 0, n, p, F)
    <3>1. 0 \in Int /\ n \in Int /\ p \in V
      BY <1>0 DEF V
    <3> QED
      BY ONLY <2>3, <3>1, Recursion, Zenon
  <2>5. h = [k \in 0 .. n |-> h[k]]
    BY <2>4 DEF Iterates
  <2>6. \A k \in 0 .. n : h[k] = IF k = 0 THEN p ELSE Step(k, h[k - 1])
    <3>1. \A k \in 0 .. n : k # 0 => h[k - 1] \in V
      BY <2>4 DEF Iterates
    <3> QED
      BY <2>2, <2>4, <3>1 DEF Iterates
  <2>7. Built(h, p, path)
    BY <2>5, <2>6 DEF Built, Step
  <2> QED
    BY <2>7
<1> QED
  BY <1>2, <1>3

\* Along the path, the expression is that of the address; constant zeros are
\* left out because they add nothing.
LEMMA PathsAgree ==
  ASSUME NEW p \in Ints, NEW path, Len(path) \in Nat,
         \A k \in 1 .. Len(path) : SoundStep(path[k]),
         NEW f, Along(f, p, path), NEW g, Built(g, p, path)
  PROVE  /\ \A k \in 0 .. Len(path) : f[k] \in Int /\ g[k] = BV(Bits, f[k])
         /\ (\A k \in 1 .. Len(path) : IsZero(path[k])) => f[Len(path)] = p.v
<1> DEFINE n == Len(path)
<1>0. p \in Values(Bits) /\ p.v \in Int /\ p = BV(Bits, p.v) /\ Bits \in Nat
  BY Widths, ValuesFacts, PowType DEF Ints
<1>1. ASSUME NEW k \in 1 .. n
      PROVE  /\ Delta(path[k]) \in Int /\ Contribution(path[k]) = BV(Bits, Delta(path[k]))
             /\ IsZero(path[k]) => Delta(path[k]) = 0
  BY StepOK
<1>2. /\ f[0] = p.v /\ g[0] = p
      /\ \A k \in 1 .. n : f[k] = f[k - 1] + Delta(path[k])
  <2>1. \A k \in 0 .. n : f[k] = IF k = 0 THEN p.v ELSE f[k - 1] + Delta(path[k])
    BY DEF Along
  <2>2. g[0] = p
    BY DEF Built
  <2> QED
    BY <2>1, <2>2
<1>3. \A k \in 1 .. n : g[k] = IF ~path[k].struct /\ IsZero(path[k]) THEN g[k - 1]
                               ELSE Add(Contribution(path[k]), g[k - 1])
  BY DEF Built
<1> DEFINE T == {k \in 0 .. n : ~(f[k] \in Int /\ g[k] = BV(Bits, f[k]))}
<1>4. T = {}
  <2> SUFFICES ASSUME T # {} PROVE FALSE
    OBVIOUS
  <2>0. T \in SUBSET Nat
    OBVIOUS
  <2>1. PICK k \in T : \A j \in T : k <= j
    BY ONLY <2>0, T # {}, LeastNumber
  <2>2. k # 0
    BY <1>0, <1>2
  <2>3. k \in 1 .. n /\ k - 1 \in 0 .. n /\ k - 1 \notin T
    BY <2>1, <2>2
  <2>4. f[k - 1] \in Int /\ g[k - 1] = BV(Bits, f[k - 1])
    BY <2>3
  <2>5. Delta(path[k]) \in Int /\ f[k] = f[k - 1] + Delta(path[k])
    BY <1>1, <1>2, <2>3
  <2>6. f[k] \in Int
    BY <2>4, <2>5
  <2>7. Add(BV(Bits, Delta(path[k])), BV(Bits, f[k - 1])) = BV(Bits, Delta(path[k]) + f[k - 1])
    BY ONLY <1>0, <2>4, <2>5, BVArith
  <2>8. Delta(path[k]) + f[k - 1] = f[k]
    BY <2>4, <2>5
  <2>9. Add(Contribution(path[k]), g[k - 1]) = BV(Bits, f[k])
    BY <1>1, <2>3, <2>4, <2>7, <2>8
  <2>10. IsZero(path[k]) => f[k] = f[k - 1]
    BY <1>1, <2>3, <2>4, <2>5
  <2>11. g[k] = BV(Bits, f[k])
    BY <1>3, <2>3, <2>4, <2>9, <2>10
  <2> QED
    BY <2>6, <2>11
<1>5. ASSUME \A k \in 1 .. n : IsZero(path[k]) PROVE f[n] = p.v
  <2> DEFINE U == {k \in 0 .. n : f[k] # p.v}
  <2>1. U = {}
    <3> SUFFICES ASSUME U # {} PROVE FALSE
      OBVIOUS
    <3>0. U \in SUBSET Nat
      OBVIOUS
    <3>1. PICK k \in U : \A j \in U : k <= j
      BY ONLY <3>0, U # {}, LeastNumber
    <3>2. k # 0
      BY <1>2
    <3>3. k \in 1 .. n /\ k - 1 \in 0 .. n /\ k - 1 \notin U
      BY <3>1, <3>2
    <3>4. f[k - 1] = p.v /\ f[k] = f[k - 1] + 0
      BY <1>1, <1>2, <1>5, <3>3
    <3> QED
      BY <1>0, <3>4
  <2> QED
    BY <2>1
<1> QED
  BY <1>4, <1>5

\* The expression of an address is the address.
LEMMA GetElementPtrOK ==
  ASSUME NEW p \in Ints, NEW path, Len(path) \in Nat, DOMAIN path = 1 .. Len(path),
         \A k \in 1 .. Len(path) : SoundStep(path[k])
  PROVE  /\ visitGetElementPtrInst(p, path) = ElementAddress(p, path)
         /\ ElementAddress(p, path) \in Ints
<1> DEFINE f == CHOOSE h : Along(h, p, path)
           g == CHOOSE h : Built(h, p, path)
<1>0. p \in Values(Bits) /\ p.v \in Int /\ p = BV(Bits, p.v) /\ Bits \in Nat
  BY Widths, ValuesFacts, PowType DEF Ints
<1>1. Along(f, p, path) /\ Built(g, p, path)
  BY PathsDefined
<1>2. ElementAddress(p, path) = BV(Bits, f[Len(path)])
  BY DEF ElementAddress, Along, Delta
<1>3. visitGetElementPtrInst(p, path)
        = IF \A k \in DOMAIN path : IsZero(path[k]) THEN p ELSE g[Len(path)]
  BY DEF visitGetElementPtrInst, Built, Contribution
<1> HIDE DEF f, g
<1>4. /\ \A k \in 0 .. Len(path) : f[k] \in Int /\ g[k] = BV(Bits, f[k])
      /\ (\A k \in 1 .. Len(path) : IsZero(path[k])) => f[Len(path)] = p.v
  BY <1>1, PathsAgree
<1>5. f[Len(path)] \in Int /\ g[Len(path)] = BV(Bits, f[Len(path)])
  BY <1>4
<1>6. BV(Bits, f[Len(path)]) \in Values(Bits)
  BY <1>0, <1>5, BVFacts
<1>7. CASE \A k \in DOMAIN path : IsZero(path[k])
  BY <1>0, <1>2, <1>3, <1>4, <1>6, <1>7 DEF Ints
<1>8. CASE ~(\A k \in DOMAIN path : IsZero(path[k]))
  BY <1>2, <1>3, <1>5, <1>6, <1>8 DEF Ints
<1> QED
  BY <1>7, <1>8

-----------------------------------------------------------------------------
(***************************************************************************)
(* Bytes of a number                                                       *)
(***************************************************************************)
\* 2 to the number of bits in n bytes.
BytePow(n) == Pow2[n * ByteBits]

\* The byte number i, from the least significant one.
Digit(v, i) == (v \div BytePow(i)) % Pow2[ByteBits]

\* Powers of the number of values of a byte.
LEMMA BytePowFacts ==
  /\ BytePow(0) = 1 /\ BytePow(1) = Pow2[ByteBits]
  /\ \A n \in Nat : n * ByteBits \in Nat /\ BytePow(n) \in Nat \ {0}
  /\ \A m, n \in Nat : BytePow(m + n) = BytePow(m) * BytePow(n)
<1>1. ByteBits \in Nat \ {0} /\ 0 * ByteBits = 0 /\ 1 * ByteBits = ByteBits
  BY BitsAssumption
<1>2. \A n \in Nat : n * ByteBits \in Nat
  BY <1>1
<1>3. ASSUME NEW m \in Nat, NEW n \in Nat PROVE BytePow(m + n) = BytePow(m) * BytePow(n)
  <2>1. (m + n) * ByteBits = m * ByteBits + n * ByteBits
    BY <1>1
  <2>2. Pow2[m * ByteBits + n * ByteBits] = Pow2[m * ByteBits] * Pow2[n * ByteBits]
    BY <1>2, PowSum
  <2> QED
    BY <2>1, <2>2 DEF BytePow
<1> QED
  BY <1>1, <1>2, <1>3, PowStep, PowType DEF BytePow

\* A number that is put together from two has the bytes of both.
LEMMA DigitsJoin ==
  ASSUME NEW m \in Nat, NEW t \in Nat, NEW r \in 0 .. BytePow(m) - 1
  PROVE  /\ \A j \in Nat : Digit(t * BytePow(m) + r, m + j) = Digit(t, j)
         /\ \A j \in 0 .. m - 1 : Digit(t * BytePow(m) + r, j) = Digit(r, j)
<1> DEFINE M == BytePow(m)
           v == t * BytePow(m) + r
           B == Pow2[ByteBits]
<1>1. M \in Nat \ {0} /\ r \in Int /\ v \in Int /\ B \in Nat \ {0} /\ BytePow(1) = B
  <2>1. M \in Nat \ {0} /\ B \in Nat \ {0} /\ BytePow(1) = B
    BY BytePowFacts, PowType, BitsAssumption
  <2> QED
    BY <2>1
<1>2. ASSUME NEW j \in Nat PROVE Digit(v, m + j) = Digit(t, j)
  <2> DEFINE J == BytePow(j)
             q == t \div J
             s == t % J
  <2>1. J \in Nat \ {0} /\ BytePow(m + j) = M * J
    BY BytePowFacts
  <2>2. q \in Int /\ s \in 0 .. J - 1 /\ t = J * q + s
    <3>1. t \in Int
      OBVIOUS
    <3> HIDE DEF J
    <3> QED
      BY ONLY <2>1, <3>1, DivMod DEF q, s
  <2> HIDE DEF J, q, s, M
  <2>3. v = (M * J) * q + (M * s + r)
    <3>1. t * M = M * (J * q) + M * s
      BY <1>1, <2>1, <2>2
    <3>2. M * (J * q) = (M * J) * q
      BY <1>1, <2>1, <2>2
    <3>3. v = t * M + r
      BY DEF M
    <3> QED
      BY <1>1, <2>1, <2>2, <3>1, <3>2, <3>3
  <2>4. M * s + r \in 0 .. (M * J) - 1
    <3>1. s <= J - 1 /\ s >= 0 /\ s \in Int
      BY <2>1, <2>2
    <3>2. M * s >= 0 /\ M * s \in Int
      BY <1>1, <3>1
    <3>3. M * s <= M * (J - 1)
      BY <1>1, <2>1, <3>1
    <3>4. M * (J - 1) = (M * J) - M /\ M * J \in Int
      BY <1>1, <2>1
    <3>5. r >= 0 /\ r <= M - 1
      BY DEF M
    <3> QED
      BY <1>1, <3>2, <3>3, <3>4, <3>5
  <2>5. M * J \in Nat \ {0}
    BY <1>1, <2>1
  <2>6. v \div (M * J) = q
    BY ONLY <1>1, <2>2, <2>3, <2>4, <2>5, DivUnique
  <2> QED
    BY <2>1, <2>6 DEF Digit, q, J
<1>3. ASSUME NEW j \in 0 .. m - 1 PROVE Digit(v, j) = Digit(r, j)
  <2> DEFINE J == BytePow(j)
             E == BytePow(m - j - 1)
  <2>1. /\ j \in Nat /\ m - j - 1 \in Nat /\ 1 \in Nat /\ j + 1 \in Nat
        /\ (j + 1) + (m - j - 1) = m
    OBVIOUS
  <2>2. J \in Nat \ {0} /\ E \in Nat \ {0}
    BY <2>1, BytePowFacts
  <2>3. M = (J * B) * E
    <3>1. BytePow(j + 1) = J * B
      BY ONLY <1>1, <2>1, BytePowFacts
    <3>2. BytePow((j + 1) + (m - j - 1)) = BytePow(j + 1) * E
      BY ONLY <2>1, BytePowFacts
    <3> QED
      BY <2>1, <3>1, <3>2
  <2> DEFINE k == t * E
  <2>4. k \in Int
    BY <2>2
  <2>5. v = r + J * (B * k)
    <3>1. t * M = J * (B * (t * E))
      BY <1>1, <2>2, <2>3
    <3> HIDE DEF J, B
    <3> QED
      BY <1>1, <2>2, <2>4, <3>1
  <2> HIDE DEF k, J, B, M, v
  <2>6. v \div J = (r \div J) + B * k
    <3>1. B * k \in Int
      BY <1>1, <2>4
    <3> QED
      BY ONLY <1>1, <2>2, <2>5, <3>1, ModShift
  <2>7. ((r \div J) + B * k) % B = (r \div J) % B
    <3>1. r \div J \in Int
      BY <1>1, <2>2, DivMod
    <3> QED
      BY ONLY <1>1, <2>4, <3>1, ModShift
  <2> QED
    BY <2>6, <2>7 DEF Digit, J, B
<1> QED
  BY <1>2, <1>3

\* A number below 2^(8n) is at most a byte and a number below 2^(8(n-1)).
LEMMA Split ==
  ASSUME NEW m \in Nat, NEW u \in 0 .. BytePow(m + 1) - 1
  PROVE  \E d \in 0 .. Pow2[ByteBits] - 1, r \in 0 .. BytePow(m) - 1 :
           u = d * BytePow(m) + r
<1> DEFINE M == BytePow(m)
           B == Pow2[ByteBits]
           d == u \div M
           r == u % M
<1>1. M \in Nat \ {0} /\ B \in Nat \ {0} /\ BytePow(m + 1) = M * B
  BY BytePowFacts, PowType, BitsAssumption
<1>2. u \in Int /\ u >= 0 /\ u < M * B
  BY <1>1
<1>3. d \in Int /\ r \in 0 .. M - 1 /\ u = M * d + r
  BY <1>1, <1>2, DivMod
<1> HIDE DEF M, B, d, r
<1>4. d < B
  <2> SUFFICES ASSUME d >= B PROVE FALSE
    BY <1>1, <1>3
  <2>1. M * d >= M * B
    BY <1>1, <1>3
  <2> QED
    BY <1>1, <1>2, <1>3, <2>1
<1>5. d >= 0
  <2> SUFFICES ASSUME d <= -1 PROVE FALSE
    BY <1>3
  <2>1. M * d <= M * (-1)
    BY <1>1, <1>3
  <2> QED
    BY <1>1, <1>2, <1>3, <2>1
<1>6. u = d * M + r
  BY <1>1, <1>3
<1> QED
  BY <1>1, <1>3, <1>4, <1>5, <1>6 DEF M, B

\* The byte of a small number.
LEMMA OneDigit ==
  ASSUME NEW d \in 0 .. Pow2[ByteBits] - 1
  PROVE  Digit(d, 0) = d
<1>1. Pow2[ByteBits] \in Nat \ {0} /\ BytePow(0) = 1
  BY PowType, BitsAssumption, BytePowFacts
<1>2. d \div 1 = d
  BY <1>1
<1> QED
  BY <1>1, <1>2, ModSmall DEF Digit

\* Numbers with the same bytes are equal.
LEMMA DigitsUnique ==
  \A n \in Nat : \A u, v \in 0 .. BytePow(n) - 1 :
    (\A j \in 0 .. n - 1 : Digit(u, j) = Digit(v, j)) => u = v
<1> DEFINE Same(n, u, v) == \A j \in 0 .. n - 1 : Digit(u, j) = Digit(v, j)
           T == {n \in Nat : \E u, v \in 0 .. BytePow(n) - 1 : Same(n, u, v) /\ u # v}
<1>1. T = {}
  <2> SUFFICES ASSUME T # {} PROVE FALSE
    OBVIOUS
  <2>0. T \in SUBSET Nat
    OBVIOUS
  <2>1. PICK n \in T : \A k \in T : n <= k
    BY ONLY <2>0, T # {}, LeastNumber
  <2>2. PICK u \in 0 .. BytePow(n) - 1, v \in 0 .. BytePow(n) - 1 : Same(n, u, v) /\ u # v
    OBVIOUS
  <2>3. n \in Nat
    OBVIOUS
  <2>4. n # 0
    BY <2>2, BytePowFacts
  <2> DEFINE m == n - 1
             M == BytePow(m)
  <2>5. m \in Nat /\ m + 1 = n /\ m + 0 = m /\ m \notin T
    BY <2>1, <2>3, <2>4
  <2>6. PICK d \in 0 .. Pow2[ByteBits] - 1, r \in 0 .. M - 1 : u = d * M + r
    BY <2>2, <2>5, Split
  <2>7. PICK e \in 0 .. Pow2[ByteBits] - 1, s \in 0 .. M - 1 : v = e * M + s
    BY <2>2, <2>5, Split
  <2>8. d \in Nat /\ e \in Nat /\ 0 \in Nat
    BY PowType, BitsAssumption
  <2> HIDE DEF m
  <2>9. Digit(u, m) = d /\ Digit(v, m) = e
    <3>1. Digit(d * M + r, m + 0) = Digit(d, 0) /\ Digit(e * M + s, m + 0) = Digit(e, 0)
      BY ONLY <2>5, <2>6, <2>7, <2>8, DigitsJoin
    <3> QED
      BY <2>5, <2>6, <2>7, <3>1, OneDigit
  <2>10. \A j \in 0 .. m - 1 : Digit(u, j) = Digit(r, j) /\ Digit(v, j) = Digit(s, j)
    <3>1. \A j \in 0 .. m - 1 : Digit(d * M + r, j) = Digit(r, j)
      BY ONLY <2>5, <2>6, <2>8, DigitsJoin
    <3>2. \A j \in 0 .. m - 1 : Digit(e * M + s, j) = Digit(s, j)
      BY ONLY <2>5, <2>7, <2>8, DigitsJoin
    <3> QED
      BY ONLY <2>6, <2>7, <3>1, <3>2
  <2>11. d = e
    <3>1. m \in 0 .. n - 1
      BY <2>3, <2>4, <2>5
    <3> QED
      BY <2>2, <2>9, <3>1
  <2>12. Same(m, r, s)
    <3>1. \A j \in 0 .. m - 1 : j \in 0 .. n - 1
      BY <2>3, <2>5
    <3> QED
      BY <2>2, <2>10, <3>1
  <2>13. r = s
    BY <2>5, <2>12
  <2> QED
    BY <2>2, <2>6, <2>7, <2>11, <2>13
<1> QED
  BY <1>1

\* The bit vectors of n bytes.
Bytes(n) == Values(n * ByteBits)

\* What a bit vector of bytes is.
LEMMA BytesFacts ==
  ASSUME NEW n \in Nat, NEW x \in Bytes(n)
  PROVE  /\ n * ByteBits \in Nat /\ x.w = n * ByteBits /\ x.v \in 0 .. BytePow(n) - 1
         /\ x.v \in Nat /\ x = BV(n * ByteBits, x.v) /\ BytePow(n) \in Nat \ {0}
<1>1. n * ByteBits \in Nat /\ BytePow(n) \in Nat \ {0}
  BY BytePowFacts
<1>2. x.w = n * ByteBits /\ x.v \in 0 .. BytePow(n) - 1 /\ x = BV(n * ByteBits, x.v)
  BY <1>1, ValuesFacts DEF Bytes, BytePow
<1> QED
  BY <1>1, <1>2

\* A bit vector of bytes is neither a Boolean nor the result of a failed builder.
LEMMA BytesWellFormed ==
  ASSUME NEW n \in Nat \ {0}, NEW x \in Bytes(n)
  PROVE  IsBitVector(x) /\ x.w \in Nat \ {0}
<1>1. x.w = n * ByteBits /\ ByteBits \in Nat \ {0}
  BY BytesFacts, BitsAssumption
<1>2. n * ByteBits \in Nat \ {0}
  BY <1>1
<1> QED
  BY <1>1, <1>2 DEF IsBitVector

\* A number of n bytes is a bit vector of n bytes.
LEMMA BytesBV ==
  ASSUME NEW n \in Nat, NEW v \in 0 .. BytePow(n) - 1
  PROVE  BV(n * ByteBits, v) \in Bytes(n) /\ BV(n * ByteBits, v).v = v
<1>1. n * ByteBits \in Nat /\ BytePow(n) \in Nat \ {0} /\ v \in Int
  BY BytePowFacts
<1>2. v % BytePow(n) = v
  BY <1>1, ModSmall
<1> QED
  BY <1>1, <1>2, BVFacts DEF Bytes, BytePow

\* Bit vectors with the same bytes are equal.
LEMMA BytesEqual ==
  ASSUME NEW n \in Nat, NEW x \in Bytes(n), NEW y \in Bytes(n),
         \A j \in 0 .. n - 1 : Digit(x.v, j) = Digit(y.v, j)
  PROVE  x = y
<1>1. /\ x.v \in 0 .. BytePow(n) - 1 /\ x = BV(n * ByteBits, x.v)
      /\ y.v \in 0 .. BytePow(n) - 1 /\ y = BV(n * ByteBits, y.v)
  BY BytesFacts
<1>2. x.v = y.v
  BY <1>1, DigitsUnique
<1> QED
  BY <1>1, <1>2

\* A concatenation has the bytes of its right operand, then those of its left one.
LEMMA ConcatBytes ==
  ASSUME NEW m \in Nat \ {0}, NEW n \in Nat \ {0}, NEW x \in Bytes(m), NEW y \in Bytes(n)
  PROVE  LET c == Concat(x, y)
         IN  /\ c \in Bytes(m + n)
             /\ \A j \in 0 .. n - 1 : Digit(c.v, j) = Digit(y.v, j)
             /\ \A j \in Nat : Digit(c.v, n + j) = Digit(x.v, j)
<1> DEFINE c == Concat(x, y)
           M == BytePow(m)
           N == BytePow(n)
           v == x.v * N + y.v
<1>1. /\ m \in Nat /\ n \in Nat /\ IsBitVector(x) /\ IsBitVector(y)
      /\ x.w = m * ByteBits /\ x.v \in 0 .. M - 1 /\ x.v \in Nat
      /\ y.w = n * ByteBits /\ y.v \in 0 .. N - 1 /\ M \in Nat \ {0} /\ N \in Nat \ {0}
  BY BytesFacts, BytesWellFormed
<1>2. m * ByteBits + n * ByteBits = (m + n) * ByteBits /\ m + n \in Nat
  BY <1>1, BitsAssumption
<1>3. c = BV((m + n) * ByteBits, v)
  BY <1>1, <1>2 DEF Concat, BytePow
<1>4. BytePow(m + n) = M * N
  BY <1>1, BytePowFacts
<1>5. v \in 0 .. (M * N) - 1
  <2> HIDE DEF M, N, v
  <2>0. v = x.v * N + y.v
    BY DEF v
  <2>1. x.v * N >= 0 /\ x.v * N \in Int
    BY <1>1
  <2>2. x.v * N <= (M - 1) * N
    BY <1>1
  <2>3. (M - 1) * N = M * N - N /\ M * N \in Int
    BY <1>1
  <2> QED
    BY <1>1, <2>0, <2>1, <2>2, <2>3
<1>6. c \in Bytes(m + n) /\ c.v = v
  <2> HIDE DEF v, c, M, N
  <2>1. v \in 0 .. BytePow(m + n) - 1
    BY <1>4, <1>5
  <2> QED
    BY <1>2, <1>3, <2>1, BytesBV
<1>7. /\ \A j \in Nat : Digit(x.v * N + y.v, n + j) = Digit(x.v, j)
      /\ \A j \in 0 .. n - 1 : Digit(x.v * N + y.v, j) = Digit(y.v, j)
  BY ONLY <1>1, DigitsJoin
<1> HIDE DEF c
<1> QED
  BY <1>6, <1>7 DEF c

\* An extraction takes some of the bytes.
LEMMA ExtractBytes ==
  ASSUME NEW n \in Nat, NEW x \in Bytes(n), NEW lo \in Nat, NEW len \in Nat \ {0},
         lo + len <= n
  PROVE  LET y == Extract(x, (lo + len) * ByteBits - 1, lo * ByteBits)
         IN  /\ y \in Bytes(len)
             /\ \A j \in 0 .. len - 1 : Digit(y.v, j) = Digit(x.v, lo + j)
<1> DEFINE hi == (lo + len) * ByteBits - 1
           y == Extract(x, hi, lo * ByteBits)
           L == BytePow(lo)
           P == BytePow(len)
           q == x.v \div L
           r == x.v % L
           p == q \div P
           s == q % P
<1>1. x.v \in Nat /\ L \in Nat \ {0} /\ P \in Nat \ {0} /\ len \in Nat /\ len * ByteBits \in Nat
  BY BytesFacts, BytePowFacts
<1>2. /\ hi \in Nat /\ lo * ByteBits \in Nat /\ n * ByteBits \in Nat
      /\ lo * ByteBits <= hi /\ hi < n * ByteBits
      /\ hi - lo * ByteBits + 1 = len * ByteBits
  <2>1. ByteBits \in Nat \ {0}
    BY BitsAssumption
  <2>2. (lo + len) * ByteBits <= n * ByteBits
    BY <2>1
  <2>3. (lo + len) * ByteBits = lo * ByteBits + len * ByteBits
    BY <2>1
  <2>4. lo * ByteBits \in Nat /\ len * ByteBits \in Nat \ {0} /\ n * ByteBits \in Nat
    BY <2>1
  <2> QED
    BY <2>2, <2>3, <2>4
<1>3. y = BV(len * ByteBits, q)
  <2>1. x \in Values(n * ByteBits)
    BY DEF Bytes
  <2> HIDE DEF hi
  <2>2. y = BV(hi - lo * ByteBits + 1, x.v \div Pow2[lo * ByteBits])
    BY ONLY <1>2, <2>1, ExtractFacts DEF y
  <2> QED
    BY <1>2, <2>2 DEF BytePow
<1> HIDE DEF hi, y, L, P
<1>4. q \in Nat /\ r \in 0 .. L - 1 /\ x.v = q * L + r
  <2>1. x.v \in Int /\ x.v >= 0
    BY <1>1
  <2>2. q \in Int /\ r \in 0 .. L - 1 /\ x.v = L * q + r
    BY ONLY <1>1, <2>1, DivMod DEF q, r
  <2> HIDE DEF q, r
  <2>3. q >= 0
    <3> SUFFICES ASSUME q <= -1 PROVE FALSE
      BY <2>2
    <3>1. L * q <= L * (-1)
      BY <1>1, <2>2
    <3> QED
      BY <1>1, <2>1, <2>2, <3>1
  <2> QED
    BY <1>1, <2>2, <2>3
<1> HIDE DEF q, r
<1>5. p \in Nat /\ s \in 0 .. P - 1 /\ q = p * P + s
  <2>1. q \in Int /\ q >= 0
    BY <1>4
  <2>2. p \in Int /\ s \in 0 .. P - 1 /\ q = P * p + s
    BY ONLY <1>1, <2>1, DivMod DEF p, s
  <2> HIDE DEF p, s
  <2>3. p >= 0
    <3> SUFFICES ASSUME p <= -1 PROVE FALSE
      BY <2>2
    <3>1. P * p <= P * (-1)
      BY <1>1, <2>2
    <3> QED
      BY <1>1, <2>1, <2>2, <3>1
  <2> QED
    BY <1>1, <2>2, <2>3
<1>6. y \in Bytes(len) /\ y.v = s
  <2>1. q \in Int
    BY <1>4
  <2> QED
    BY <1>1, <1>3, <2>1, BVFacts DEF Bytes, BytePow, P, s
<1> HIDE DEF p, s
<1>7. \A j \in Nat : Digit(q * L + r, lo + j) = Digit(q, j)
  BY ONLY <1>4, lo \in Nat, DigitsJoin DEF L
<1>8. \A j \in 0 .. len - 1 : Digit(p * P + s, j) = Digit(s, j)
  BY ONLY <1>1, <1>5, DigitsJoin DEF P
<1>9. \A j \in 0 .. len - 1 : j \in Nat
  OBVIOUS
<1>10. \A j \in 0 .. len - 1 : Digit(y.v, j) = Digit(x.v, lo + j)
  BY ONLY <1>4, <1>5, <1>6, <1>7, <1>8, <1>9
<1> QED
  BY <1>6, <1>10 DEF y, hi

\* A byte of an aggregate; the first one is the most significant.
LEMMA ByteAtFacts ==
  ASSUME NEW n \in Nat, NEW x \in Bytes(n), NEW k \in 0 .. n - 1
  PROVE  ByteAt(x, k) \in Bytes(1) /\ Digit(ByteAt(x, k).v, 0) = Digit(x.v, n - 1 - k)
<1> DEFINE lo == n - 1 - k
<1>1. lo \in Nat /\ 1 \in Nat \ {0} /\ lo + 1 <= n /\ 0 \in 0 .. 1 - 1 /\ lo + 0 = lo
  OBVIOUS
<1>2. x.w = n * ByteBits /\ ByteBits \in Nat \ {0}
  BY BytesFacts, BitsAssumption
<1>3. /\ n * ByteBits - k * ByteBits - 1 = (lo + 1) * ByteBits - 1
      /\ n * ByteBits - (k + 1) * ByteBits = lo * ByteBits
  BY <1>2
<1>4. ByteAt(x, k) = Extract(x, (lo + 1) * ByteBits - 1, lo * ByteBits)
  BY <1>2, <1>3 DEF ByteAt
<1> HIDE DEF lo
<1>5. ByteAt(x, k) \in Bytes(1) /\ \A j \in 0 .. 1 - 1 : Digit(ByteAt(x, k).v, j) = Digit(x.v, lo + j)
  BY <1>1, <1>4, ExtractBytes
<1> QED
  BY <1>1, <1>5 DEF lo

\* Members that keep their order of bytes.
LEMMA ExtractInOrder ==
  ASSUME NEW n \in Nat, NEW x \in Bytes(n), NEW offset \in Nat, NEW len \in Nat \ {0},
         offset + len <= n
  PROVE  LET y == _sym_build_extract(x, offset, len, FALSE)
         IN  /\ y \in Bytes(len)
             /\ \A j \in 0 .. len - 1 : Digit(y.v, j) = Digit(x.v, (n - (offset + len)) + j)
<1> DEFINE lo == n - (offset + len)
           y == _sym_build_extract(x, offset, len, FALSE)
<1>1. lo \in Nat /\ lo + len <= n
  OBVIOUS
<1>2. x.w = n * ByteBits /\ ByteBits \in Nat \ {0}
  BY BytesFacts, BitsAssumption
<1>3. /\ n * ByteBits - offset * ByteBits - 1 = (lo + len) * ByteBits - 1
      /\ n * ByteBits - (offset + len) * ByteBits = lo * ByteBits
  BY <1>2
<1>4. (n * ByteBits) % ByteBits = 0
  <2>1. 0 + ByteBits * n = n * ByteBits /\ 0 \in Int /\ n \in Int
    BY <1>2
  <2>2. (0 + ByteBits * n) % ByteBits = 0 % ByteBits
    BY ONLY <1>2, <2>1, ModShift
  <2>3. 0 % ByteBits = 0
    BY <1>2
  <2> QED
    BY <2>1, <2>2, <2>3
<1>5. y = Extract(x, (lo + len) * ByteBits - 1, lo * ByteBits)
  <2>1. IsBitVector(x)
    BY BytesWellFormed
  <2> QED
    BY <1>2, <1>3, <1>4, <2>1 DEF _sym_build_extract
<1> HIDE DEF lo, y
<1>6. y \in Bytes(len) /\ \A j \in 0 .. len - 1 : Digit(y.v, j) = Digit(x.v, lo + j)
  BY <1>1, <1>5, ExtractBytes
<1> QED
  BY <1>6 DEF lo, y

-----------------------------------------------------------------------------
(***************************************************************************)
(* Swapped bytes                                                           *)
(***************************************************************************)
\* The bytes of a member that have been put in front of one another.
Reversal(h, x, offset, len) ==
  h = [i \in 1 .. len |-> IF i = 1 THEN ByteAt(x, offset)
                                   ELSE Concat(ByteAt(x, offset + i - 1), h[i - 1])]

\* They are well-defined.
LEMMA ReversalDefined ==
  ASSUME NEW n \in Nat, NEW x \in Bytes(n), NEW offset \in Nat, NEW len \in Nat \ {0},
         offset + len <= n
  PROVE  \E h : Reversal(h, x, offset, len)
<1> DEFINE V == UNION {Bytes(k) : k \in Nat \ {0}}
           Step(i, v) == Concat(ByteAt(x, offset + i - 1), v)
           F == [q \in (1 .. len) \X V |-> Step(q[1], q[2])]
<1>1. \A i \in 1 .. len : ByteAt(x, offset + i - 1) \in Bytes(1)
  <2>1. \A i \in 1 .. len : offset + i - 1 \in 0 .. n - 1
    OBVIOUS
  <2> QED
    BY <2>1, ByteAtFacts
<1>2. ASSUME NEW i \in 1 .. len, NEW v \in V PROVE Step(i, v) \in V
  <2>1. PICK k \in Nat \ {0} : v \in Bytes(k)
    OBVIOUS
  <2>2. 1 \in Nat \ {0} /\ 1 + k \in Nat \ {0}
    OBVIOUS
  <2>3. Step(i, v) \in Bytes(1 + k)
    BY <1>1, <2>1, <2>2, ConcatBytes
  <2> QED
    BY <2>2, <2>3
<1>3. ByteAt(x, offset) \in V
  <2>1. 1 \in 1 .. len /\ offset + 1 - 1 = offset /\ 1 \in Nat \ {0}
    OBVIOUS
  <2>2. ByteAt(x, offset) \in Bytes(1)
    BY <1>1, <2>1
  <2> QED
    BY <2>1, <2>2
<1> HIDE DEF V, Step
<1>4. \A i \in 1 .. len, v \in V : F[<<i, v>>] = Step(i, v)
  OBVIOUS
<1>5. F \in [(1 .. len) \X V -> V]
  <2>1. \A q \in (1 .. len) \X V : q[1] \in 1 .. len /\ q[2] \in V
    OBVIOUS
  <2>2. \A q \in (1 .. len) \X V : Step(q[1], q[2]) \in V
    BY <1>2, <2>1
  <2> QED
    BY <2>2
<1> HIDE DEF F
<1>6. PICK h : Iterates(h, V, 1, len, ByteAt(x, offset), F)
  <2>1. 1 \in Int /\ len \in Int
    OBVIOUS
  <2> QED
    BY ONLY <1>3, <1>5, <2>1, Recursion, Zenon
<1>7. h = [i \in 1 .. len |-> h[i]]
  BY <1>6 DEF Iterates
<1>8. \A i \in 1 .. len : h[i] = IF i = 1 THEN ByteAt(x, offset) ELSE Step(i, h[i - 1])
  <2>1. \A i \in 1 .. len : i # 1 => h[i - 1] \in V
    BY <1>6 DEF Iterates
  <2> QED
    BY <1>4, <1>6, <2>1 DEF Iterates
<1>9. Reversal(h, x, offset, len)
  BY <1>7, <1>8 DEF Reversal, Step
<1> QED
  BY <1>9

\* The bytes of a member in reverse.
LEMMA ExtractSwapped ==
  ASSUME NEW n \in Nat, NEW x \in Bytes(n), NEW offset \in Nat, NEW len \in Nat \ {0},
         offset + len <= n
  PROVE  LET y == _sym_build_extract(x, offset, len, TRUE)
         IN  /\ y \in Bytes(len)
             /\ \A j \in 0 .. len - 1 : Digit(y.v, j) = Digit(x.v, n - 1 - (offset + j))
<1> DEFINE h == CHOOSE f : Reversal(f, x, offset, len)
           y == _sym_build_extract(x, offset, len, TRUE)
           Swapped(i, v) == /\ v \in Bytes(i)
                            /\ \A j \in 0 .. i - 1 : Digit(v.v, j) = Digit(x.v, n - 1 - (offset + j))
           T == {i \in 1 .. len : ~Swapped(i, h[i])}
<1>1. Reversal(h, x, offset, len)
  BY ReversalDefined
<1>2. x.w = n * ByteBits /\ (n * ByteBits) % ByteBits = 0
  <2>1. x.w = n * ByteBits /\ ByteBits \in Nat \ {0}
    BY BytesFacts, BitsAssumption
  <2>2. 0 + ByteBits * n = n * ByteBits /\ 0 \in Int /\ n \in Int /\ 0 % ByteBits = 0
    BY <2>1
  <2>3. (0 + ByteBits * n) % ByteBits = 0 % ByteBits
    BY ONLY <2>1, <2>2, ModShift
  <2> QED
    BY <2>1, <2>2, <2>3
<1>3. y = h[len]
  <2>1. IsBitVector(x)
    BY BytesWellFormed
  <2> QED
    BY <1>2, <2>1 DEF _sym_build_extract, Reversal
<1> HIDE DEF h
<1>4. \A i \in 1 .. len : h[i] = IF i = 1 THEN ByteAt(x, offset)
                                 ELSE Concat(ByteAt(x, offset + i - 1), h[i - 1])
  BY <1>1 DEF Reversal
<1>5. T = {}
  <2> SUFFICES ASSUME T # {} PROVE FALSE
    OBVIOUS
  <2>0. T \in SUBSET Nat
    OBVIOUS
  <2>1. PICK i \in T : \A k \in T : i <= k
    BY ONLY <2>0, T # {}, LeastNumber
  <2>2. i \in 1 .. len /\ ~Swapped(i, h[i])
    OBVIOUS
  <2> DEFINE c == ByteAt(x, offset + i - 1)
  <2>3. c \in Bytes(1) /\ Digit(c.v, 0) = Digit(x.v, n - 1 - (offset + (i - 1)))
    <3>1. offset + i - 1 \in 0 .. n - 1 /\ offset + i - 1 = offset + (i - 1)
      BY <2>2
    <3> QED
      BY <3>1, ByteAtFacts
  <2>4. i # 1
    <3> SUFFICES ASSUME i = 1 PROVE FALSE
      OBVIOUS
    <3>1. offset + i - 1 = offset /\ 0 .. i - 1 = {0} /\ i - 1 = 0
      OBVIOUS
    <3>2. h[i] = c
      BY <1>4, <2>2, <3>1
    <3>3. Swapped(i, c)
      BY <2>3, <3>1
    <3> QED
      BY <2>2, <3>2, <3>3
  <2>5. i - 1 \in 1 .. len /\ i - 1 \in Nat \ {0} /\ i - 1 \notin T /\ 1 + (i - 1) = i
    BY <2>1, <2>2, <2>4
  <2>6. Swapped(i - 1, h[i - 1])
    BY <2>5
  <2> DEFINE g == h[i - 1]
             k == i - 1
  <2>7. h[i] = Concat(c, g)
    BY <1>4, <2>2, <2>4
  <2> HIDE DEF c, g, T, k
  <2>8. /\ Concat(c, g) \in Bytes(1 + k)
        /\ \A j \in 0 .. k - 1 : Digit(Concat(c, g).v, j) = Digit(g.v, j)
        /\ \A j \in Nat : Digit(Concat(c, g).v, k + j) = Digit(c.v, j)
    <3>1. k \in Nat \ {0} /\ 1 \in Nat \ {0} /\ g \in Bytes(k) /\ c \in Bytes(1)
      BY <2>3, <2>5, <2>6 DEF k, g
    <3>2. Concat(c, g) \in Bytes(1 + k)
      BY ONLY <3>1, ConcatBytes
    <3>3. \A j \in 0 .. k - 1 : Digit(Concat(c, g).v, j) = Digit(g.v, j)
      BY ONLY <3>1, ConcatBytes
    <3>4. \A j \in Nat : Digit(Concat(c, g).v, k + j) = Digit(c.v, j)
      BY ONLY <3>1, ConcatBytes
    <3> QED
      BY ONLY <3>2, <3>3, <3>4
  <2>9. Digit(Concat(c, g).v, i - 1) = Digit(x.v, n - 1 - (offset + (i - 1)))
    <3>1. Digit(Concat(c, g).v, k + 0) = Digit(c.v, 0) /\ k + 0 = i - 1
      BY <2>5, <2>8 DEF k
    <3> QED
      BY <2>3, <3>1
  <2>10. \A j \in 0 .. (i - 1) - 1 : Digit(Concat(c, g).v, j) = Digit(x.v, n - 1 - (offset + j))
    BY <2>6, <2>8 DEF k, g
  <2>11. \A j \in 0 .. i - 1 : j = i - 1 \/ j \in 0 .. (i - 1) - 1
    BY <2>2
  <2>12. Swapped(i, Concat(c, g))
    BY <2>5, <2>8, <2>9, <2>10, <2>11 DEF k
  <2> QED
    BY <2>2, <2>7, <2>12
<1>6. Swapped(len, h[len])
  <2>1. len \in 1 .. len
    OBVIOUS
  <2> QED
    BY <1>5, <2>1
<1> HIDE DEF y
<1> QED
  BY <1>3, <1>6 DEF y

\* _sym_build_bswap reverses all bytes.
LEMMA SwapFacts ==
  ASSUME NEW n \in Nat \ {0}, n % 2 = 0, NEW x \in Bytes(n)
  PROVE  /\ _sym_build_bswap(x) \in Bytes(n)
         /\ \A j \in 0 .. n - 1 : Digit(_sym_build_bswap(x).v, j) = Digit(x.v, n - 1 - j)
<1>1. x.w = n * ByteBits /\ ByteBits \in Nat \ {0} /\ 2 * ByteBits \in Nat \ {0}
  BY BytesFacts, BitsAssumption
<1>2. (n * ByteBits) % (2 * ByteBits) = 0
  <2>1. n \div 2 \in Int /\ n = 2 * (n \div 2)
    OBVIOUS
  <2>2. n * ByteBits = 0 + (2 * ByteBits) * (n \div 2)
    <3> DEFINE q == n \div 2
    <3>1. q \in Int /\ n = 2 * q
      BY <2>1
    <3> HIDE DEF q
    <3>2. n * ByteBits = 0 + (2 * ByteBits) * q
      BY <1>1, <3>1
    <3> QED
      BY <3>2 DEF q
  <2>3. (0 + (2 * ByteBits) * (n \div 2)) % (2 * ByteBits) = 0 % (2 * ByteBits)
    <3> DEFINE d == 2 * ByteBits
               q == n \div 2
    <3>1. d \in Nat \ {0} /\ q \in Int /\ 0 \in Int
      BY <1>1, <2>1
    <3> HIDE DEF d, q
    <3>2. (0 + d * q) % d = 0 % d
      BY <3>1, ModShift
    <3> QED
      BY <3>2 DEF d, q
  <2>4. 0 % (2 * ByteBits) = 0
    BY <1>1
  <2> QED
    BY <2>2, <2>3, <2>4
<1>3. (n * ByteBits) \div ByteBits = n
  <2>1. n * ByteBits = ByteBits * n + 0 /\ 0 \in 0 .. ByteBits - 1 /\ n * ByteBits \in Int
    BY <1>1
  <2> QED
    BY <1>1, <2>1, DivUnique
<1>4. _sym_build_bswap(x) = _sym_build_extract(x, 0, n, TRUE)
  <2>1. IsBitVector(x)
    BY BytesWellFormed
  <2> QED
    BY <1>1, <1>2, <1>3, <2>1 DEF _sym_build_bswap
<1>5. n \in Nat /\ 0 \in Nat /\ 0 + n <= n /\ \A j \in 0 .. n - 1 : 0 + j = j
  OBVIOUS
<1>6. /\ _sym_build_extract(x, 0, n, TRUE) \in Bytes(n)
      /\ \A j \in 0 .. n - 1 : Digit(_sym_build_extract(x, 0, n, TRUE).v, j) = Digit(x.v, n - 1 - (0 + j))
  BY <1>5, ExtractSwapped
<1> QED
  BY <1>4, <1>5, <1>6

\* The number that has been read after k bytes of x, most significant first.
Received(h, x, n) ==
  h = [k \in 0 .. n |-> IF k = 0 THEN 0 ELSE h[k - 1] + Digit(x.v, k - 1) * BytePow(n - k)]

\* It is well-defined.
LEMMA ReceivedDefined ==
  ASSUME NEW n \in Nat, NEW x \in Bytes(n)
  PROVE  \E h : Received(h, x, n)
<1> DEFINE Part(k) == Digit(x.v, k - 1) * BytePow(n - k)
           F == [q \in (0 .. n) \X Int |-> IF q[1] = 0 THEN q[2] ELSE q[2] + Part(q[1])]
<1>1. ASSUME NEW k \in 1 .. n PROVE Part(k) \in Int
  <2>1. n - k \in Nat /\ k - 1 \in Nat /\ x.v \in Int /\ Pow2[ByteBits] \in Nat \ {0}
    BY BytesFacts, PowType, BitsAssumption
  <2>2. BytePow(n - k) \in Nat /\ BytePow(k - 1) \in Nat \ {0}
    BY <2>1, BytePowFacts
  <2>3. x.v \div BytePow(k - 1) \in Int
    BY <2>1, <2>2, DivMod
  <2>4. Digit(x.v, k - 1) \in Int
    BY <2>1, <2>3, DivMod DEF Digit
  <2> QED
    BY <2>2, <2>4
<1> HIDE DEF Part
<1>2. \A k \in 0 .. n, v \in Int : F[<<k, v>>] = IF k = 0 THEN v ELSE v + Part(k)
  OBVIOUS
<1>3. F \in [(0 .. n) \X Int -> Int]
  <2>1. \A q \in (0 .. n) \X Int : q[1] \in 0 .. n /\ q[2] \in Int
    OBVIOUS
  <2>2. \A q \in (0 .. n) \X Int : q[1] # 0 => Part(q[1]) \in Int
    BY <1>1, <2>1
  <2> QED
    BY <2>1, <2>2
<1> HIDE DEF F
<1>4. PICK h : Iterates(h, Int, 0, n, 0, F)
  <2>1. 0 \in Int /\ n \in Int
    OBVIOUS
  <2> QED
    BY ONLY <1>3, <2>1, Recursion, Zenon
<1>5. h = [k \in 0 .. n |-> h[k]]
  BY <1>4 DEF Iterates
<1>6. \A k \in 0 .. n : h[k] = IF k = 0 THEN 0 ELSE h[k - 1] + Part(k)
  <2>1. \A k \in 0 .. n : k # 0 => h[k - 1] \in Int
    BY <1>4 DEF Iterates
  <2> QED
    BY <1>2, <1>4, <2>1 DEF Iterates
<1>7. Received(h, x, n)
  BY <1>5, <1>6 DEF Received, Part
<1> QED
  BY <1>7

\* One more byte makes the number longer at its end.
LEMMA AppendByte ==
  ASSUME NEW k \in Nat, NEW W \in 0 .. BytePow(k) - 1, NEW d \in 0 .. Pow2[ByteBits] - 1
  PROVE  LET U == W * Pow2[ByteBits] + d
         IN  /\ U \in 0 .. BytePow(k + 1) - 1
             /\ Digit(U, 0) = d
             /\ \A j \in Nat : Digit(U, 1 + j) = Digit(W, j)
<1> DEFINE B == Pow2[ByteBits]
           K == BytePow(k)
           U == W * B + d
<1>1. /\ K \in Nat \ {0} /\ B \in Nat \ {0} /\ BytePow(1) = B /\ BytePow(k + 1) = K * B
      /\ W \in Nat /\ d \in Nat
  <2>1. K \in Nat \ {0} /\ B \in Nat \ {0} /\ BytePow(1) = B /\ BytePow(k + 1) = K * BytePow(1)
    BY BytePowFacts, PowType, BitsAssumption
  <2> QED
    BY <2>1
<1>2. U \in 0 .. BytePow(k + 1) - 1
  <2> HIDE DEF B, K, U
  <2>0. U = W * B + d /\ d <= B - 1 /\ W <= K - 1
    BY <1>1 DEF U, B, K
  <2>1. W * B >= 0 /\ W * B \in Int
    BY <1>1
  <2>2. W * B <= (K - 1) * B
    BY <1>1, <2>0
  <2>3. (K - 1) * B = K * B - B /\ K * B \in Int
    BY <1>1
  <2> QED
    BY <1>1, <2>0, <2>1, <2>2, <2>3
<1>3. /\ \A j \in Nat : Digit(W * BytePow(1) + d, 1 + j) = Digit(W, j)
      /\ \A j \in 0 .. 1 - 1 : Digit(W * BytePow(1) + d, j) = Digit(d, j)
  <2>1. 1 \in Nat /\ d \in 0 .. BytePow(1) - 1 /\ W \in Nat
    BY <1>1
  <2> QED
    BY ONLY <2>1, DigitsJoin
<1>4. 0 \in 0 .. 1 - 1 /\ Digit(d, 0) = d
  BY OneDigit
<1> QED
  BY <1>1, <1>2, <1>3, <1>4

\* The number is the one whose bytes are those of x in reverse.
LEMMA ReceivedReversed ==
  ASSUME NEW n \in Nat, NEW x \in Bytes(n), NEW h, Received(h, x, n)
  PROVE  /\ h[n] \in 0 .. BytePow(n) - 1
         /\ \A j \in 0 .. n - 1 : Digit(h[n], j) = Digit(x.v, n - 1 - j)
<1> DEFINE B == Pow2[ByteBits]
           Rev(W, k) == \A j \in 0 .. k - 1 : Digit(W, j) = Digit(x.v, k - 1 - j)
           Read(k) == \E W \in 0 .. BytePow(k) - 1 : h[k] = W * BytePow(n - k) /\ Rev(W, k)
           T == {k \in 0 .. n : ~Read(k)}
<1>0. \A k \in 0 .. n : h[k] = IF k = 0 THEN 0 ELSE h[k - 1] + Digit(x.v, k - 1) * BytePow(n - k)
  BY DEF Received
<1>1. B \in Nat \ {0} /\ x.v \in Int
  BY BytesFacts, PowType, BitsAssumption
<1>2. T = {}
  <2> SUFFICES ASSUME T # {} PROVE FALSE
    OBVIOUS
  <2>0. T \in SUBSET Nat
    OBVIOUS
  <2>1. PICK k \in T : \A i \in T : k <= i
    BY ONLY <2>0, T # {}, LeastNumber
  <2>2. k \in 0 .. n /\ ~Read(k)
    OBVIOUS
  <2>3. k # 0
    <3> SUFFICES ASSUME k = 0 PROVE FALSE
      OBVIOUS
    <3>1. 0 \in 0 .. BytePow(k) - 1 /\ n - k \in Nat
      BY BytePowFacts
    <3>2. BytePow(n - k) \in Nat
      BY <3>1, BytePowFacts
    <3>3. h[k] = 0 * BytePow(n - k)
      BY <1>0, <2>2, <3>2
    <3>4. Rev(0, k)
      OBVIOUS
    <3> QED
      BY <2>2, <3>1, <3>3, <3>4
  <2> DEFINE i == k - 1
  <2>4. /\ i \in 0 .. n /\ i \in Nat /\ i \notin T /\ i + 1 = k
        /\ n - k \in Nat /\ (n - k) + 1 = n - i /\ 1 \in Nat
    BY <2>1, <2>2, <2>3
  <2>5. PICK W \in 0 .. BytePow(i) - 1 : h[i] = W * BytePow(n - i) /\ Rev(W, i)
    BY <2>4
  <2> DEFINE d == Digit(x.v, i)
             P == BytePow(n - k)
             U == W * B + d
  <2>6. d \in 0 .. B - 1 /\ d \in Int /\ P \in Nat \ {0} /\ W \in Int
    <3>1. BytePow(i) \in Nat \ {0} /\ P \in Nat \ {0}
      BY <2>4, BytePowFacts
    <3>2. x.v \div BytePow(i) \in Int
      BY <1>1, <3>1, DivMod
    <3>3. d \in 0 .. B - 1
      BY <1>1, <3>2, DivMod DEF Digit
    <3> QED
      BY <1>1, <3>1, <3>3
  <2>7. h[k] = h[i] + d * P
    BY <1>0, <2>2, <2>3
  <2>8. BytePow(n - i) = P * B
    <3>1. BytePow((n - k) + 1) = P * BytePow(1) /\ BytePow(1) = B
      BY ONLY <2>4, BytePowFacts
    <3> QED
      BY <2>4, <3>1
  <2> HIDE DEF T, i, d, P, U, B
  <2>9. U \in 0 .. BytePow(k) - 1 /\ Digit(U, 0) = d /\ \A j \in Nat : Digit(U, 1 + j) = Digit(W, j)
    <3>1. U \in 0 .. BytePow(i + 1) - 1 /\ Digit(U, 0) = d
      BY <2>4, <2>5, <2>6, AppendByte DEF U, B
    <3>2. \A j \in Nat : Digit(U, 1 + j) = Digit(W, j)
      BY <2>4, <2>5, <2>6, AppendByte DEF U, B
    <3> QED
      BY <2>4, <3>1, <3>2
  <2>10. h[k] = U * P
    <3>1. h[i] = W * (P * B)
      BY <2>5, <2>8
    <3>2. W * (P * B) + d * P = (W * B + d) * P
      BY <1>1, <2>6
    <3> QED
      BY <2>7, <3>1, <3>2 DEF U
  <2>11. Rev(U, k)
    <3> SUFFICES ASSUME NEW j \in 0 .. k - 1 PROVE Digit(U, j) = Digit(x.v, k - 1 - j)
      OBVIOUS
    <3>1. CASE j = 0
      BY <2>2, <2>9, <3>1 DEF i, d
    <3>2. CASE j # 0
      <4>1. /\ j - 1 \in Nat /\ j - 1 \in 0 .. i - 1 /\ 1 + (j - 1) = j
            /\ i - 1 - (j - 1) = k - 1 - j
        BY <2>2, <3>2 DEF i
      <4>2. Digit(U, 1 + (j - 1)) = Digit(W, j - 1)
        BY <2>9, <4>1
      <4>3. Digit(W, j - 1) = Digit(x.v, i - 1 - (j - 1))
        BY <2>5, <4>1
      <4> QED
        BY <4>1, <4>2, <4>3
    <3> QED
      BY <3>1, <3>2
  <2> QED
    BY <2>2, <2>9, <2>10, <2>11 DEF P
<1>3. PICK W \in 0 .. BytePow(n) - 1 : h[n] = W * BytePow(n - n) /\ Rev(W, n)
  <2>1. n \in 0 .. n
    OBVIOUS
  <2> QED
    BY <1>2, <2>1
<1>4. h[n] = W
  <2>1. n - n = 0 /\ W \in Int /\ BytePow(0) = 1
    BY BytePowFacts
  <2> QED
    BY <1>3, <2>1
<1> QED
  BY <1>3, <1>4

\* The number of bytes in an integer.
IntBytes == Bits \div ByteBits

\* Integers are bit vectors of bytes.
LEMMA IntBytesFacts ==
  /\ Bits = IntBytes * ByteBits /\ IntBytes \in Nat \ {0} /\ Ints = Bytes(IntBytes)
  /\ Bits % (2 * ByteBits) = 0 => IntBytes % 2 = 0 /\ IntBytes >= 2
<1>1. /\ Bits = IntBytes * ByteBits /\ IntBytes \in Nat \ {0} /\ ByteBits \in Nat \ {0}
      /\ Bits \in Nat
  BY Widths DEF IntBytes
<1>2. ASSUME Bits % (2 * ByteBits) = 0 PROVE IntBytes % 2 = 0 /\ IntBytes >= 2
  <2> DEFINE d == 2 * ByteBits
             q == Bits \div d
  <2>1. d \in Nat \ {0} /\ Bits \in Int /\ Bits % d = 0
    BY <1>1, <1>2
  <2> HIDE DEF d
  <2>2. q \in Int /\ Bits = d * q + 0
    BY <2>1, DivMod
  <2> HIDE DEF q
  <2>3. IntBytes * ByteBits = (2 * q) * ByteBits
    BY <1>1, <2>1, <2>2 DEF d
  <2>4. IntBytes = 2 * q
    <3>1. 2 * q \in Int /\ IntBytes \in Int /\ (IntBytes - 2 * q) * ByteBits = 0
      BY <1>1, <2>2, <2>3
    <3> QED
      BY <1>1, <3>1
  <2> QED
    BY <1>1, <2>2, <2>4
<1> QED
  BY <1>1, <1>2 DEF Ints, Bytes

\* ntohl: the expression is what the function computes.
LEMMA NtohlOK ==
  ASSUME LittleEndian, Bits % (2 * ByteBits) = 0, NEW x \in Ints
  PROVE  ntohl(x) = FromNetwork(x) /\ FromNetwork(x) \in Ints
<1> DEFINE n == IntBytes
           h == CHOOSE f : Received(f, x, n)
           y == FromNetwork(x)
<1>1. n \in Nat \ {0} /\ n % 2 = 0 /\ x \in Bytes(n) /\ n \in Nat
  BY IntBytesFacts
<1>2. Received(h, x, n)
  BY <1>1, ReceivedDefined
<1>3. x.w = n * ByteBits /\ x.w = Bits
  BY <1>1, BytesFacts, IntBytesFacts
<1>4. y = BV(n * ByteBits, h[n])
  <2>1. x.w \div ByteBits = n
    BY <1>3 DEF IntBytes
  <2> HIDE DEF n
  <2> QED
    BY <1>3, <2>1 DEF FromNetwork, Received, Digit, BytePow
<1> HIDE DEF h, n, y
<1>5. h[n] \in 0 .. BytePow(n) - 1 /\ \A j \in 0 .. n - 1 : Digit(h[n], j) = Digit(x.v, n - 1 - j)
  BY <1>1, <1>2, ReceivedReversed
<1>6. y \in Bytes(n) /\ y.v = h[n]
  BY <1>1, <1>4, <1>5, BytesBV
<1>7. /\ _sym_build_bswap(x) \in Bytes(n)
      /\ \A j \in 0 .. n - 1 : Digit(_sym_build_bswap(x).v, j) = Digit(x.v, n - 1 - j)
  BY <1>1, SwapFacts
<1>8. _sym_build_bswap(x) = y
  BY <1>1, <1>5, <1>6, <1>7, BytesEqual
<1> QED
  BY <1>6, <1>8, IntBytesFacts DEF ntohl, n, y

-----------------------------------------------------------------------------
(***************************************************************************)
(* Structures                                                              *)
(***************************************************************************)
\* The expression a has the bytes of x in the order of memory, then the byte
\* y, then padding.
Laid(a, x, y) ==
  /\ a \in Bytes(2 * IntBytes)
  /\ \A j \in 0 .. IntBytes - 1 : Digit(a.v, IntBytes + j) = Digit(x.v, IntBytes - 1 - j)
  /\ Digit(a.v, IntBytes - 1) = y.v

\* Sizes that the proofs below compute with.
LEMMA StructSizes ==
  ASSUME Bits % (2 * ByteBits) = 0
  PROVE  /\ IntBytes \in Nat \ {0} /\ IntBytes \in Nat /\ IntBytes - 1 \in Nat \ {0}
         /\ IntBytes % 2 = 0 /\ IntBytes # 1 /\ IntBytes > 1
         /\ 2 * IntBytes \in Nat /\ StructBytes = 2 * IntBytes /\ StructBytes \div 2 = IntBytes
         /\ 1 + (IntBytes - 1) = IntBytes /\ IntBytes + IntBytes = 2 * IntBytes
         /\ (IntBytes + 1) + (IntBytes - 1) = 2 * IntBytes
<1>1. IntBytes \in Nat \ {0} /\ IntBytes % 2 = 0 /\ IntBytes >= 2
  BY IntBytesFacts
<1>2. StructBytes = 2 * IntBytes
  BY DEF StructBytes, IntBytes
<1> QED
  BY <1>1, <1>2

\* The widths of bytes and of integers, in bits and in bytes.
LEMMA WidthInBytes ==
  ASSUME NEW n \in Nat, NEW x \in Bytes(n)
  PROVE  /\ x.w = n * ByteBits /\ x.w % ByteBits = 0 /\ x.w \div ByteBits = n
         /\ x.w > ByteBits <=> n > 1
         /\ x.w = ByteBits <=> n = 1
<1>1. x.w = n * ByteBits /\ ByteBits \in Nat \ {0}
  BY BytesFacts, BitsAssumption
<1>2. n * ByteBits = ByteBits * n + 0 /\ 0 \in 0 .. ByteBits - 1 /\ n * ByteBits \in Int /\ n \in Int
  BY <1>1
<1>3. (n * ByteBits) \div ByteBits = n /\ (n * ByteBits) % ByteBits = 0
  BY ONLY <1>1, <1>2, DivUnique
<1>4. n * ByteBits > ByteBits <=> n > 1
  <2>1. n > 1 => n * ByteBits > ByteBits
    <3> SUFFICES ASSUME n >= 2 PROVE n * ByteBits > ByteBits
      OBVIOUS
    <3>1. n * ByteBits >= 2 * ByteBits
      BY <1>1
    <3> QED
      BY <1>1, <1>2, <3>1
  <2>2. n = 0 => n * ByteBits = 0
    BY <1>1
  <2>3. n = 1 => n * ByteBits = ByteBits
    BY <1>1
  <2> QED
    BY <1>1, <2>1, <2>2, <2>3
<1>5. n * ByteBits = ByteBits <=> n = 1
  BY <1>1, <1>4
<1> QED
  BY <1>1, <1>3, <1>4, <1>5

\* The byte that stands for a Boolean.
FlagByte(f) == ZExt(_sym_build_bool_to_bit(f), ByteBits - 1)

\* It has the Boolean's value.
LEMMA FlagByteOK ==
  ASSUME NEW f \in Booleans
  PROVE  /\ FlagByte(f) \in Bytes(1) /\ FlagByte(f).v = f.v
         /\ Digit(FlagByte(f).v, 0) = f.v
<1>1. ByteBits \in Nat \ {0} /\ 1 + (ByteBits - 1) = 1 * ByteBits /\ 1 \in Nat /\ 1 \in Nat \ {0}
  BY BitsAssumption
<1>2. /\ f.v \in 0 .. 1 /\ _sym_build_bool_to_bit(f) \in Values(1)
      /\ _sym_build_bool_to_bit(f).v = f.v
  BY BooleanFacts
<1>3. 2 * Pow2[0] <= Pow2[ByteBits] /\ Pow2[0] = 1 /\ Pow2[ByteBits] \in Nat /\ BytePow(1) = Pow2[ByteBits]
  <2>1. 0 \in Nat /\ ByteBits \in Nat /\ 0 < ByteBits
    BY <1>1
  <2>2. 2 * Pow2[0] <= Pow2[ByteBits]
    BY ONLY <2>1, PowGrows
  <2> QED
    BY <2>1, <2>2, PowStep, PowType, BytePowFacts
<1>4. f.v \in 0 .. BytePow(1) - 1 /\ f.v \in 0 .. Pow2[ByteBits] - 1
  BY <1>2, <1>3
<1>5. FlagByte(f) = BV(1 * ByteBits, f.v)
  BY <1>1, <1>2, ExtFacts DEF FlagByte
<1> QED
  BY <1>1, <1>4, <1>5, BytesBV, OneDigit

\* A byte is the only one it has.
LEMMA ByteOf ==
  ASSUME NEW y \in Bytes(1)
  PROVE  Digit(y.v, 0) = y.v
<1>1. y.v \in 0 .. Pow2[ByteBits] - 1
  BY BytesFacts, BytePowFacts
<1> QED
  BY <1>1, OneDigit

\* Zeros.
LEMMA ZeroBytes ==
  ASSUME NEW n \in Nat
  PROVE  /\ _sym_build_zero_bytes(n) \in Bytes(n) /\ _sym_build_zero_bytes(n).v = 0
         /\ \A j \in Nat : Digit(0, j) = 0
<1>1. 0 \in 0 .. BytePow(n) - 1
  BY BytePowFacts
<1>2. ASSUME NEW j \in Nat PROVE Digit(0, j) = 0
  <2>1. BytePow(j) \in Nat \ {0} /\ Pow2[ByteBits] \in Nat \ {0}
    BY BytePowFacts, PowType, BitsAssumption
  <2>2. 0 \div BytePow(j) = 0 /\ 0 % Pow2[ByteBits] = 0
    BY <2>1
  <2> QED
    BY <2>2 DEF Digit
<1> QED
  BY <1>1, <1>2, BytesBV DEF _sym_build_zero_bytes

\* An integer, then n bytes of which the first is y.
LEMMA LaidFront ==
  ASSUME Bits % (2 * ByteBits) = 0, NEW x \in Ints, NEW y \in Bytes(1),
         NEW t \in Bytes(IntBytes), Digit(t.v, IntBytes - 1) = y.v
  PROVE  Laid(Concat(_sym_build_bswap(x), t), x, y)
<1> DEFINE n == IntBytes
           s == _sym_build_bswap(x)
           c == Concat(s, t)
<1>1. n \in Nat \ {0} /\ n % 2 = 0 /\ n + n = 2 * n /\ n - 1 \in 0 .. n - 1 /\ x \in Bytes(n)
  BY StructSizes, IntBytesFacts
<1>2. t \in Bytes(n) /\ Digit(t.v, n - 1) = y.v
  OBVIOUS
<1> HIDE DEF n
<1>3. s \in Bytes(n) /\ \A j \in 0 .. n - 1 : Digit(s.v, j) = Digit(x.v, n - 1 - j)
  BY <1>1, SwapFacts
<1> HIDE DEF s
<1>4. c \in Bytes(n + n)
  BY <1>1, <1>2, <1>3, ConcatBytes
<1>5. \A j \in 0 .. n - 1 : Digit(c.v, j) = Digit(t.v, j)
  BY <1>1, <1>2, <1>3, ConcatBytes
<1>6. \A j \in Nat : Digit(c.v, n + j) = Digit(s.v, j)
  BY <1>1, <1>2, <1>3, ConcatBytes
<1> HIDE DEF c
<1>7. \A j \in 0 .. n - 1 : j \in Nat
  OBVIOUS
<1>8. \A j \in 0 .. n - 1 : Digit(c.v, n + j) = Digit(x.v, n - 1 - j)
  BY <1>3, <1>6, <1>7
<1>9. Digit(c.v, n - 1) = y.v
  BY <1>1, <1>2, <1>5
<1> QED
  BY <1>1, <1>4, <1>8, <1>9 DEF Laid, n, c, s

\* The expression of arithmetic with overflow has the layout of the structure.
LEMMA OverflowLaid ==
  ASSUME Bits % (2 * ByteBits) = 0, NEW x \in Ints, NEW f \in Booleans
  PROVE  Laid(buildOverflowResult(x, f, TRUE), x, f)
<1> DEFINE n == IntBytes
           k == n - 1
           y == FlagByte(f)
           z == _sym_build_zero_bytes(k)
           t == Concat(y, z)
<1>1. n \in Nat /\ n # 1 /\ k \in Nat \ {0} /\ 1 \in Nat \ {0} /\ 1 + k = n /\ x \in Bytes(n) /\ k + 0 = k
  BY StructSizes, IntBytesFacts
<1>2. y \in Bytes(1) /\ y.v = f.v /\ Digit(y.v, 0) = f.v
  BY FlagByteOK
<1>3. z \in Bytes(k)
  BY <1>1, ZeroBytes
<1>4. x.w % ByteBits = 0 /\ x.w \div ByteBits = n /\ x.w # ByteBits
  BY <1>1, WidthInBytes
<1>5. buildOverflowResult(x, f, TRUE) = Concat(_sym_build_bswap(x), t)
  BY <1>4 DEF buildOverflowResult, FlagByte
<1> HIDE DEF n, k, y, z
<1>6. t \in Bytes(1 + k)
  BY <1>1, <1>2, <1>3, ConcatBytes
<1>7. \A j \in Nat : Digit(t.v, k + j) = Digit(y.v, j)
  BY <1>1, <1>2, <1>3, ConcatBytes
<1> HIDE DEF t
<1>8. Digit(t.v, k + 0) = Digit(y.v, 0)
  BY <1>7
<1>9. t \in Bytes(IntBytes) /\ Digit(t.v, IntBytes - 1) = y.v
  BY <1>1, <1>2, <1>6, <1>8 DEF n, k
<1>10. Laid(Concat(_sym_build_bswap(x), t), x, y)
  BY <1>2, <1>9, LaidFront
<1> QED
  BY <1>2, <1>5, <1>10 DEF Laid

\* insertvalue of the integer keeps the byte.
LEMMA InsertInteger ==
  ASSUME Bits % (2 * ByteBits) = 0, NEW a, NEW x0, NEW y \in Booleans, Laid(a, x0, y),
         NEW x \in Ints
  PROVE  Laid(_sym_build_insert(a, x, 0, TRUE), x, y)
<1> DEFINE n == IntBytes
           t == _sym_build_extract(a, n, n, FALSE)
           z == FlagByte(y)
<1>1. /\ n \in Nat /\ n \in Nat \ {0} /\ n > 1 /\ 2 * n \in Nat /\ n + n <= 2 * n /\ x \in Bytes(n)
      /\ (2 * n) - (n + n) = 0 /\ (2 * n) - 0 - n = n /\ 0 + n = n /\ n - 1 \in 0 .. n - 1
      /\ 0 + (n - 1) = n - 1
  BY StructSizes, IntBytesFacts
<1>2. a \in Bytes(2 * n) /\ Digit(a.v, n - 1) = y.v
  BY DEF Laid
<1>3. x.w % ByteBits = 0 /\ x.w \div ByteBits = n /\ x.w > ByteBits
  BY <1>1, WidthInBytes
<1>4. a.w \div ByteBits = 2 * n
  BY <1>1, <1>2, WidthInBytes
<1> HIDE DEF n
<1>5. _sym_build_insert(a, x, 0, TRUE) = Concat(_sym_build_bswap(x), t)
  <2>1. IsBitVector(x)
    BY <1>1, BytesWellFormed
  <2> QED
    BY <1>1, <1>3, <1>4, <2>1 DEF _sym_build_insert
<1>6. t \in Bytes(n) /\ \A j \in 0 .. n - 1 : Digit(t.v, j) = Digit(a.v, ((2 * n) - (n + n)) + j)
  BY <1>1, <1>2, ExtractInOrder
<1>7. Digit(t.v, n - 1) = y.v
  BY <1>1, <1>2, <1>6
<1>8. z \in Bytes(1) /\ z.v = y.v
  BY FlagByteOK
<1> HIDE DEF t, z
<1>9. Laid(Concat(_sym_build_bswap(x), t), x, z)
  BY <1>6, <1>7, <1>8, LaidFront DEF n
<1> QED
  BY <1>5, <1>8, <1>9 DEF Laid

\* An integer's bytes, a byte, and padding, put together from the front.
LEMMA LaidBack ==
  ASSUME Bits % (2 * ByteBits) = 0, NEW s \in Bytes(IntBytes), NEW y \in Bytes(1),
         NEW r \in Bytes(IntBytes - 1), NEW x,
         \A j \in 0 .. IntBytes - 1 : Digit(s.v, j) = Digit(x.v, IntBytes - 1 - j)
  PROVE  Laid(Concat(Concat(s, y), r), x, y)
<1> DEFINE n == IntBytes
           k == n - 1
           e == n + 1
           f == Concat(s, y)
           c == Concat(f, r)
<1>1. /\ n \in Nat \ {0} /\ 1 \in Nat \ {0} /\ k \in Nat \ {0} /\ e \in Nat \ {0}
      /\ e + k = 2 * n /\ k + 0 = n - 1 /\ s \in Bytes(n) /\ r \in Bytes(k)
      /\ \A j \in 0 .. n - 1 : j \in Nat /\ 1 + j \in Nat /\ k + (1 + j) = n + j
      /\ 0 \in 0 .. 1 - 1 /\ 0 \in Nat
  <2>1. n \in Nat /\ n > 1 /\ s \in Bytes(n) /\ r \in Bytes(k)
    BY StructSizes
  <2> HIDE DEF n
  <2> QED
    BY <2>1
<1>2. \A j \in 0 .. n - 1 : Digit(s.v, j) = Digit(x.v, n - 1 - j)
  OBVIOUS
<1>3. f \in Bytes(e)
  <2> HIDE DEF n, k
  <2> QED
    BY <1>1, ConcatBytes
<1> HIDE DEF n, k, e
<1>4. \A j \in 0 .. 1 - 1 : Digit(f.v, j) = Digit(y.v, j)
  BY <1>1, ConcatBytes
<1>5. \A j \in Nat : Digit(f.v, 1 + j) = Digit(s.v, j)
  BY <1>1, ConcatBytes
<1> HIDE DEF f
<1>6. c \in Bytes(e + k)
  BY <1>1, <1>3, ConcatBytes
<1>7. \A j \in Nat : Digit(c.v, k + j) = Digit(f.v, j)
  BY <1>1, <1>3, ConcatBytes
<1> HIDE DEF c
<1>8. \A j \in 0 .. n - 1 : Digit(c.v, n + j) = Digit(x.v, n - 1 - j)
  <2> SUFFICES ASSUME NEW j \in 0 .. n - 1 PROVE Digit(c.v, n + j) = Digit(x.v, n - 1 - j)
    OBVIOUS
  <2>1. Digit(c.v, k + (1 + j)) = Digit(f.v, 1 + j)
    BY <1>1, <1>7
  <2>2. Digit(f.v, 1 + j) = Digit(s.v, j)
    BY <1>1, <1>5
  <2> QED
    BY <1>1, <1>2, <2>1, <2>2
<1>9. Digit(c.v, n - 1) = y.v
  <2>1. Digit(c.v, k + 0) = Digit(f.v, 0) /\ Digit(f.v, 0) = Digit(y.v, 0)
    BY <1>1, <1>4, <1>7
  <2> QED
    BY <1>1, <2>1, ByteOf
<1> QED
  BY <1>1, <1>6, <1>8, <1>9 DEF Laid, n, c, f

\* insertvalue of the Boolean keeps the integer.
LEMMA InsertFlag ==
  ASSUME Bits % (2 * ByteBits) = 0, NEW a, NEW x, NEW y0, Laid(a, x, y0), NEW f \in Booleans
  PROVE  Laid(_sym_build_insert(a, FlagByte(f), IntBytes, TRUE), x, f)
<1> DEFINE n == IntBytes
           k == n - 1
           y == FlagByte(f)
           s == _sym_build_extract(a, 0, n, FALSE)
           r == _sym_build_extract(a, n + 1, k, FALSE)
<1>1. /\ n \in Nat /\ n \in Nat \ {0} /\ n # 0 /\ 2 * n \in Nat /\ 0 + n <= 2 * n
      /\ k \in Nat \ {0} /\ k # 0 /\ n + 1 \in Nat /\ (n + 1) + k <= 2 * n
      /\ (2 * n) - n - 1 = k /\ (2 * n) - (0 + n) = n /\ 0 \in Nat /\ 1 \in Nat
  <2>1. n \in Nat /\ n > 1
    BY StructSizes
  <2> HIDE DEF n
  <2> QED
    BY <2>1
<1>2. y \in Bytes(1) /\ y.v = f.v
  BY FlagByteOK
<1>3. /\ a \in Bytes(2 * n)
      /\ \A j \in 0 .. n - 1 : Digit(a.v, n + j) = Digit(x.v, n - 1 - j)
  BY DEF Laid
<1>4. y.w % ByteBits = 0 /\ y.w \div ByteBits = 1 /\ ~(y.w > ByteBits)
  <2>1. ~(1 > 1) /\ 1 \in Nat
    OBVIOUS
  <2> HIDE DEF y
  <2> QED
    BY <1>2, <2>1, WidthInBytes
<1>5. a.w \div ByteBits = 2 * n
  BY <1>1, <1>3, WidthInBytes
<1> HIDE DEF n, k, y
<1>6. _sym_build_insert(a, y, n, TRUE) = Concat(Concat(s, y), r)
  <2>1. IsBitVector(y) /\ 1 \in Nat \ {0}
    BY <1>2, BytesWellFormed
  <2> QED
    BY <1>1, <1>4, <1>5, <2>1 DEF _sym_build_insert
<1>7. s \in Bytes(n) /\ \A j \in 0 .. n - 1 : Digit(s.v, j) = Digit(a.v, ((2 * n) - (0 + n)) + j)
  <2> DEFINE w == 2 * n
             o == 0
             d == _sym_build_extract(a, o, n, FALSE)
  <2>1. w \in Nat /\ o \in Nat /\ n \in Nat \ {0} /\ o + n <= w /\ a \in Bytes(w)
    BY <1>1, <1>3
  <2> HIDE DEF w, o
  <2>2. d \in Bytes(n)
    BY ONLY <2>1, ExtractInOrder
  <2>3. \A j \in 0 .. n - 1 : Digit(d.v, j) = Digit(a.v, (w - (o + n)) + j)
    BY ONLY <2>1, ExtractInOrder
  <2> QED
    BY <2>2, <2>3 DEF w, o
<1>8. r \in Bytes(k)
  BY <1>1, <1>3, ExtractInOrder
<1> HIDE DEF s, r
<1>9. \A j \in 0 .. n - 1 : Digit(s.v, j) = Digit(x.v, n - 1 - j)
  BY <1>1, <1>3, <1>7
<1>10. Laid(Concat(Concat(s, y), r), x, y)
  BY <1>2, <1>7, <1>8, <1>9, LaidBack DEF n, k
<1> QED
  BY <1>2, <1>6, <1>10 DEF Laid, n, y

\* extractvalue of the integer yields the integer,
LEMMA ExtractInteger ==
  ASSUME Bits % (2 * ByteBits) = 0, NEW a, NEW x \in Ints, NEW y, Laid(a, x, y)
  PROVE  _sym_build_extract(a, 0, IntBytes, TRUE) = x
<1> DEFINE n == IntBytes
           e == _sym_build_extract(a, 0, n, TRUE)
<1>1. /\ n \in Nat /\ n \in Nat \ {0} /\ 2 * n \in Nat /\ 0 + n <= 2 * n /\ 0 \in Nat /\ x \in Bytes(n)
      /\ \A j \in 0 .. n - 1 : /\ (2 * n) - 1 - (0 + j) = n + (n - 1 - j)
                               /\ n - 1 - j \in 0 .. n - 1 /\ n - 1 - (n - 1 - j) = j
  BY StructSizes, IntBytesFacts
<1>2. /\ a \in Bytes(2 * n)
      /\ \A j \in 0 .. n - 1 : Digit(a.v, n + j) = Digit(x.v, n - 1 - j)
  BY DEF Laid
<1> HIDE DEF n
<1>3. e \in Bytes(n) /\ \A j \in 0 .. n - 1 : Digit(e.v, j) = Digit(a.v, (2 * n) - 1 - (0 + j))
  <2> DEFINE w == 2 * n
             o == 0
             d == _sym_build_extract(a, o, n, TRUE)
  <2>1. w \in Nat /\ o \in Nat /\ n \in Nat \ {0} /\ o + n <= w /\ a \in Bytes(w)
    BY <1>1, <1>2
  <2> HIDE DEF w, o
  <2>2. d \in Bytes(n)
    BY ONLY <2>1, ExtractSwapped
  <2>3. \A j \in 0 .. n - 1 : Digit(d.v, j) = Digit(a.v, w - 1 - (o + j))
    BY ONLY <2>1, ExtractSwapped
  <2> QED
    BY <2>2, <2>3 DEF w, o
<1> HIDE DEF e
<1>4. ASSUME NEW j \in 0 .. n - 1 PROVE Digit(e.v, j) = Digit(x.v, j)
  <2>1. Digit(e.v, j) = Digit(a.v, n + (n - 1 - j))
    BY <1>1, <1>3
  <2>2. Digit(a.v, n + (n - 1 - j)) = Digit(x.v, n - 1 - (n - 1 - j))
    BY <1>1, <1>2
  <2> QED
    BY <1>1, <2>1, <2>2
<1>5. e = x
  BY <1>1, <1>3, <1>4, BytesEqual
<1> QED
  BY <1>5 DEF e, n

\* and that of the byte after it yields that byte.
LEMMA ExtractByte ==
  ASSUME Bits % (2 * ByteBits) = 0, NEW a, NEW x, NEW y, Laid(a, x, y)
  PROVE  LET e == _sym_build_extract(a, IntBytes, 1, TRUE)
         IN  e \in Bytes(1) /\ e.v = y.v
<1> DEFINE n == IntBytes
           e == _sym_build_extract(a, n, 1, TRUE)
<1>1. /\ n \in Nat /\ 1 \in Nat \ {0} /\ 2 * n \in Nat /\ n + 1 <= 2 * n /\ 0 \in 0 .. 1 - 1
      /\ (2 * n) - 1 - (n + 0) = n - 1
  <2>1. n \in Nat /\ n > 1
    BY StructSizes
  <2> HIDE DEF n
  <2> QED
    BY <2>1
<1>2. a \in Bytes(2 * n) /\ Digit(a.v, n - 1) = y.v
  BY DEF Laid
<1> HIDE DEF n
<1>3. e \in Bytes(1) /\ \A j \in 0 .. 1 - 1 : Digit(e.v, j) = Digit(a.v, (2 * n) - 1 - (n + j))
  BY <1>1, <1>2, ExtractSwapped
<1> HIDE DEF e
<1>4. Digit(e.v, 0) = y.v
  BY <1>1, <1>2, <1>3
<1>5. e \in Bytes(1) /\ e.v = y.v
  BY <1>3, <1>4, ByteOf
<1> QED
  BY <1>5 DEF e, n

\* The byte of a Boolean gives the Boolean back.
LEMMA FlagBack ==
  ASSUME NEW f \in Booleans, NEW e \in Bytes(1), e.v = f.v
  PROVE  _sym_build_bit_to_bool(Extract(e, 0, 0)) = f
<1>1. f.v \in {0, 1} /\ f = [w |-> 0, v |-> f.v]
  BY BooleanFacts
<1>2. /\ e \in Values(1 * ByteBits) /\ 1 * ByteBits \in Nat /\ 0 \in Nat /\ 0 <= 0
      /\ 0 < 1 * ByteBits /\ 0 - 0 + 1 = 1 /\ Pow2[0] = 1
  BY BitsAssumption, PowStep DEF Bytes
<1>3. Extract(e, 0, 0) = BV(0 - 0 + 1, e.v \div Pow2[0])
  BY ONLY <1>2, ExtractFacts
<1>4. e.v \div 1 = f.v /\ f.v % 2 = f.v
  BY <1>1
<1>5. Extract(e, 0, 0).w = 1 /\ Extract(e, 0, 0).v = f.v
  BY <1>1, <1>2, <1>3, <1>4, OneBit
<1>6. _sym_build_bit_to_bool(Extract(e, 0, 0)) = [w |-> 0, v |-> IF f.v # 0 THEN 1 ELSE 0]
  BY <1>5 DEF _sym_build_bit_to_bool, IsBitVector, Bool
<1>7. (IF f.v # 0 THEN 1 ELSE 0) = f.v
  BY <1>1
<1> QED
  BY <1>1, <1>6, <1>7

\* A member as it is in memory, and what precedes the next one.
Element(members, layout, i) ==
  IF LittleEndian /\ layout.size[i] > 1 THEN _sym_build_bswap(members[i]) ELSE members[i]
Padded(end, next, x) ==
  IF next > end THEN Concat(x, _sym_build_zero_bytes(next - end)) ELSE x

\* The expression of a structure with two members.
LEMMA TwoMembers ==
  ASSUME NEW p, NEW q, NEW layout
  PROVE  LET m == <<p, q>>
             End(i) == layout.offset[i] + layout.size[i]
         IN  createValueExpression(m, layout)
               = Padded(End(2), layout.bytes,
                        Concat(Padded(End(1), layout.offset[2], Element(m, layout, 1)),
                               Element(m, layout, 2)))
<1> DEFINE m == <<p, q>>
           End(i) == layout.offset[i] + layout.size[i]
           Step(i, v) == Concat(Padded(End(i - 1), layout.offset[i], v), Element(m, layout, i))
           D(h) == h = [i \in 1 .. 2 |-> IF i = 1 THEN Element(m, layout, 1) ELSE Step(i, h[i - 1])]
           g == [i \in 1 .. 2 |-> IF i = 1 THEN Element(m, layout, 1)
                                          ELSE Step(i, Element(m, layout, 1))]
           f == CHOOSE h : D(h)
<1>0. Len(m) = 2
  OBVIOUS
<1>1. createValueExpression(m, layout) = Padded(End(2), layout.bytes, f[2])
  BY <1>0 DEF createValueExpression, Element, Padded
<1> HIDE DEF Step
<1>2. D(g)
  <2>1. \A i \in 1 .. 2 : i = 1 \/ (i = 2 /\ i - 1 = 1)
    OBVIOUS
  <2>2. g[1] = Element(m, layout, 1)
    OBVIOUS
  <2>3. \A i \in 1 .. 2 : g[i] = IF i = 1 THEN Element(m, layout, 1) ELSE Step(i, g[i - 1])
    BY <2>1, <2>2
  <2> QED
    BY <2>3
<1>3. D(f)
  <2> HIDE DEF D, g
  <2> QED
    BY <1>2
<1> HIDE DEF f
<1>4. f[1] = Element(m, layout, 1) /\ f[2] = Step(2, f[2 - 1]) /\ 2 - 1 = 1
  BY <1>3
<1>5. f[2] = Concat(Padded(End(1), layout.offset[2], Element(m, layout, 1)), Element(m, layout, 2))
  BY <1>4 DEF Step
<1> QED
  BY <1>1, <1>5

\* A concrete structure whose integer comes first.
LEMMA ByteLastOK ==
  ASSUME LittleEndian, Bits % (2 * ByteBits) = 0, NEW x \in Ints, NEW y \in Bytes(1)
  PROVE  Laid(createValueExpression(<<x, y>>, ByteLast), x, y)
<1> DEFINE n == IntBytes
           s == _sym_build_bswap(x)
           z == _sym_build_zero_bytes(n - 1)
           m == <<x, y>>
<1>1. /\ n \in Nat \ {0} /\ n \in Nat /\ n > 1 /\ n % 2 = 0 /\ n - 1 \in Nat /\ x \in Bytes(n)
      /\ StructBytes = 2 * n
  BY StructSizes, IntBytesFacts
<1>2. /\ ByteLast.offset[1] = 0 /\ ByteLast.offset[2] = n
      /\ ByteLast.size[1] = n /\ ByteLast.size[2] = 1 /\ ByteLast.bytes = 2 * n
  BY <1>1 DEF ByteLast, IntBytes
<1> HIDE DEF n
<1>3. /\ ~(n > 0 + n) /\ 2 * n > n + 1 /\ 2 * n - (n + 1) = n - 1
  BY <1>1
<1>4. Element(m, ByteLast, 1) = s /\ Element(m, ByteLast, 2) = y
  BY <1>1, <1>2 DEF Element
<1>5. createValueExpression(m, ByteLast) = Concat(Concat(s, y), z)
  BY <1>2, <1>3, <1>4, TwoMembers DEF Padded
<1>6. s \in Bytes(n) /\ \A j \in 0 .. n - 1 : Digit(s.v, j) = Digit(x.v, n - 1 - j)
  BY <1>1, SwapFacts
<1>7. z \in Bytes(n - 1)
  BY <1>1, ZeroBytes
<1> HIDE DEF s, z
<1>8. Laid(Concat(Concat(s, y), z), x, y)
  BY <1>6, <1>7, LaidBack DEF n
<1> QED
  BY <1>5, <1>8

\* A concrete structure whose byte comes first: its members.
LEMMA ByteFirstOK ==
  ASSUME LittleEndian, Bits % (2 * ByteBits) = 0, NEW x \in Ints, NEW y \in Bytes(1)
  PROVE  LET a == createValueExpression(<<y, x>>, ByteFirst)
         IN  /\ _sym_build_extract(a, 0, 1, TRUE) = y
             /\ _sym_build_extract(a, IntBytes, IntBytes, TRUE) = x
<1> DEFINE n == IntBytes
           k == n - 1
           w == 2 * n
           s == _sym_build_bswap(x)
           z == _sym_build_zero_bytes(k)
           m == <<y, x>>
           f == Concat(y, z)
           a == Concat(f, s)
<1>0. n \in Nat /\ n > 1 /\ n % 2 = 0 /\ x \in Bytes(n) /\ StructBytes = 2 * n /\ StructBytes \div 2 = n
  BY StructSizes, IntBytesFacts
<1>2. /\ ByteFirst.offset[1] = 0 /\ ByteFirst.offset[2] = n
      /\ ByteFirst.size[1] = 1 /\ ByteFirst.size[2] = n /\ ByteFirst.bytes = 2 * n
  BY <1>0 DEF ByteFirst, IntBytes
<1> HIDE DEF n
<1>1. /\ n \in Nat \ {0} /\ k \in Nat \ {0} /\ k \in Nat /\ w \in Nat /\ 1 \in Nat \ {0}
      /\ 1 + k = n /\ n + n = w /\ n + n <= w /\ w - 1 = n + (k + 0) /\ 0 \in 0 .. 1 - 1
      /\ k + 0 \in Nat /\ 0 + 1 <= w /\ 0 \in Nat
      /\ \A j \in 0 .. n - 1 : /\ w - 1 - (n + j) = n - 1 - j
                               /\ n - 1 - j \in 0 .. n - 1 /\ n - 1 - (n - 1 - j) = j
  BY <1>0
<1>3. n > 0 + 1 /\ n - (0 + 1) = k /\ ~(2 * n > n + n)
  BY <1>0
<1>4. Element(m, ByteFirst, 1) = y /\ Element(m, ByteFirst, 2) = s
  BY <1>0, <1>2 DEF Element
<1>5. createValueExpression(m, ByteFirst) = a
  BY <1>2, <1>3, <1>4, TwoMembers DEF Padded
<1>6. s \in Bytes(n) /\ \A j \in 0 .. n - 1 : Digit(s.v, j) = Digit(x.v, n - 1 - j)
  BY <1>0, <1>1, SwapFacts
<1> HIDE DEF k, w, s
<1>7. z \in Bytes(k)
  BY <1>1, ZeroBytes
<1> HIDE DEF z
<1>8. f \in Bytes(1 + k)
  BY ONLY <1>1, <1>7, y \in Bytes(1), ConcatBytes
<1>9. \A j \in Nat : Digit(f.v, k + j) = Digit(y.v, j)
  BY ONLY <1>1, <1>7, y \in Bytes(1), ConcatBytes
<1> HIDE DEF f
<1>10. f \in Bytes(n) /\ Digit(f.v, k + 0) = Digit(y.v, 0)
  BY <1>1, <1>8, <1>9
<1>11. a \in Bytes(n + n)
  BY ONLY <1>1, <1>6, <1>10, ConcatBytes
<1>12. \A j \in 0 .. n - 1 : Digit(a.v, j) = Digit(s.v, j)
  BY ONLY <1>1, <1>6, <1>10, ConcatBytes
<1>13. \A j \in Nat : Digit(a.v, n + j) = Digit(f.v, j)
  BY ONLY <1>1, <1>6, <1>10, ConcatBytes
<1> HIDE DEF a
<1>14. a \in Bytes(w)
  BY <1>1, <1>11
<1>15. _sym_build_extract(a, 0, 1, TRUE) = y
  <2> DEFINE o == 0
             e == _sym_build_extract(a, o, 1, TRUE)
             l == 1
  <2>0. w \in Nat /\ o \in Nat /\ l \in Nat \ {0} /\ o + l <= w /\ a \in Bytes(w)
    BY <1>1, <1>14
  <2>1. w - 1 - (o + 0) = n + (k + 0)
    BY <1>1
  <2>2. e \in Bytes(1)
    <3> HIDE DEF o, l
    <3>1. _sym_build_extract(a, o, l, TRUE) \in Bytes(l)
      BY ONLY <2>0, ExtractSwapped
    <3> QED
      BY <3>1 DEF l
  <2>3. \A j \in 0 .. 1 - 1 : Digit(e.v, j) = Digit(a.v, w - 1 - (o + j))
    <3> HIDE DEF o, l
    <3>1. \A j \in 0 .. l - 1 :
            Digit(_sym_build_extract(a, o, l, TRUE).v, j) = Digit(a.v, w - 1 - (o + j))
      BY ONLY <2>0, ExtractSwapped
    <3> QED
      BY <3>1 DEF l
  <2> HIDE DEF o
  <2> HIDE DEF e
  <2>4. Digit(e.v, 0) = Digit(y.v, 0)
    BY <1>1, <1>10, <1>13, <2>1, <2>3
  <2>5. \A j \in 0 .. 1 - 1 : j = 0
    OBVIOUS
  <2>6. e = y
    BY <1>1, <2>2, <2>4, <2>5, BytesEqual
  <2> QED
    BY <2>6 DEF e, o
<1>16. _sym_build_extract(a, n, n, TRUE) = x
  <2> DEFINE e == _sym_build_extract(a, n, n, TRUE)
  <2>1. w \in Nat /\ n \in Nat /\ n \in Nat \ {0} /\ n + n <= w /\ a \in Bytes(w)
    BY <1>1, <1>14
  <2>2. e \in Bytes(n)
    BY ONLY <2>1, ExtractSwapped
  <2>3. \A j \in 0 .. n - 1 : Digit(e.v, j) = Digit(a.v, w - 1 - (n + j))
    BY ONLY <2>1, ExtractSwapped
  <2> HIDE DEF e
  <2>4. ASSUME NEW j \in 0 .. n - 1 PROVE Digit(e.v, j) = Digit(x.v, j)
    <3>1. Digit(e.v, j) = Digit(a.v, n - 1 - j)
      BY <1>1, <2>3
    <3>2. Digit(a.v, n - 1 - j) = Digit(s.v, n - 1 - j)
      BY <1>1, <1>12
    <3>3. Digit(s.v, n - 1 - j) = Digit(x.v, n - 1 - (n - 1 - j))
      BY <1>1, <1>6
    <3> QED
      BY <1>1, <3>1, <3>2, <3>3
  <2>5. e = x
    BY <1>0, <2>2, <2>4, BytesEqual
  <2> QED
    BY <2>5 DEF e
<1> QED
  BY <1>5, <1>15, <1>16 DEF n

-----------------------------------------------------------------------------
(***************************************************************************)
(* The instrumented program                                                *)
(***************************************************************************)
\* All intrinsics with an integer result.
LEMMA ScalarOK ==
  ASSUME SoundTarget, NEW op \in SoundScalar, NEW a \in Ints, NEW b \in Ints, Defined(op, b),
         NEW wraps
  PROVE  BuildScalar(op, a, b, wraps) = Evaluate(op, a, b) /\ Evaluate(op, a, b) \in Ints
<1>0. a \in Values(Bits) /\ b \in Values(Bits) /\ Bits \in Nat /\ Bits \in Nat \ {0}
  BY Widths DEF Ints
<1>1. a.v \in Int /\ b.v \in Int /\ SignedValue(a) \in Int /\ SignedValue(b) \in Int
      /\ Pow2[Bits] \in Nat \ {0} /\ Pow2[Bits - 1] \in Nat \ {0}
  BY <1>0, ValuesFacts, SignedFacts, PowType
<1>2. \A v \in Int : BV(Bits, v) \in Ints
  BY <1>0, BVFacts DEF Ints
<1>3. \A v \in Int : ClampSigned(v) \in Ints /\ ClampUnsigned(v) \in Ints
  <2>1. \A v \in Int : /\ Clamp(-Pow2[Bits - 1], Pow2[Bits - 1] - 1, v) \in Int
                       /\ Clamp(0, Pow2[Bits] - 1, v) \in Int
    BY <1>1 DEF Clamp
  <2> QED
    BY <1>2, <2>1 DEF ClampSigned, ClampUnsigned
<1>4. CASE op = "sadd_sat"
  <2>1. Bits < WordBits
    BY <1>4 DEF SoundScalar
  <2>2. _sym_build_sadd_sat(a, b, wraps) = ClampSigned(SignedValue(a) + SignedValue(b))
    BY <2>1, SaturatingAdd
  <2> QED
    BY <1>1, <1>3, <1>4, <2>2 DEF BuildScalar, Evaluate
<1>5. CASE op = "ssub_sat"
  <2>1. Bits < WordBits
    BY <1>5 DEF SoundScalar
  <2>2. _sym_build_ssub_sat(a, b, wraps) = ClampSigned(SignedValue(a) - SignedValue(b))
    BY <2>1, SaturatingAdd
  <2> QED
    BY <1>1, <1>3, <1>5, <2>2 DEF BuildScalar, Evaluate
<1>6. CASE op = "uadd_sat"
  <2>1. Bits < WordBits
    BY <1>6 DEF SoundScalar
  <2>2. _sym_build_uadd_sat(a, b, wraps) = ClampUnsigned(a.v + b.v)
    BY <2>1, SaturatingUnsigned
  <2> QED
    BY <1>1, <1>3, <1>6, <2>2 DEF BuildScalar, Evaluate
<1>7. CASE op = "usub_sat"
  <2>2. _sym_build_usub_sat(a, b) = ClampUnsigned(a.v - b.v)
    BY SaturatingUnsigned
  <2> QED
    BY <1>1, <1>3, <1>7, <2>2 DEF BuildScalar, Evaluate
<1>8. CASE op = "sshl_sat"
  <2>1. Bits < WordBits /\ b.v < Bits
    BY <1>8 DEF SoundScalar, Defined
  <2>2. _sym_build_sshl_sat(a, b, wraps) = ClampSigned(SignedValue(a) * Pow2[b.v])
    BY <2>1, SaturatingShift
  <2>3. b.v \in Nat
    BY <1>0, ValuesFacts, PowType
  <2>4. SignedValue(a) * Pow2[b.v] \in Int
    BY <1>1, <2>3, PowType
  <2> QED
    BY <1>3, <1>8, <2>2, <2>4 DEF BuildScalar, Evaluate
<1>9. CASE op = "abs"
  <2>1. (IF SignedValue(a) < 0 THEN -SignedValue(a) ELSE SignedValue(a)) \in Int
    BY <1>1
  <2> QED
    BY <1>2, <1>9, <2>1, AbsOK DEF BuildScalar, Evaluate
<1>10. CASE op = "ntohl"
  BY <1>10, NtohlOK DEF BuildScalar, Evaluate, SoundTarget
<1>11. CASE op = "ptrtoint"
  BY <1>11 DEF BuildScalar, Evaluate, visitPtrToIntInst
<1> QED
  BY <1>4, <1>5, <1>6, <1>7, <1>8, <1>9, <1>10, <1>11 DEF SoundScalar

\* The results that instructions have.
Results == Ints \cup Values(ByteBits) \cup Booleans

\* The inductive invariant: the structure's expression has the layout of the
\* structure, byte for byte, and the last result is exact.
IInv ==
  /\ struct \in Structs
  /\ Laid(agg, struct[0], struct[1])
  /\ out.val \in Results /\ out.expr = out.val

\* A structure and its members.
LEMMA StructFacts ==
  /\ \A s \in Structs : s[0] \in Ints /\ s[1] \in Booleans
  /\ \A x \in Ints, f \in Booleans : \A s \in [0 .. 1 -> {x, f}] :
       s[0] = x /\ s[1] = f => s \in Structs
  /\ \A s \in Structs, x \in Ints : /\ [s EXCEPT ![0] = x] \in Structs
                                    /\ [s EXCEPT ![0] = x][0] = x /\ [s EXCEPT ![0] = x][1] = s[1]
  /\ \A s \in Structs, f \in Booleans : /\ [s EXCEPT ![1] = f] \in Structs
                                        /\ [s EXCEPT ![1] = f][0] = s[0] /\ [s EXCEPT ![1] = f][1] = f
<1> DEFINE V == Ints \cup Booleans
<1>1. 0 .. 1 = {0, 1} /\ 0 # 1
  OBVIOUS
<1>2. \A s : s \in Structs <=> s \in [{0, 1} -> V] /\ s[0] \in Ints /\ s[1] \in Booleans
  BY <1>1 DEF Structs, Member
<1> HIDE DEF Structs
<1>3. ASSUME NEW x \in Ints, NEW f \in Booleans, NEW s \in [0 .. 1 -> {x, f}],
             s[0] = x, s[1] = f
      PROVE  s \in Structs
  <2>1. s \in [{0, 1} -> V]
    BY <1>1
  <2> QED
    BY <1>2, <1>3, <2>1
<1>4. ASSUME NEW s \in Structs, NEW x \in Ints
      PROVE  /\ [s EXCEPT ![0] = x] \in Structs
             /\ [s EXCEPT ![0] = x][0] = x /\ [s EXCEPT ![0] = x][1] = s[1]
  <2>1. s \in [{0, 1} -> V] /\ s[1] \in Booleans
    BY <1>2
  <2>2. /\ [s EXCEPT ![0] = x] \in [{0, 1} -> V]
        /\ [s EXCEPT ![0] = x][0] = x /\ [s EXCEPT ![0] = x][1] = s[1]
    BY <1>1, <2>1
  <2> QED
    BY <1>2, <2>1, <2>2
<1>5. ASSUME NEW s \in Structs, NEW f \in Booleans
      PROVE  /\ [s EXCEPT ![1] = f] \in Structs
             /\ [s EXCEPT ![1] = f][0] = s[0] /\ [s EXCEPT ![1] = f][1] = f
  <2>1. s \in [{0, 1} -> V] /\ s[0] \in Ints
    BY <1>2
  <2>2. /\ [s EXCEPT ![1] = f] \in [{0, 1} -> V]
        /\ [s EXCEPT ![1] = f][0] = s[0] /\ [s EXCEPT ![1] = f][1] = f
    BY <1>1, <2>1
  <2> QED
    BY <1>2, <2>1, <2>2
<1> QED
  BY <1>2, <1>3, <1>4, <1>5

\* An instruction whose expression is its value.
LEMMA ComputeOK ==
  ASSUME NEW op, NEW val \in Results, NEW expr, expr = val, IInv, Compute(op, val, expr)
  PROVE  IInv'
<1>1. struct' = struct /\ agg' = agg /\ out' = [op |-> op, val |-> val, expr |-> expr]
  BY DEF Compute
<1>2. out'.val = val /\ out'.expr = val
  BY <1>1
<1>3. Results' = Results /\ Structs' = Structs
  BY DEF Results, Structs, Member
<1> QED
  BY <1>1, <1>2, <1>3 DEF IInv

\* The steps of the paths that the program takes.
LEMMA PathSteps ==
  ASSUME Narrow \subseteq NonNegative
  PROVE  \A s \in Indices \cup Elements \cup {MemberStep(o) : o \in 0 .. 1} : SoundStep(s)
<1>1. \A i \in Ints : Index(i)
  BY DEF Index, Ints
<1>2. ASSUME NEW i \in Narrow PROVE Index(BV(ByteBits, i))
  <2>1. ByteBits \in Nat /\ ByteBits - 1 \in Nat /\ (ByteBits - 1) + 1 = ByteBits
    BY Widths
  <2>2. Pow2[ByteBits] = 2 * Pow2[ByteBits - 1] /\ Pow2[ByteBits - 1] \in Nat \ {0}
    BY <2>1, PowStep, PowType
  <2>3. i \in 0 .. Pow2[ByteBits - 1] - 1
    BY DEF NonNegative
  <2>4. i \in Int /\ i \in 0 .. Pow2[ByteBits] - 1 /\ Pow2[ByteBits] \in Nat \ {0}
    BY <2>2, <2>3
  <2>5. BV(ByteBits, i) \in Values(ByteBits) /\ BV(ByteBits, i).v = i
    <3>1. i % Pow2[ByteBits] = i
      BY ONLY <2>4, ModSmall
    <3> QED
      BY ONLY <2>1, <2>4, <3>1, BVFacts
  <2> QED
    BY <2>2, <2>3, <2>5 DEF Index
<1>3. \A i \in {0, 1, Pow2[Bits] - 1} : Index(BV(Bits, i))
  <2>1. Bits \in Nat /\ \A i \in {0, 1, Pow2[Bits] - 1} : i \in Int
    BY Widths, PowType
  <2>2. \A i \in {0, 1, Pow2[Bits] - 1} : BV(Bits, i) \in Values(Bits)
    BY <2>1, BVFacts
  <2> QED
    BY <2>2 DEF Index
<1>4. ASSUME NEW size \in Nat, NEW i, NEW c, Index(i) PROVE SoundStep(ElementStep(size, i, c))
  BY <1>4 DEF SoundStep, ElementStep
<1>5. \A o \in 0 .. 1 : SoundStep(MemberStep(o))
  BY DEF SoundStep, MemberStep
<1>6. ASSUME NEW s \in Indices PROVE SoundStep(s)
  <2> DEFINE P == {ElementStep(3, i, FALSE) : i \in Ints}
             Q == {ElementStep(3, BV(ByteBits, i), c) : i \in Narrow, c \in BOOLEAN}
  <2>0. Indices = P \cup Q
    BY DEF Indices
  <2>1. CASE s \in P
    BY <1>1, <1>4, <2>1
  <2>2. CASE s \in Q
    <3>1. PICK i \in Narrow, c \in BOOLEAN : s = ElementStep(3, BV(ByteBits, i), c)
      BY <2>2
    <3>2. Index(BV(ByteBits, i)) /\ 3 \in Nat
      BY <1>2
    <3> QED
      BY <1>4, <3>1, <3>2
  <2> QED
    <3> HIDE DEF P, Q
    <3> QED
      BY <2>0, <2>1, <2>2
<1>7. ASSUME NEW s \in Elements PROVE SoundStep(s)
  <2>1. CASE s \in {ElementStep(2, BV(Bits, i), FALSE) : i \in {0, 1, Pow2[Bits] - 1}}
    <3>1. PICK i \in {0, 1, Pow2[Bits] - 1} : s = ElementStep(2, BV(Bits, i), FALSE)
      BY <2>1
    <3>2. Index(BV(Bits, i)) /\ 2 \in Nat
      BY <1>3
    <3> QED
      BY <1>4, <3>1, <3>2
  <2>2. CASE s \in {ElementStep(2, BV(ByteBits, i), TRUE) : i \in Narrow}
    BY <1>2, <1>4, <2>2
  <2> QED
    BY <2>1, <2>2 DEF Elements
<1> QED
  BY <1>5, <1>6, <1>7

\* The structure is undefined and its expression zero.
LEMMA InitOK ==
  ASSUME SoundTarget
  PROVE  Init => IInv
<1> SUFFICES ASSUME Init PROVE IInv
  OBVIOUS
<1>1. /\ struct = [i \in 0 .. 1 |-> IF i = 0 THEN BV(Bits, 0) ELSE Bool(FALSE)]
      /\ agg = _sym_build_zero_bytes(StructBytes) /\ out = Nothing
  BY DEF Init
<1> DEFINE x == BV(Bits, 0)
           f == Bool(FALSE)
<1>2. x \in Ints /\ f \in Booleans /\ x.v = 0 /\ f.v = 0
  <2>1. Bits \in Nat /\ 0 \in Int /\ Pow2[Bits] \in Nat \ {0}
    BY Widths, PowType
  <2>2. 0 % Pow2[Bits] = 0
    BY <2>1
  <2>3. BV(Bits, 0) \in Values(Bits) /\ BV(Bits, 0).v = 0
    BY ONLY <2>1, <2>2, BVFacts
  <2>4. Bool(FALSE) \in Booleans /\ Bool(FALSE).v = 0
    BY BoolFacts
  <2> QED
    BY <2>3, <2>4 DEF Ints
<1> HIDE DEF x, f
<1>3. struct \in Structs /\ struct[0] = x /\ struct[1] = f
  <2>1. struct \in [0 .. 1 -> {x, f}] /\ struct[0] = x /\ struct[1] = f
    BY <1>1 DEF x, f
  <2> QED
    BY <1>2, <2>1, StructFacts
<1>4. Laid(agg, x, f)
  <2> DEFINE n == IntBytes
  <2>1. /\ n \in Nat /\ n - 1 \in Nat /\ 2 * n \in Nat /\ StructBytes = 2 * n
        /\ \A j \in 0 .. n - 1 : n + j \in Nat /\ n - 1 - j \in Nat
    <3>1. n \in Nat /\ n > 1 /\ StructBytes = 2 * n
      BY StructSizes DEF SoundTarget
    <3> HIDE DEF n
    <3> QED
      BY <3>1
  <2>2. agg \in Bytes(2 * n) /\ agg.v = 0
    BY <1>1, <2>1, ZeroBytes
  <2>3. \A j \in Nat : Digit(0, j) = 0
    BY <2>1, ZeroBytes
  <2> QED
    BY <1>2, <2>1, <2>2, <2>3 DEF Laid
<1>5. out.val \in Results /\ out.expr = out.val
  BY <1>1, BoolFacts DEF Nothing, Results
<1> QED
  BY <1>3, <1>4, <1>5 DEF IInv

\* A call of an intrinsic.
LEMMA CallScalarOK ==
  ASSUME SoundTarget, SoundProgram, IInv, NEW op \in Scalar, NEW a \in Ints, NEW b \in Ints,
         CallScalar(op, a, b)
  PROVE  IInv'
<1>1. PICK wraps \in Wraps :
        out' = [op |-> op, val |-> Evaluate(op, a, b), expr |-> BuildScalar(op, a, b, wraps)]
  BY DEF CallScalar
<1>2. Defined(op, b) /\ Ready /\ UNCHANGED <<struct, agg>>
  BY DEF CallScalar
<1>3. op \in SoundScalar
  BY DEF SoundProgram
<1>4. BuildScalar(op, a, b, wraps) = Evaluate(op, a, b) /\ Evaluate(op, a, b) \in Ints
  BY <1>2, <1>3, ScalarOK
<1>5. Evaluate(op, a, b) \in Results
  BY <1>4 DEF Results
<1>6. Compute(op, Evaluate(op, a, b), BuildScalar(op, a, b, wraps))
  BY <1>1, <1>2 DEF Compute
<1> QED
  BY <1>4, <1>5, <1>6, ComputeOK

\* Arithmetic with overflow.
LEMMA CallOverflowOK ==
  ASSUME SoundTarget, SoundProgram, IInv, NEW f \in Overflow, NEW a \in Ints, NEW b \in Ints,
         CallOverflow(f[1], f[2], a, b)
  PROVE  IInv'
<1> DEFINE m == WithOverflow(f[1], f[2], a, b)
<1>1. struct' = m /\ agg' = BuildOverflow(f[1], f[2], a, b) /\ out' = out
  BY DEF CallOverflow
<1>2. <<f[1], f[2]>> \in SoundOverflow
  <2>1. f \in SoundOverflow
    BY DEF SoundProgram
  <2>2. f = <<f[1], f[2]>>
    BY <2>1 DEF SoundOverflow
  <2> QED
    BY <2>1, <2>2, Zenon
<1>3. /\ m[0] \in Ints /\ m[1] \in Booleans /\ m \in [0 .. 1 -> {m[0], m[1]}]
      /\ BuildOverflow(f[1], f[2], a, b) = buildOverflowResult(m[0], m[1], LittleEndian)
  BY <1>2, OverflowOK
<1> HIDE DEF m
<1>4. m \in Structs
  BY <1>3, StructFacts
<1>5. Laid(buildOverflowResult(m[0], m[1], TRUE), m[0], m[1])
  BY <1>3, OverflowLaid DEF SoundTarget
<1>6. LittleEndian = TRUE
  BY TargetAssumption DEF SoundTarget
<1>7. Laid(BuildOverflow(f[1], f[2], a, b), m[0], m[1])
  BY <1>3, <1>5, <1>6
<1>8. Results' = Results /\ Structs' = Structs
  BY DEF Results, Structs, Member
<1> QED
  BY <1>1, <1>4, <1>7, <1>8 DEF IInv

\* insertvalue of anything but a constant Boolean.
LEMMA InsertValueOK ==
  ASSUME SoundTarget, SoundProgram, IInv, NEW m \in Inserted,
         NEW x \in (IF m[1] = 0 THEN Ints ELSE Booleans), visitInsertValueInst(m[1], x, m[2])
  PROVE  IInv'
<1>0. /\ struct \in Structs /\ Laid(agg, struct[0], struct[1])
      /\ struct[0] \in Ints /\ struct[1] \in Booleans
  BY StructFacts DEF IInv
<1>1. LittleEndian = TRUE /\ Bits % (2 * ByteBits) = 0
  BY TargetAssumption DEF SoundTarget
<1>2. Results' = Results /\ Structs' = Structs
  BY DEF Results, Structs, Member
<1>3. m[1] = 0 \/ (m[1] = 1 /\ m[2] = FALSE)
  <2>1. m \in SoundInserted
    BY DEF SoundProgram
  <2>2. CASE m = <<0, TRUE>>
    <3>1. m[1] = 0
      BY ONLY <2>2, Zenon
    <3> QED
      BY ONLY <3>1, Zenon
  <2>3. CASE m = <<0, FALSE>>
    <3>1. m[1] = 0
      BY ONLY <2>3, Zenon
    <3> QED
      BY ONLY <3>1, Zenon
  <2>4. CASE m = <<1, FALSE>>
    <3>1. m[1] = 1
      BY ONLY <2>4
    <3>2. m[2] = FALSE
      BY ONLY <2>4, Zenon
    <3> QED
      BY ONLY <3>1, <3>2, Zenon
  <2> QED
    BY <2>1, <2>2, <2>3, <2>4, Zenon DEF SoundInserted
<1>4. CASE m[1] = 0
  <2>0. x \in Ints /\ ~IsBoolean(x)
    BY <1>4, Widths, ValuesFacts DEF IsBoolean, Ints
  <2>1. /\ struct' = [struct EXCEPT ![0] = x] /\ out' = out
        /\ agg' = _sym_build_insert(agg, x, 0, LittleEndian)
    BY <1>4, <2>0 DEF visitInsertValueInst, convertExprForTypeToBitVectorExpr, ElementOffset
  <2>2. struct' \in Structs /\ struct'[0] = x /\ struct'[1] = struct[1]
    BY <1>0, <2>0, <2>1, StructFacts
  <2>3. Laid(_sym_build_insert(agg, x, 0, TRUE), x, struct[1])
    BY <1>0, <1>1, <2>0, InsertInteger
  <2> QED
    BY <1>1, <1>2, <2>1, <2>2, <2>3 DEF IInv
<1>5. CASE m[1] = 1 /\ m[2] = FALSE
  <2>0. x \in Booleans /\ IsBoolean(x)
    BY <1>5, BooleanFacts DEF IsBoolean
  <2>1. /\ struct' = [struct EXCEPT ![1] = x] /\ out' = out
        /\ agg' = _sym_build_insert(agg, FlagByte(x), IntBytes, LittleEndian)
    BY <1>5, <2>0 DEF visitInsertValueInst, convertExprForTypeToBitVectorExpr, ElementOffset,
                      IntBytes, FlagByte
  <2>2. struct' \in Structs /\ struct'[0] = struct[0] /\ struct'[1] = x
    BY <1>0, <2>0, <2>1, StructFacts
  <2>3. Laid(_sym_build_insert(agg, FlagByte(x), IntBytes, TRUE), struct[0], x)
    BY <1>0, <1>1, <2>0, InsertFlag
  <2> QED
    BY <1>1, <1>2, <2>1, <2>2, <2>3 DEF IInv
<1> QED
  BY <1>3, <1>4, <1>5

\* extractvalue.
LEMMA ExtractValueOK ==
  ASSUME SoundTarget, IInv, NEW i \in 0 .. 1, visitExtractValueInst(i)
  PROVE  IInv'
<1> DEFINE e == convertBitVectorExprForType(IF i = 1 THEN "i1" ELSE "iN",
                  _sym_build_extract(agg, ElementOffset(i), StoreSize(i), LittleEndian))
<1>0. /\ struct \in Structs /\ Laid(agg, struct[0], struct[1])
      /\ struct[0] \in Ints /\ struct[1] \in Booleans
  BY StructFacts DEF IInv
<1>1. LittleEndian = TRUE /\ Bits % (2 * ByteBits) = 0
  BY TargetAssumption DEF SoundTarget
<1>2. Compute("extractvalue", struct[i], e)
  BY DEF visitExtractValueInst, Compute
<1>3. CASE i = 0
  <2>1. e = _sym_build_extract(agg, 0, IntBytes, LittleEndian)
    BY <1>3 DEF convertBitVectorExprForType, ElementOffset, StoreSize, IntBytes
  <2>2. _sym_build_extract(agg, 0, IntBytes, TRUE) = struct[0]
    BY <1>0, <1>1, ExtractInteger
  <2>3. e = struct[i] /\ struct[i] \in Results
    BY <1>0, <1>1, <1>3, <2>1, <2>2 DEF Results
  <2> HIDE DEF e
  <2> QED
    BY <1>2, <2>3, ComputeOK
<1>4. CASE i = 1
  <2> DEFINE d == _sym_build_extract(agg, IntBytes, 1, TRUE)
  <2>1. e = _sym_build_bit_to_bool(Extract(d, 0, 0))
    BY <1>1, <1>4 DEF convertBitVectorExprForType, ElementOffset, StoreSize, IntBytes
  <2>2. d \in Bytes(1) /\ d.v = struct[1].v
    BY <1>0, <1>1, ExtractByte
  <2> HIDE DEF d, e
  <2>3. e = struct[1]
    BY <1>0, <2>1, <2>2, FlagBack
  <2>4. struct[1] \in Results
    BY <1>0 DEF Results
  <2> QED
    BY <1>2, <1>4, <2>3, <2>4, ComputeOK
<1> QED
  BY <1>3, <1>4

\* Conversions.
LEMMA ConvertOK ==
  ASSUME IInv, Convert
  PROVE  IInv'
<1>1. ASSUME NEW x \in Ints, NEW bits \in {1, ByteBits},
             Compute("trunc", Truncated(x, bits), visitTruncInst(x, bits))
      PROVE  IInv'
  <2>1. visitTruncInst(x, bits) = Truncated(x, bits) /\ Truncated(x, bits) \in Results
    BY TruncOK DEF Results
  <2> QED
    BY <1>1, <2>1, ComputeOK
<1>2. ASSUME NEW opcode \in {"sext", "zext"}, NEW x \in Booleans \cup Values(ByteBits),
             Compute(opcode, Extended(opcode, x, Bits), visitCastInst(opcode, x, Bits))
      PROVE  IInv'
  <2>1. visitCastInst(opcode, x, Bits) = Extended(opcode, x, Bits) /\ Extended(opcode, x, Bits) \in Results
    BY CastOK DEF Results
  <2> QED
    BY <1>2, <2>1, ComputeOK
<1> QED
  BY <1>1, <1>2 DEF Convert

\* Addresses.
LEMMA AddressOK ==
  ASSUME SoundProgram, IInv, GetElementPtr
  PROVE  IInv'
<1>1. PICK p \in Ints, s \in Indices, t \in Elements, o \in 0 .. 1 :
        LET path == <<s, MemberStep(o), t>>
        IN  Compute("getelementptr", ElementAddress(p, path), visitGetElementPtrInst(p, path))
  BY DEF GetElementPtr
<1> DEFINE path == <<s, MemberStep(o), t>>
<1>2. SoundStep(s) /\ SoundStep(MemberStep(o)) /\ SoundStep(t)
  BY PathSteps DEF SoundProgram
<1>3. Len(path) = 3 /\ DOMAIN path = 1 .. 3 /\ path[1] = s /\ path[2] = MemberStep(o) /\ path[3] = t
  OBVIOUS
<1>4. Compute("getelementptr", ElementAddress(p, path), visitGetElementPtrInst(p, path))
  BY <1>1
<1> HIDE DEF path
<1>5. \A k \in 1 .. 3 : SoundStep(path[k])
  <2>1. \A k \in 1 .. 3 : k = 1 \/ k = 2 \/ k = 3
    OBVIOUS
  <2> QED
    BY <1>2, <1>3, <2>1
<1>6. /\ visitGetElementPtrInst(p, path) = ElementAddress(p, path)
      /\ ElementAddress(p, path) \in Ints
  BY <1>3, <1>5, GetElementPtrOK
<1>7. ElementAddress(p, path) \in Results
  BY <1>6 DEF Results
<1> QED
  BY <1>4, <1>6, <1>7, ComputeOK

\* Floating-point comparisons.
LEMMA ComparisonOK ==
  ASSUME SoundProgram, IInv, Compare
  PROVE  IInv'
<1>1. PICK pred \in Predicates, a \in Floats, b \in Floats :
        Compute("fcmp", FloatCompare(pred, a, b), visitCmpInst(pred, a, b))
  BY DEF Compare
<1>2. pred \in SoundPredicates
  BY DEF SoundProgram
<1>3. visitCmpInst(pred, a, b) = FloatCompare(pred, a, b)
  BY <1>2, CompareOK
<1>4. FloatCompare(pred, a, b) \in Results
  BY DEF FloatCompare, Bool, Booleans, Results
<1> QED
  BY <1>1, <1>3, <1>4, ComputeOK

\* A member of a concrete structure.
LEMMA ConcreteStructOK ==
  ASSUME SoundTarget, SoundProgram, IInv, ConcreteStruct
  PROVE  IInv'
<1> DEFINE M(x, y, layout) == IF layout = ByteLast THEN <<x, y>> ELSE <<y, x>>
           E(x, y, layout, i) == _sym_build_extract(createValueExpression(M(x, y, layout), layout),
                                                    layout.offset[i], layout.size[i], LittleEndian)
<1>1. PICK x \in Ints, y \in Values(ByteBits), layout \in {ByteFirst, ByteLast}, i \in 1 .. 2 :
        Compute("extractvalue", M(x, y, layout)[i], E(x, y, layout, i))
  <2>1. \A type \in Seconds : type = "i8"
    BY DEF SoundProgram, SoundSeconds
  <2>2. PICK x \in Ints, type \in Seconds, layout \in {ByteFirst, ByteLast}, i \in 1 .. 2 :
        \E y \in IF type = "i1" THEN Booleans ELSE Values(ByteBits) :
          LET types == IF layout = ByteLast THEN <<"iN", type>> ELSE <<type, "iN">>
          IN  Compute("extractvalue", M(x, y, layout)[i],
                      convertBitVectorExprForType(types[i], E(x, y, layout, i)))
    BY DEF ConcreteStruct
  <2> DEFINE types == IF layout = ByteLast THEN <<"iN", type>> ELSE <<type, "iN">>
  <2>3. types[i] # "i1"
    BY <2>1
  <2>4. PICK y \in Values(ByteBits) :
          Compute("extractvalue", M(x, y, layout)[i],
                  convertBitVectorExprForType(types[i], E(x, y, layout, i)))
    BY <2>1, <2>2
  <2> HIDE DEF types, M, E
  <2>5. convertBitVectorExprForType(types[i], E(x, y, layout, i)) = E(x, y, layout, i)
    BY <2>3 DEF convertBitVectorExprForType
  <2> QED
    BY <2>4, <2>5
<1>2. LittleEndian = TRUE /\ Bits % (2 * ByteBits) = 0
  BY TargetAssumption DEF SoundTarget
<1>3. y \in Bytes(1) /\ y = BV(ByteBits, y.v) /\ y.v \in Nat
  <2>1. 1 * ByteBits = ByteBits /\ ByteBits \in Nat
    BY BitsAssumption
  <2> QED
    BY <2>1, ValuesFacts, PowType DEF Bytes
<1>4. x \in Results /\ y \in Results
  BY DEF Results
<1>5. /\ IntBytes > 1 /\ IntBytes \in Nat /\ StructBytes = 2 * IntBytes
      /\ StructBytes \div 2 = IntBytes
  BY <1>2, StructSizes
<1>6. /\ ByteLast.offset[1] = 0 /\ ByteLast.offset[2] = IntBytes
      /\ ByteLast.size[1] = IntBytes /\ ByteLast.size[2] = 1
  BY DEF ByteLast, IntBytes
<1>7. /\ ByteFirst.offset[1] = 0 /\ ByteFirst.offset[2] = IntBytes
      /\ ByteFirst.size[1] = 1 /\ ByteFirst.size[2] = IntBytes
  BY <1>5 DEF ByteFirst, IntBytes
<1>8. ByteFirst # ByteLast
  BY <1>5, <1>6, <1>7
<1>9. i = 1 \/ i = 2
  OBVIOUS
<1>10. CASE layout = ByteLast
  <2> DEFINE a == createValueExpression(<<x, y>>, ByteLast)
  <2>1. Laid(a, x, y)
    BY <1>2, <1>3, ByteLastOK
  <2> HIDE DEF a
  <2>2. _sym_build_extract(a, 0, IntBytes, TRUE) = x
    BY <1>2, <2>1, ExtractInteger
  <2>3. _sym_build_extract(a, IntBytes, 1, TRUE) = y
    <3> DEFINE e == _sym_build_extract(a, IntBytes, 1, TRUE)
    <3>1. e \in Bytes(1) /\ e.v = y.v
      BY <1>2, <2>1, ExtractByte
    <3> HIDE DEF e
    <3>2. 1 \in Nat /\ e = BV(1 * ByteBits, e.v) /\ 1 * ByteBits = ByteBits
      BY <3>1, BytesFacts, BitsAssumption
    <3>3. e = y
      BY <1>3, <3>1, <3>2
    <3> QED
      BY <3>3 DEF e
  <2>4. M(x, y, layout) = <<x, y>> /\ createValueExpression(M(x, y, layout), layout) = a
    BY <1>10 DEF a
  <2>5. M(x, y, layout)[i] \in Results /\ E(x, y, layout, i) = M(x, y, layout)[i]
    <3>1. CASE i = 1
      BY <1>2, <1>4, <1>6, <1>10, <2>2, <2>4, <3>1
    <3>2. CASE i = 2
      BY <1>2, <1>4, <1>6, <1>10, <2>3, <2>4, <3>2
    <3> QED
      BY <1>9, <3>1, <3>2
  <2> HIDE DEF M, E
  <2> QED
    BY <1>1, <2>5, ComputeOK
<1>11. CASE layout = ByteFirst
  <2> DEFINE a == createValueExpression(<<y, x>>, ByteFirst)
  <2>1. _sym_build_extract(a, 0, 1, TRUE) = y /\ _sym_build_extract(a, IntBytes, IntBytes, TRUE) = x
    BY <1>2, <1>3, ByteFirstOK
  <2> HIDE DEF a
  <2>4. M(x, y, layout) = <<y, x>> /\ createValueExpression(M(x, y, layout), layout) = a
    BY <1>8, <1>11 DEF a
  <2>5. M(x, y, layout)[i] \in Results /\ E(x, y, layout, i) = M(x, y, layout)[i]
    <3>1. CASE i = 1
      BY <1>2, <1>4, <1>7, <1>11, <2>1, <2>4, <3>1
    <3>2. CASE i = 2
      BY <1>2, <1>4, <1>7, <1>11, <2>1, <2>4, <3>2
    <3> QED
      BY <1>9, <3>1, <3>2
  <2> HIDE DEF M, E
  <2> QED
    BY <1>1, <2>5, ComputeOK
<1> QED
  BY <1>10, <1>11

\* The result of an instruction has been used.
LEMMA UseResultOK ==
  ASSUME IInv, UseResult
  PROVE  IInv'
<1>1. struct' = struct /\ agg' = agg /\ out'.val = Bool(FALSE) /\ out'.expr = Bool(FALSE)
  BY DEF UseResult, Nothing
<1>2. Bool(FALSE) \in Results
  BY BoolFacts DEF Results
<1>3. Results' = Results /\ Structs' = Structs
  BY DEF Results, Structs, Member
<1> QED
  BY <1>1, <1>2, <1>3 DEF IInv

\* Every instruction keeps the invariant.
LEMMA NextOK ==
  ASSUME SoundTarget, SoundProgram, IInv, [Next]_vars
  PROVE  IInv'
<1>1. CASE \E op \in Scalar, a \in Ints, b \in Ints : CallScalar(op, a, b)
  BY <1>1, CallScalarOK
<1>2. CASE \E f \in Overflow, a \in Ints, b \in Ints : CallOverflow(f[1], f[2], a, b)
  BY <1>2, CallOverflowOK
<1>3. CASE \E m \in Inserted : \E x \in IF m[1] = 0 THEN Ints ELSE Booleans :
             visitInsertValueInst(m[1], x, m[2])
  BY <1>3, InsertValueOK
<1>5. CASE \E i \in 0 .. 1 : visitExtractValueInst(i)
  BY <1>5, ExtractValueOK
<1>6. CASE Convert
  BY <1>6, ConvertOK
<1>7. CASE GetElementPtr
  BY <1>7, AddressOK
<1>8. CASE Compare
  BY <1>8, ComparisonOK
<1>9. CASE ConcreteStruct
  BY <1>9, ConcreteStructOK
<1>10. CASE UseResult
  BY <1>10, UseResultOK
<1>11. CASE UNCHANGED vars
  <2>1. struct' = struct /\ agg' = agg /\ out' = out
    BY <1>11 DEF vars
  <2>2. Results' = Results /\ Structs' = Structs
    BY DEF Results, Structs, Member
  <2> QED
    BY <2>1, <2>2 DEF IInv
<1> QED
  BY <1>1, <1>2, <1>3, <1>5, <1>6, <1>7, <1>8, <1>9, <1>10, <1>11, Zenon DEF Next

\* The invariant holds in every state of the program.
LEMMA IntrinsicsInvariant ==
  ASSUME SoundTarget, SoundProgram
  PROVE  Spec => []IInv
<1>1. Init => IInv
  BY InitOK
<1>2. IInv /\ [Next]_vars => IInv'
  BY NextOK
<1> QED
  BY <1>1, <1>2, PTL DEF Spec

\* The expressions that the instrumentation builds are well-sorted: that of a
\* structure is a bit vector of all of its bytes, that of a result has the
\* sort and the width of the result, and no builder fails an assertion, for
\* every width of bytes and integers whose bytes _sym_build_bswap can swap,
\* in programs without the instructions that SoundProgram excludes.
THEOREM ResultsHaveWidths ==
  ASSUME SoundTarget, SoundProgram
  PROVE  Spec => []TypeOK
<1>1. IInv => TypeOK
  <2> SUFFICES ASSUME IInv PROVE TypeOK
    OBVIOUS
  <2>1. 2 * IntBytes \in Nat /\ StructBytes = 2 * IntBytes
    BY StructSizes DEF SoundTarget
  <2>2. agg \in Bytes(2 * IntBytes)
    BY DEF IInv, Laid
  <2>3. agg.w = StructBytes * ByteBits /\ agg.v \in 0 .. Pow2[agg.w] - 1
    BY <2>1, <2>2, BytesFacts DEF BytePow
  <2> QED
    BY <2>3 DEF IInv, TypeOK, Results
<1> QED
  BY <1>1, IntrinsicsInvariant, PTL

\* The expression of a saturating operation, abs, ntohl, a conversion, an
\* address or a comparison evaluates to what the instruction computes.
THEOREM ScalarExpressionsExact ==
  ASSUME SoundTarget, SoundProgram
  PROVE  Spec => []ScalarsExact
<1>1. IInv => ScalarsExact
  BY DEF IInv, ScalarsExact
<1> QED
  BY <1>1, IntrinsicsInvariant, PTL

\* Whatever signed overflow arithmetic and insertions built a structure, or if
\* it was a concrete one of integers, the expression extracted for a member
\* evaluates to that member and is of its sort.
THEOREM MemberExpressionsExact ==
  ASSUME SoundTarget, SoundProgram
  PROVE  Spec => []MembersExact
<1>1. IInv => MembersExact
  BY DEF IInv, MembersExact
<1> QED
  BY <1>1, IntrinsicsInvariant, PTL
=============================================================================
