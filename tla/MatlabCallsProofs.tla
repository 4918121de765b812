------------------------- MODULE MatlabCallsProofs -------------------------
(***************************************************************************)
(* What the Matlab functions hand to writeImage and what they return, for  *)
(* arrays of any sizes and any number of dimensions, and any widths of     *)
(* floats and integers.                                                    *)
(*                                                                         *)
(* First the arithmetic: of powers of 2, of the nearest integer, of floats *)
(* and their quotients, of products.  The inductive invariant then says    *)
(* what each part of a call hands to the next; with the numbers of         *)
(* writeImage, which stay as SetUp left them, it gives the queues room.    *)
(***************************************************************************)
EXTENDS MatlabCalls, Lemmas

\* The powers of 2, by their equation.
LEMMA PowDef ==
    /\ Pow2 \in [0 .. Bits + 2 -> Nat \ {0}]
    /\ Pow2[0] = 1
    /\ \A k \in 0 .. Bits + 1 : Pow2[k + 1] = 2 * Pow2[k]
<1> DEFINE Body(p) == [k \in 0 .. Bits + 2 |-> IF k = 0 THEN 1 ELSE 2 * p[k - 1]]
           step == [a \in Int |-> [k \in Nat |-> 2 * a]]
<1>0. Bits + 2 \in Nat /\ Bits \in Nat
  BY FloatSizesAssumption
<1>1. step \in [Int -> [Nat -> Int]]
  OBVIOUS
<1>2. PICK f \in [0 .. Bits + 2 -> Int] :
         \A k \in 0 .. Bits + 2 : f[k] = IF k = 0 THEN 1 ELSE step[f[k - 1]][k]
  <2> HIDE DEF step
  <2>1. PICK top \in Nat, base \in Int : top = Bits + 2 /\ base = 1
    BY <1>0
  <2>2. PICK f \in [0 .. top -> Int] : Recurs(f, top, base, step)
    BY <1>1, Recursion
  <2> QED
    BY <2>1, <2>2 DEF Recurs
<1>3. f = Body(f)
  <2>1. ASSUME NEW k \in 0 .. Bits + 2, k # 0
        PROVE  step[f[k - 1]][k] = 2 * f[k - 1]
    <3>1. k \in Nat /\ k - 1 \in 0 .. Bits + 2
      BY <1>0, <2>1
    <3> QED
      BY <3>1
  <2> HIDE DEF step
  <2> QED
    BY <1>2, <2>1
<1>4. Pow2 = CHOOSE p : p = Body(p)
  BY DEF Pow2
<1>5. Pow2 = Body(Pow2)
  <2> HIDE DEF Body
  <2> QED
    BY <1>3, <1>4
<1>6. \A k \in 0 .. Bits + 2 : Pow2[k] = IF k = 0 THEN 1 ELSE 2 * Pow2[k - 1]
  BY <1>5
<1>7. Pow2[0] = 1 /\ \A k \in 0 .. Bits + 1 : Pow2[k + 1] = 2 * Pow2[k]
  BY <1>0, <1>6
<1> DEFINE T == {k \in Nat : Pow2[k] \in Nat \ {0}}
<1>8. \A k \in 0 .. Bits + 2 : k \in T
  <2>1. 0 \in T
    BY <1>7
  <2>2. ASSUME NEW n \in Nat, n < Bits + 2, n \in T
        PROVE  n + 1 \in T
    BY <1>0, <1>7, <2>2
  <2> HIDE DEF T
  <2> QED
    BY <1>0, <2>1, <2>2, InductionUpTo
<1>9. Pow2 \in [0 .. Bits + 2 -> Nat \ {0}]
  BY <1>5, <1>8
<1> QED
  BY <1>7, <1>9

\* The product of two of them.
LEMMA PowSum ==
    ASSUME NEW i \in Nat, NEW j \in Nat, i + j <= Bits + 2
    PROVE  Pow2[i] * Pow2[j] = Pow2[i + j]
<1> DEFINE T == {n \in Nat : Pow2[n] * Pow2[j] = Pow2[n + j]}
<1>0. Bits \in Nat
  BY FloatSizesAssumption
<1>1. 0 \in T
  <2>1. Pow2[j] \in Nat
    BY <1>0, PowDef
  <2> QED
    BY <2>1, PowDef
<1>2. ASSUME NEW n \in Nat, n < i, n \in T
      PROVE  n + 1 \in T
  <2>1. Pow2[n + 1] = 2 * Pow2[n] /\ Pow2[n + j + 1] = 2 * Pow2[n + j]
    <3>1. n \in 0 .. Bits + 1 /\ n + j \in 0 .. Bits + 1
      BY <1>0, <1>2
    <3> QED
      BY <3>1, PowDef
  <2>2. PICK a \in Nat, b \in Nat, c \in Nat : a = Pow2[n] /\ b = Pow2[j] /\ c = Pow2[n + j]
    <3>1. n \in 0 .. Bits + 2 /\ j \in 0 .. Bits + 2 /\ n + j \in 0 .. Bits + 2
      BY <1>0, <1>2
    <3> QED
      BY <3>1, PowDef
  <2>3. a * b = c
    BY <1>2, <2>2
  <2>4. (2 * a) * b = 2 * c
    BY <2>3
  <2>5. n + 1 + j = n + j + 1
    OBVIOUS
  <2> QED
    BY <2>1, <2>2, <2>4, <2>5
<1>3. i \in T
  <2> HIDE DEF T
  <2>1. \A n \in 0 .. i : n \in T
    BY <1>1, <1>2, InductionUpTo
  <2> QED
    BY <2>1
<1> QED
  BY <1>3

\* The limits of floats and of integers.
LEMMA Limits ==
    /\ Exact \in Nat \ {0} /\ UInt \in Nat \ {0}
    /\ \E h \in Nat \ {0} : Exact = 2 * h
    /\ Mantissa \in Nat \ {0} /\ Bits \in Nat /\ Mantissa < Bits /\ Bits + 2 - Mantissa \in Nat
    /\ Exact * Pow2[Bits + 2 - Mantissa] = 4 * UInt
    /\ Exact * Pow2[Bits - Mantissa] = UInt
    /\ \A k \in 0 .. Bits + 2 - Mantissa : Pow2[k] \in Nat \ {0}
    /\ \A k \in 0 .. Mantissa : Pow2[k] \in Nat \ {0}
<1>1. Mantissa \in Nat \ {0} /\ Bits \in Nat /\ Mantissa < Bits
  BY FloatSizesAssumption
<1>2. \A k \in 0 .. Bits + 2 : Pow2[k] \in Nat \ {0}
  BY PowDef
<1>3. Exact \in Nat \ {0} /\ UInt \in Nat \ {0}
  <2>1. Mantissa \in 0 .. Bits + 2 /\ Bits \in 0 .. Bits + 2
    BY <1>1
  <2> QED
    BY <1>2, <2>1 DEF Exact, UInt
<1>4. \E h \in Nat \ {0} : Exact = 2 * h
  <2>1. Mantissa - 1 \in 0 .. Bits + 1 /\ Mantissa - 1 \in 0 .. Bits + 2 /\ Mantissa - 1 + 1 = Mantissa
    BY <1>1
  <2>2. Pow2[Mantissa] = 2 * Pow2[Mantissa - 1]
    BY <2>1, PowDef
  <2>3. Pow2[Mantissa - 1] \in Nat \ {0}
    BY <1>2, <2>1
  <2> QED
    BY <2>2, <2>3 DEF Exact
<1>5. Exact * Pow2[Bits + 2 - Mantissa] = 4 * UInt
  <2>1. PICK m \in Nat, j \in Nat, s \in Nat : m = Mantissa /\ j = Bits + 2 - Mantissa /\ s = Bits + 2 /\ m + j = s
    BY <1>1
  <2>2. Pow2[m] * Pow2[j] = Pow2[s]
    BY <2>1, PowSum
  <2>3. Pow2[Bits + 1] = 2 * Pow2[Bits] /\ Pow2[Bits + 1 + 1] = 2 * Pow2[Bits + 1] /\ Bits + 1 + 1 = Bits + 2
    BY <1>1, PowDef
  <2>4. Pow2[Bits + 2] = 4 * UInt
    BY <1>3, <2>3 DEF UInt
  <2> QED
    BY <2>1, <2>2, <2>4 DEF Exact
<1>6. Exact * Pow2[Bits - Mantissa] = UInt
  <2>1. PICK m \in Nat, j \in Nat, s \in Nat : m = Mantissa /\ j = Bits - Mantissa /\ s = Bits /\ m + j = s
    BY <1>1
  <2>2. Pow2[m] * Pow2[j] = Pow2[s]
    BY <2>1, PowSum
  <2> QED
    BY <2>1, <2>2 DEF Exact, UInt
<1>7. /\ \A k \in 0 .. Bits + 2 - Mantissa : Pow2[k] \in Nat \ {0}
      /\ \A k \in 0 .. Mantissa : Pow2[k] \in Nat \ {0}
  BY <1>1, <1>2
<1> QED
  BY <1>1, <1>3, <1>4, <1>5, <1>6, <1>7

\* A set of numbers has a smallest, and one with a bound a largest.
LEMMA MinOf ==
    ASSUME NEW S \in SUBSET Nat, S # {}
    PROVE  Min(S) \in S /\ \A y \in S : Min(S) <= y
<1> DEFINE R == {ss \in Nat \X Nat : ss[1] < ss[2]}
<1>1. IsWellFoundedOn(R, Nat)
  BY Zenon, NatLessThanWellFounded DEF OpToRel
<1>2. PICK k \in S : \A y \in S : ~ (<<y, k>> \in R)
  <2> HIDE DEF R
  <2> QED
    BY <1>1, WFMin
<1>3. \A y \in S : k <= y
  <2> TAKE y \in S
  <2>1. y \in Nat /\ k \in Nat
    OBVIOUS
  <2>2. ~ (<<y, k>> \in R)
    BY <1>2
  <2> QED
    BY <2>1, <2>2
<1>4. Min(S) \in S /\ \A y \in S : Min(S) <= y
  <2> HIDE DEF R
  <2> QED
    BY <1>3 DEF Min
<1> QED
  BY <1>4

\* And one with a bound a largest.
LEMMA MaxOf ==
    ASSUME NEW top \in Nat, NEW S \in SUBSET (0 .. top), S # {}
    PROVE  Max(S) \in S /\ \A y \in S : y <= Max(S)
<1> DEFINE R == {top - y : y \in S}
<1>1. R \in SUBSET Nat /\ R # {}
  <2>1. \A y \in S : y \in 0 .. top
    OBVIOUS
  <2>2. \A y \in S : top - y \in Nat
    BY <2>1
  <2> QED
    BY <2>2
<1>2. Min(R) \in R /\ \A y \in R : Min(R) <= y
  <2> HIDE DEF R
  <2> QED
    BY <1>1, MinOf
<1>3. PICK k \in S : Min(R) = top - k
  BY <1>2
<1>4. \A y \in S : k >= y
  <2> TAKE y \in S
  <2>1. top - k <= top - y
    BY <1>2, <1>3
  <2> QED
    BY <2>1
<1>5. \E x \in S : \A y \in S : x >= y
  BY <1>4
<1>6. Max(S) \in S /\ \A y \in S : Max(S) >= y
  BY <1>5 DEF Max
<1> QED
  BY <1>6

\* How far a quotient is from the numbers that are floats: p halvings bring it below
\* Exact, and with one less it is not.
Halved(a, b, k, p) ==
    /\ k \in 0 .. Bits + 2 - Mantissa
    /\ p \in Nat \ {0} /\ p = Pow2[k]
    /\ a < (b * Exact) * p
    /\ k = 0 => p = 1
    /\ k > 0 => \E h \in Nat \ {0} : h = Pow2[k - 1] /\ p = 2 * h /\ (b * Exact) * h <= a
    /\ \A j \in 0 .. Bits + 2 - Mantissa : a < (b * Exact) * Pow2[j] => k <= j

\* The halvings of a quotient are those.
LEMMA HalvingsIs ==
    ASSUME NEW a \in Nat, NEW b \in Nat \ {0}, a < b * (4 * UInt)
    PROVE  Halved(a, b, Halvings(a, b), Pow2[Halvings(a, b)])
<1> DEFINE top == Bits + 2 - Mantissa
           H == {j \in 0 .. top : a < b * Exact * Pow2[j]}
<1>1. top \in Nat /\ top \in H
  <2>1. PICK e \in Nat, u \in Nat, q \in Nat : e = Exact /\ u = UInt /\ q = Pow2[top] /\ e * q = 4 * u /\ top \in Nat
    BY Limits
  <2>2. (b * e) * q = b * (e * q)
    OBVIOUS
  <2>3. a < b * e * q
    BY <2>1, <2>2
  <2> QED
    BY <2>1, <2>3
<1>2. Halvings(a, b) = Min(H)
  BY DEF Halvings
<1>3. H \in SUBSET Nat
  OBVIOUS
<1> DEFINE m == Min(H)
<1>4. m \in H /\ \A y \in H : m <= y
  <2> HIDE DEF H
  <2> QED
    BY <1>1, <1>3, MinOf
<1>5. PICK k \in 0 .. top : k = Halvings(a, b) /\ a < b * Exact * Pow2[k]
                            /\ \A j \in 0 .. top : a < b * Exact * Pow2[j] => k <= j
  BY <1>2, <1>4
<1>6. PICK p \in Nat \ {0} : p = Pow2[k]
  BY Limits
<1>7. k = 0 => p = 1
  BY <1>6, PowDef
<1>8. k > 0 => \E h \in Nat \ {0} : h = Pow2[k - 1] /\ p = 2 * h /\ (b * Exact) * h <= a
  <2> SUFFICES ASSUME k > 0 PROVE \E h \in Nat \ {0} : h = Pow2[k - 1] /\ p = 2 * h /\ (b * Exact) * h <= a
    OBVIOUS
  <2>1. PICK j \in 0 .. top : j = k - 1
    BY <1>1
  <2>2. PICK h \in Nat \ {0} : h = Pow2[j]
    BY Limits
  <2>3. p = 2 * h
    <3>1. j \in 0 .. Bits + 1 /\ j + 1 = k
      BY <2>1, Limits
    <3> QED
      BY <1>6, <2>2, <3>1, PowDef
  <2>4. ~ (a < b * Exact * h)
    BY <1>5, <2>1, <2>2
  <2>5. (b * Exact) * h \in Nat
    BY Limits
  <2> QED
    BY <2>1, <2>2, <2>3, <2>4, <2>5
<1> QED
  BY <1>5, <1>6, <1>7, <1>8 DEF Halved

\* The nearest integer, between the quotient and the next.
LEMMA NearestIs ==
    ASSUME NEW a \in Nat, NEW b \in Nat \ {0}
    PROVE  \E q \in Nat, r \in Nat :
              /\ a = b * q + r /\ r < b
              /\ Nearest(a, b) \in {q, q + 1}
              /\ 2 * r < b => Nearest(a, b) = q
              /\ 2 * r > b => Nearest(a, b) = q + 1
              /\ 2 * r = b => Nearest(a, b) = IF q % 2 = 0 THEN q ELSE q + 1
<1>1. PICK q \in Nat, r \in Nat : q = a \div b /\ r = a % b /\ r < b /\ a = b * q + r
  BY Division
<1>2. Nearest(a, b) = IF 2 * r < b \/ (2 * r = b /\ q % 2 = 0) THEN q ELSE q + 1
  BY <1>1 DEF Nearest
<1> QED
  BY <1>1, <1>2

\* It is between any two integers the quotient is between.
LEMMA NearestBetween ==
    ASSUME NEW a \in Nat, NEW b \in Nat \ {0}
    PROVE  /\ Nearest(a, b) \in Nat
           /\ \A m \in Nat : b * m <= a => m <= Nearest(a, b)
           /\ \A m \in Nat : a <= b * m => Nearest(a, b) <= m
<1>1. PICK q \in Nat, r \in Nat :
              /\ a = b * q + r /\ r < b
              /\ Nearest(a, b) \in {q, q + 1}
              /\ 2 * r < b => Nearest(a, b) = q
  BY NearestIs
<1>2. ASSUME NEW m \in Nat, b * m <= a PROVE m <= q
  <2> SUFFICES ASSUME q + 1 <= m PROVE FALSE
    OBVIOUS
  <2>1. b * (q + 1) <= b * m
    BY Monotone
  <2>2. b * (q + 1) = b * q + b /\ b * q \in Nat /\ b * m \in Nat
    OBVIOUS
  <2> QED
    BY <1>1, <1>2, <2>1, <2>2
<1>3. ASSUME NEW m \in Nat, a <= b * m PROVE Nearest(a, b) <= m
  <2>1. CASE r = 0
    <3>1. q <= m
      <4> SUFFICES ASSUME m + 1 <= q PROVE FALSE
        OBVIOUS
      <4>1. b * (m + 1) <= b * q
        BY Monotone
      <4>2. b * (m + 1) = b * m + b /\ b * q \in Nat /\ b * m \in Nat
        OBVIOUS
      <4> QED
        BY <1>1, <1>3, <4>1, <4>2
    <3>2. Nearest(a, b) = q
      BY <1>1, <2>1
    <3> QED
      BY <3>1, <3>2
  <2>2. CASE r # 0
    <3>1. q < m
      <4> SUFFICES ASSUME m <= q PROVE FALSE
        OBVIOUS
      <4>1. b * m <= b * q
        BY Monotone
      <4>2. b * q \in Nat /\ b * m \in Nat
        OBVIOUS
      <4> QED
        BY <1>1, <1>3, <2>2, <4>1, <4>2
    <3> QED
      BY <1>1, <3>1
  <2> QED
    BY <2>1, <2>2
<1>4. Nearest(a, b) \in Nat /\ q <= Nearest(a, b)
  BY <1>1
<1> QED
  BY <1>2, <1>3, <1>4

\* Of a multiple it is the factor.
LEMMA NearestOfMultiple ==
    ASSUME NEW b \in Nat \ {0}, NEW m \in Nat
    PROVE  Nearest(b * m, b) = m
<1>1. PICK a \in Nat : a = b * m
  OBVIOUS
<1>2. Nearest(a, b) \in Nat /\ m <= Nearest(a, b) /\ Nearest(a, b) <= m
  BY <1>1, NearestBetween
<1> QED
  BY <1>1, <1>2

\* It grows with the numerator.
LEMMA NearestGrows ==
    ASSUME NEW a \in Nat, NEW c \in Nat, NEW b \in Nat \ {0}, a <= c
    PROVE  Nearest(a, b) <= Nearest(c, b)
<1>1. PICK q \in Nat, r \in Nat :
              /\ a = b * q + r /\ r < b
              /\ Nearest(a, b) \in {q, q + 1}
              /\ 2 * r < b => Nearest(a, b) = q
              /\ 2 * r > b => Nearest(a, b) = q + 1
              /\ 2 * r = b => Nearest(a, b) = IF q % 2 = 0 THEN q ELSE q + 1
  BY NearestIs
<1>2. PICK q2 \in Nat, r2 \in Nat :
              /\ c = b * q2 + r2 /\ r2 < b
              /\ Nearest(c, b) \in {q2, q2 + 1}
              /\ 2 * r2 < b => Nearest(c, b) = q2
              /\ 2 * r2 > b => Nearest(c, b) = q2 + 1
              /\ 2 * r2 = b => Nearest(c, b) = IF q2 % 2 = 0 THEN q2 ELSE q2 + 1
  BY NearestIs
<1>3. q <= q2
  <2> SUFFICES ASSUME q2 + 1 <= q PROVE FALSE
    OBVIOUS
  <2>1. b * (q2 + 1) <= b * q
    BY Monotone
  <2>2. b * (q2 + 1) = b * q2 + b /\ b * q \in Nat /\ b * q2 \in Nat
    OBVIOUS
  <2> QED
    BY <1>1, <1>2, <2>1, <2>2
<1>4. CASE q < q2
  BY <1>1, <1>2, <1>4
<1>5. CASE q = q2
  <2>1. r <= r2
    <3>1. b * q \in Nat
      OBVIOUS
    <3> QED
      BY <1>1, <1>2, <1>5, <3>1
  <2>2. PICK n \in Nat, n2 \in Nat : n = Nearest(a, b) /\ n2 = Nearest(c, b)
    BY <1>1, <1>2
  <2> QED
    BY <1>1, <1>2, <1>5, <2>1, <2>2
<1> QED
  BY <1>3, <1>4, <1>5

\* A greater power is a greater number.
LEMMA PowGrows ==
    ASSUME NEW i \in Nat, NEW j \in Nat, i <= j, j <= Bits + 2
    PROVE  Pow2[i] <= Pow2[j]
<1>1. PICK d \in Nat : d = j - i /\ i + d = j
  OBVIOUS
<1>2. Pow2[i] * Pow2[d] = Pow2[j]
  BY <1>1, PowSum
<1>3. PICK a \in Nat \ {0}, b \in Nat \ {0} : a = Pow2[i] /\ b = Pow2[d]
  <2>1. i \in 0 .. Bits + 2 /\ d \in 0 .. Bits + 2
    BY <1>1, Limits
  <2> QED
    BY <2>1, PowDef
<1>4. a * 1 <= a * b
  BY Monotone
<1> QED
  BY <1>2, <1>3, <1>4

\* How far an integer is from being a float.
LEMMA FloatOf ==
    ASSUME NEW n \in Nat, n < 4 * UInt
    PROVE  \E k \in 0 .. Bits + 2 - Mantissa : \E p \in Nat \ {0} :
              /\ p = Pow2[k] /\ ToFloat(n) = Nearest(n, p) * p
              /\ n < Exact * p
              /\ k = 0 => p = 1
              /\ k > 0 => \E h \in Nat \ {0} : h = Pow2[k - 1] /\ p = 2 * h /\ Exact * h <= n
              /\ \A j \in 0 .. Bits + 2 - Mantissa : n < Exact * Pow2[j] => k <= j
<1>1. PICK b \in Nat \ {0} : b = 1
  OBVIOUS
<1>2. n < b * (4 * UInt)
  BY <1>1, Limits
<1>3. Halved(n, b, Halvings(n, b), Pow2[Halvings(n, b)])
  BY <1>2, HalvingsIs
<1>4. PICK k, p : k = Halvings(n, 1) /\ p = Pow2[k] /\ Halved(n, 1, k, p)
  BY <1>1, <1>3
<1>5. 1 * Exact = Exact
  BY Limits
<1>6. ToFloat(n) = Nearest(n, p) * p
  BY <1>4 DEF ToFloat
<1> QED
  BY <1>4, <1>5, <1>6 DEF Halved

\* Up to Exact, every integer is one.
LEMMA ToFloatExact ==
    ASSUME NEW n \in Nat, n <= Exact
    PROVE  ToFloat(n) = n
<1>1. PICK e \in Nat \ {0}, u \in Nat \ {0}, h \in Nat \ {0} :
         e = Exact /\ u = UInt /\ e = 2 * h /\ n <= e
  BY Limits
<1>2. e <= u
  <2>1. Mantissa \in Nat /\ Bits \in Nat /\ Mantissa <= Bits /\ Bits <= Bits + 2
    BY Limits
  <2>2. Pow2[Mantissa] <= Pow2[Bits]
    BY <2>1, PowGrows
  <2> QED
    BY <1>1, <2>2 DEF Exact, UInt
<1>3. PICK k \in 0 .. Bits + 2 - Mantissa, p \in Nat \ {0} :
              /\ p = Pow2[k] /\ ToFloat(n) = Nearest(n, p) * p
              /\ n < e * p
              /\ k = 0 => p = 1
              /\ \A j \in 0 .. Bits + 2 - Mantissa : n < e * Pow2[j] => k <= j
  <2>1. n < 4 * UInt
    BY <1>1, <1>2
  <2> QED
    BY <1>1, <2>1, FloatOf
<1>4. /\ 0 \in 0 .. Bits + 2 - Mantissa /\ 1 \in 0 .. Bits + 2 - Mantissa
      /\ Pow2[0] = 1 /\ Pow2[1] = 2
  <2>1. 0 \in 0 .. Bits + 1 /\ 0 + 1 = 1
    BY Limits
  <2> QED
    BY <2>1, Limits, PowDef
<1>5. CASE n < e
  <2>1. n < e * 1
    BY <1>5
  <2>2. k = 0 /\ p = 1
    BY <1>3, <1>4, <2>1
  <2>3. Nearest(1 * n, 1) = n
    BY NearestOfMultiple
  <2> QED
    BY <1>3, <2>2, <2>3
<1>6. CASE n = e
  <2>1. n < e * 2
    BY <1>6
  <2>2. k <= 1
    BY <1>3, <1>4, <2>1
  <2>3. k # 0
    <3>1. ~ (n < e * 1)
      BY <1>6
    <3> QED
      BY <1>3, <3>1
  <2>4. k = 1 /\ p = 2
    BY <1>3, <1>4, <2>2, <2>3
  <2>5. Nearest(2 * h, 2) = h
    BY NearestOfMultiple
  <2> QED
    BY <1>1, <1>3, <1>6, <2>4, <2>5
<1> QED
  BY <1>1, <1>5, <1>6

\* A float that is no integer below UInt any more is UInt; none is 0 that was not; and
\* greater integers are greater floats.
LEMMA ToFloatType ==
    ASSUME NEW n \in Nat, n < 4 * UInt
    PROVE  ToFloat(n) \in Nat
<1>1. PICK p \in Nat \ {0} : ToFloat(n) = Nearest(n, p) * p
  BY FloatOf
<1>2. Nearest(n, p) \in Nat
  BY NearestBetween
<1> QED
  BY <1>1, <1>2

\* An integer below UInt is a float no larger than UInt, and 0 only if it was.
LEMMA ToFloatBounds ==
    ASSUME NEW n \in Nat \ {0}, n < UInt
    PROVE  ToFloat(n) \in Nat \ {0} /\ ToFloat(n) <= UInt
<1>1. PICK e \in Nat \ {0}, u \in Nat \ {0}, g \in Nat \ {0} :
         e = Exact /\ u = UInt /\ e = 2 * g
  BY Limits
<1>2. PICK k \in 0 .. Bits + 2 - Mantissa, p \in Nat \ {0} :
              /\ p = Pow2[k] /\ ToFloat(n) = Nearest(n, p) * p
              /\ n < e * p
              /\ k = 0 => p = 1
              /\ k > 0 => \E h \in Nat \ {0} : h = Pow2[k - 1] /\ p = 2 * h /\ e * h <= n
              /\ \A j \in 0 .. Bits + 2 - Mantissa : n < e * Pow2[j] => k <= j
  <2>1. n < 4 * UInt
    BY <1>1
  <2> QED
    BY <1>1, <2>1, FloatOf
<1>3. PICK f \in Nat : f = Nearest(n, p) /\ f <= e /\ \A m \in Nat : p * m <= n => m <= f
  <2>1. e * p = p * e
    OBVIOUS
  <2>2. n <= p * e
    BY <1>2, <2>1
  <2> QED
    BY <2>2, NearestBetween
<1>4. f # 0
  <2>1. PICK w \in Nat : w = 1
    OBVIOUS
  <2>2. p <= n
    <3>1. CASE k = 0
      BY <1>2, <3>1
    <3>2. CASE k > 0
      <4>1. PICK h \in Nat \ {0} : p = 2 * h /\ e * h <= n
        BY <1>2, <3>2
      <4>2. e * h = 2 * (g * h) /\ g * h \in Nat
        BY <1>1
      <4>3. 1 * h <= g * h
        BY Monotone
      <4> QED
        BY <4>1, <4>2, <4>3
    <3> QED
      BY <3>1, <3>2
  <2>3. p * w <= n
    BY <2>1, <2>2
  <2>4. w <= f
    BY <1>3, <2>3
  <2> QED
    BY <2>1, <2>4
<1>5. f * p <= u
  <2>1. PICK j \in 0 .. Bits + 2 - Mantissa : j = Bits - Mantissa
    BY Limits
  <2>2. PICK q \in Nat \ {0} : q = Pow2[j] /\ e * q = u
    BY <1>1, <2>1, Limits
  <2>3. k <= j
    BY <1>1, <1>2, <2>2
  <2>4. p <= q
    <3>1. k \in Nat /\ j \in Nat /\ j <= Bits + 2
      BY <2>1, Limits
    <3> QED
      BY <1>2, <2>2, <2>3, <3>1, PowGrows
  <2>5. f * p <= e * q
    BY <1>3, <2>4, Monotone
  <2> QED
    BY <2>2, <2>5
<1>6. f * p \in Nat \ {0}
  BY <1>3, <1>4, Positive
<1> QED
  BY <1>1, <1>2, <1>3, <1>5, <1>6

\* A number is half a pixel or none, or as a float it is a whole pixel too.
LEMMA ToFloatPixel ==
    ASSUME NEW n \in Nat, n < 4 * UInt
    PROVE  ToFloat(n) \div 2 \in Nat /\ (ToFloat(n) \div 2 = 0 <=> n < 2)
<1>1. PICK e \in Nat \ {0}, g \in Nat \ {0} : e = Exact /\ e = 2 * g
  BY Limits
<1>2. PICK k \in 0 .. Bits + 2 - Mantissa, p \in Nat \ {0} :
              /\ ToFloat(n) = Nearest(n, p) * p
              /\ n < e * p
              /\ k = 0 => p = 1
              /\ k > 0 => \E h \in Nat \ {0} : p = 2 * h /\ e * h <= n
  BY <1>1, FloatOf
<1>3. CASE k = 0
  <2>1. n <= e
    BY <1>2, <1>3
  <2>2. ToFloat(n) = n
    BY <1>1, <2>1, ToFloatExact
  <2> QED
    BY <2>2
<1>4. CASE k > 0
  <2>1. PICK h \in Nat \ {0} : p = 2 * h /\ e * h <= n
    BY <1>2, <1>4
  <2>2. p * g <= n /\ 1 * 2 <= p * g
    <3>1. e * h = p * g
      BY <1>1, <2>1
    <3>2. p * 1 <= p * g
      BY Monotone
    <3> QED
      BY <2>1, <3>1, <3>2
  <2>3. PICK f \in Nat : f = Nearest(n, p) /\ g <= f
    BY <2>2, NearestBetween
  <2>4. PICK z \in Nat : z = f * h /\ 1 <= z
    BY <2>1, <2>3, Positive
  <2>5. ToFloat(n) = 2 * z
    BY <1>2, <2>1, <2>3, <2>4
  <2>6. 2 <= n
    BY <2>2
  <2> QED
    BY <2>4, <2>5, <2>6
<1> QED
  BY <1>3, <1>4

\* Greater integers are greater floats, or the same.
LEMMA ToFloatGrows ==
    ASSUME NEW m \in Nat, NEW n \in Nat, m <= n, n < UInt
    PROVE  ToFloat(m) <= ToFloat(n)
<1>1. PICK e \in Nat \ {0}, u \in Nat \ {0}, g \in Nat \ {0} :
         e = Exact /\ u = UInt /\ e = 2 * g
  BY Limits
<1>0. m < 4 * UInt /\ n < 4 * UInt
  BY <1>1
<1>2. PICK k \in 0 .. Bits + 2 - Mantissa, p \in Nat \ {0} :
              /\ p = Pow2[k] /\ ToFloat(m) = Nearest(m, p) * p
              /\ m < e * p
              /\ \A j \in 0 .. Bits + 2 - Mantissa : m < e * Pow2[j] => k <= j
  BY <1>0, <1>1, FloatOf
<1>3. PICK i \in 0 .. Bits + 2 - Mantissa, q \in Nat \ {0} :
              /\ q = Pow2[i] /\ ToFloat(n) = Nearest(n, q) * q
              /\ n < e * q
              /\ i > 0 => \E h \in Nat \ {0} : h = Pow2[i - 1] /\ q = 2 * h /\ e * h <= n
  BY <1>0, <1>1, FloatOf
<1>4. PICK a \in Nat, c \in Nat : a = Nearest(m, p) /\ c = Nearest(n, q)
  BY NearestBetween
<1>5. k <= i
  <2>1. m < e * q
    <3>1. e * q \in Nat
      OBVIOUS
    <3> QED
      BY <1>3, <3>1
  <2> QED
    BY <1>2, <1>3, <2>1
<1>6. CASE k = i
  <2>1. a <= c
    BY <1>2, <1>3, <1>4, <1>6, NearestGrows
  <2>2. a * p <= c * p
    BY <2>1, Monotone
  <2> QED
    BY <1>2, <1>3, <1>4, <1>6, <2>2
<1>7. CASE k < i
  <2>1. PICK h \in Nat \ {0} : h = Pow2[i - 1] /\ q = 2 * h /\ e * h <= n
    BY <1>3, <1>7
  <2>2. p <= h
    <3>1. PICK j \in Nat : j = i - 1 /\ k <= j /\ j <= Bits + 2
      BY <1>7, Limits
    <3> QED
      BY <1>2, <2>1, <3>1, PowGrows
  <2>3. a <= e
    <3>1. e * p = p * e
      OBVIOUS
    <3>2. m <= p * e
      BY <1>2, <3>1
    <3> QED
      BY <1>4, <3>2, NearestBetween
  <2>4. g <= c
    <3>1. q * g = e * h
      BY <1>1, <2>1
    <3> QED
      BY <1>4, <2>1, <3>1, NearestBetween
  <2>5. a * p <= e * h
    BY <2>2, <2>3, Monotone
  <2>6. g * q <= c * q
    BY <2>4, Monotone
  <2>7. g * q = e * h
    BY <1>1, <2>1
  <2>8. a * p \in Nat /\ g * q \in Nat /\ c * q \in Nat
    OBVIOUS
  <2> QED
    BY <1>2, <1>3, <1>4, <2>5, <2>6, <2>7, <2>8
<1> QED
  BY <1>5, <1>6, <1>7

\* A float of four bits or more is off by less than a fifteenth.
LEMMA ToFloatNear ==
    ASSUME 16 <= Exact, NEW n \in Nat, n < 4 * UInt
    PROVE  ToFloat(n) \in Nat /\ 15 * n <= 16 * ToFloat(n) /\ 16 * ToFloat(n) <= 17 * n
<1>1. PICK e \in Nat \ {0} : e = Exact /\ 16 <= e
  BY Limits
<1>2. PICK k \in 0 .. Bits + 2 - Mantissa, p \in Nat \ {0} :
              /\ ToFloat(n) = Nearest(n, p) * p
              /\ k = 0 => p = 1
              /\ k > 0 => \E h \in Nat \ {0} : p = 2 * h /\ e * h <= n
  BY <1>1, FloatOf
<1>3. PICK q \in Nat, r \in Nat :
              /\ n = p * q + r /\ r < p
              /\ Nearest(n, p) \in {q, q + 1}
              /\ 2 * r < p => Nearest(n, p) = q
              /\ 2 * r > p => Nearest(n, p) = q + 1
              /\ 2 * r = p => Nearest(n, p) = IF q % 2 = 0 THEN q ELSE q + 1
  BY Zenon, NearestIs
<1>4. PICK z \in Nat : z = p * q
  OBVIOUS
<1>5. p * (q + 1) = z + p /\ q * p = z /\ (q + 1) * p = z + p
  BY <1>4
<1>6. PICK f \in Nat : f = ToFloat(n) /\ f \in {z, z + p} /\ (2 * r < p => f = z) /\ (2 * r > p => f = z + p)
  BY <1>2, <1>3, <1>5
<1>7. CASE k = 0
  BY <1>2, <1>3, <1>4, <1>6, <1>7
<1>8. CASE k > 0
  <2>1. PICK h \in Nat \ {0} : p = 2 * h /\ e * h <= n
    BY <1>2, <1>8
  <2>2. 16 * h <= e * h
    BY <1>1, Monotone
  <2>3. 16 * h <= n /\ n = z + r
    BY <1>1, <1>3, <1>4, <2>1, <2>2
  <2>4. f <= n + h /\ n <= f + h
    BY <1>3, <1>6, <2>1, <2>3
  <2> QED
    BY <1>6, <2>3, <2>4
<1> QED
  BY <1>2, <1>7, <1>8

\* Twice a block and the overhead is room for the block that grew by a third, counted
\* in floats too.
LEMMA RoomToGrow ==
    ASSUME 16 <= Exact, 2 * CompressionOverhead <= Exact,
           NEW bytes \in Nat \ {0}, bytes < UInt,
           2 * ToFloat(bytes) + CompressionOverhead < UInt
    PROVE  ToFloat(2 * ToFloat(bytes) + CompressionOverhead)
             >= (4 * bytes) \div 3 + CompressionOverhead
<1>1. PICK e \in Nat \ {0}, u \in Nat \ {0}, c \in Nat :
         e = Exact /\ u = UInt /\ c = CompressionOverhead /\ 16 <= e /\ 2 * c <= e
  BY Limits, FloatSizesAssumption DEF UInt
<1>2. PICK f \in Nat : f = ToFloat(bytes) /\ 15 * bytes <= 16 * f /\ 16 * f <= 17 * bytes
  BY <1>1, ToFloatNear
<1>3. PICK n \in Nat : n = 2 * f + c /\ n < u
  BY <1>1, <1>2
<1>4. PICK g \in Nat : g = ToFloat(n) /\ 15 * n <= 16 * g
  BY <1>1, <1>3, ToFloatNear
<1>5. 3 * ((4 * bytes) \div 3) <= 4 * bytes /\ (4 * bytes) \div 3 \in Nat
  OBVIOUS
<1>6. CASE n <= e
  <2>1. g = n
    BY <1>1, <1>3, <1>4, <1>6, ToFloatExact
  <2>2. f = bytes
    <3>1. bytes <= e
      BY <1>1, <1>2, <1>3, <1>6
    <3> QED
      BY <1>1, <1>2, <3>1, ToFloatExact
  <2>3. g = 2 * bytes + c
    BY <1>3, <2>1, <2>2
  <2> QED
    BY <1>1, <1>2, <1>3, <1>4, <1>5, <2>3
<1>7. CASE n > e
  <2>1. c <= 3 * bytes
    BY <1>1, <1>2, <1>3, <1>7
  <2>2. 3 * g >= 4 * bytes + 3 * c
    BY <1>2, <1>3, <1>4, <2>1
  <2> QED
    BY <1>1, <1>2, <1>3, <1>4, <1>5, <2>2
<1> QED
  BY <1>1, <1>3, <1>6, <1>7

\* The quotient rounded up, by what it is between.
LEMMA CeilIs ==
    ASSUME NEW a \in Nat \ {0}, NEW b \in Nat \ {0}, NEW m \in Nat,
           b * m < a, a <= b * (m + 1)
    PROVE  Ceil(a, b) = m + 1
<1>1. PICK n \in Nat : n = a + b - 1
  OBVIOUS
<1>2. PICK q \in Nat, r \in Nat : q = n \div b /\ n = b * q + r /\ r < b
  BY Division
<1>3. PICK z \in Nat : z = b * m
  OBVIOUS
<1>4. b * (m + 1) = z + b
  BY <1>3
<1>5. PICK s \in Nat : s = n - (z + b) /\ s < b
  BY <1>1, <1>3, <1>4
<1>6. PICK m1 \in Nat : m1 = m + 1
  OBVIOUS
<1>7. b * m1 + s = b * q + r
  BY <1>1, <1>2, <1>4, <1>5, <1>6
<1>8. m1 = q
  BY <1>2, <1>5, <1>7, OneQuotient
<1> QED
  BY <1>1, <1>2, <1>6, <1>8 DEF Ceil

\* How many doublings keep a quotient that is below Exact there.
LEMMA DoublingsIs ==
    ASSUME NEW a \in Nat, NEW b \in Nat, a < b * Exact
    PROVE  \E d \in 0 .. Mantissa : \E p \in Nat \ {0} :
              /\ d = Doublings(a, b) /\ p = Pow2[d] /\ a * p < b * Exact
              /\ d = Mantissa => p = Exact
              /\ d < Mantissa => b * Exact <= a * (2 * p)
<1> DEFINE D == {j \in 0 .. Mantissa : a * Pow2[j] < b * Exact}
<1>1. 0 \in D
  <2>1. a * 1 < b * Exact
    OBVIOUS
  <2> QED
    BY <2>1, PowDef, Limits
<1>2. Doublings(a, b) = Max(D)
  BY DEF Doublings
<1> DEFINE m == Max(D)
<1>3. m \in D /\ \A y \in D : y <= m
  <2>1. D \in SUBSET (0 .. Mantissa) /\ D # {} /\ Mantissa \in Nat
    BY <1>1, Limits
  <2> HIDE DEF D
  <2> QED
    BY <2>1, MaxOf
<1>4. PICK d \in 0 .. Mantissa : /\ d = Doublings(a, b) /\ a * Pow2[d] < b * Exact
                                 /\ \A j \in 0 .. Mantissa : a * Pow2[j] < b * Exact => j <= d
  BY <1>2, <1>3
<1>5. PICK p \in Nat \ {0} : p = Pow2[d]
  BY Limits
<1>6. d = Mantissa => p = Exact
  BY <1>5 DEF Exact
<1>7. d < Mantissa => b * Exact <= a * (2 * p)
  <2> SUFFICES ASSUME d < Mantissa PROVE b * Exact <= a * (2 * p)
    OBVIOUS
  <2>1. PICK j \in 0 .. Mantissa : j = d + 1
    BY Limits
  <2>2. Pow2[j] = 2 * p
    <3>1. d \in 0 .. Bits + 1
      BY Limits
    <3> QED
      BY <1>5, <2>1, <3>1, PowDef
  <2>3. ~ (a * (2 * p) < b * Exact)
    <3>1. ~ (j <= d)
      BY <2>1
    <3> QED
      BY <1>4, <2>2, <3>1
  <2>4. a * (2 * p) \in Nat /\ b * Exact \in Nat
    BY Limits
  <2> QED
    BY <2>3, <2>4
<1> QED
  BY <1>4, <1>5, <1>6, <1>7

\* What the quotient of two integers is, once it is rounded.
LEMMA CeilQuotientIs ==
    ASSUME NEW a \in Nat \ {0}, NEW b \in Nat \ {0}, a <= UInt
    PROVE  \/ \E h \in Nat \ {0} : /\ (b * Exact) * h <= a
                                   /\ CeilQuotient(a, b) = Nearest(a, b * (2 * h)) * (2 * h)
           \/ \E d \in 0 .. Mantissa : \E p \in Nat \ {0} :
                 /\ CeilQuotient(a, b) = Ceil(Nearest(a * p, b), p)
                 /\ p = Pow2[d]
                 /\ d = Mantissa => p = Exact
                 /\ d < Mantissa => b * Exact <= a * (2 * p)
<1>1. a < b * (4 * UInt)
  <2>1. PICK u \in Nat \ {0} : u = UInt
    BY Limits
  <2>2. 1 * (4 * u) <= b * (4 * u)
    BY Monotone
  <2> QED
    BY <2>1, <2>2
<1>2. PICK k, p : k = Halvings(a, b) /\ p = Pow2[k] /\ Halved(a, b, k, p)
  BY <1>1, HalvingsIs
<1>3. CASE k > 0
  <2>1. PICK h \in Nat \ {0} : p = 2 * h /\ (b * Exact) * h <= a
    BY <1>2, <1>3 DEF Halved
  <2>2. CeilQuotient(a, b) = Nearest(a, b * p) * p
    BY <1>2, <1>3 DEF CeilQuotient
  <2> QED
    BY <2>1, <2>2
<1>4. CASE ~ (k > 0)
  <2>1. k = 0 /\ p = 1
    BY <1>2, <1>4 DEF Halved
  <2>2. a < b * Exact
    <3>1. a < (b * Exact) * 1
      BY <1>2, <2>1 DEF Halved
    <3> QED
      BY <3>1, Limits
  <2>3. PICK d \in 0 .. Mantissa, q \in Nat \ {0} :
              /\ d = Doublings(a, b) /\ q = Pow2[d]
              /\ d = Mantissa => q = Exact
              /\ d < Mantissa => b * Exact <= a * (2 * q)
    BY <2>2, DoublingsIs
  <2>4. CeilQuotient(a, b) = Ceil(Nearest(a * q, b), q)
    BY <1>2, <1>4, <2>3 DEF CeilQuotient
  <2> QED
    BY <2>3, <2>4
<1> QED
  BY <1>3, <1>4

\* It is not 0.
LEMMA CeilQuotientPositive ==
    ASSUME NEW a \in Nat \ {0}, NEW b \in Nat \ {0}, b <= a, a <= UInt
    PROVE  CeilQuotient(a, b) \in Nat \ {0}
<1>0. PICK e \in Nat \ {0}, g \in Nat \ {0} : e = Exact /\ e = 2 * g
  BY Limits
<1>1. CASE \E h \in Nat \ {0} : /\ (b * Exact) * h <= a
                                /\ CeilQuotient(a, b) = Nearest(a, b * (2 * h)) * (2 * h)
  <2>1. PICK h \in Nat \ {0} : /\ (b * e) * h <= a
                               /\ CeilQuotient(a, b) = Nearest(a, b * (2 * h)) * (2 * h)
    BY <1>0, <1>1
  <2>2. PICK p \in Nat \ {0}, c \in Nat \ {0} : p = 2 * h /\ c = b * p
    BY Positive
  <2>3. c * g = (b * e) * h
    BY <1>0, <2>2
  <2>4. PICK n \in Nat : n = Nearest(a, c) /\ g <= n
    BY <2>1, <2>3, NearestBetween
  <2>5. n * p \in Nat \ {0}
    BY <2>4, Positive
  <2> QED
    BY <2>1, <2>2, <2>4, <2>5
<1>2. CASE \E d \in 0 .. Mantissa : \E p \in Nat \ {0} : CeilQuotient(a, b) = Ceil(Nearest(a * p, b), p)
  <2>1. PICK p \in Nat \ {0} : CeilQuotient(a, b) = Ceil(Nearest(a * p, b), p)
    BY <1>2
  <2>2. PICK c \in Nat : c = a * p
    OBVIOUS
  <2>3. b * p <= c
    BY <2>2, Monotone
  <2>4. PICK n \in Nat : n = Nearest(c, b) /\ p <= n
    BY <2>3, NearestBetween
  <2>5. (n + p - 1) \div p \in Nat \ {0}
    BY <2>4, BlocksDivide
  <2> QED
    BY <2>1, <2>2, <2>4, <2>5 DEF Ceil
<1> QED
  BY <1>1, <1>2, CeilQuotientIs

\* A quotient of integers up to Exact is rounded up to the integer it should be: what
\* rounding adds or takes away never reaches an integer, unless it is one.
LEMMA CeilQuotientExact ==
    ASSUME NEW a \in Nat \ {0}, NEW b \in Nat \ {0}, b <= a, a <= Exact
    PROVE  CeilQuotient(a, b) = Ceil(a, b)
<1>0. PICK e \in Nat \ {0}, g \in Nat \ {0} : e = Exact /\ e = 2 * g /\ a <= e
  BY Limits
<1>1. CASE \E h \in Nat \ {0} : /\ (b * Exact) * h <= a
                                /\ CeilQuotient(a, b) = Nearest(a, b * (2 * h)) * (2 * h)
  <2>1. PICK h \in Nat \ {0} : /\ (b * e) * h <= a
                               /\ CeilQuotient(a, b) = Nearest(a, b * (2 * h)) * (2 * h)
    BY <1>0, <1>1
  <2>2. PICK c \in Nat \ {0} : c = b * h
    BY Positive
  <2>3. (b * e) * h = e * c
    BY <2>2
  <2>4. c = 1
    <3> SUFFICES ASSUME 2 <= c PROVE FALSE
      BY <2>2
    <3>1. e * 2 <= e * c
      BY Monotone
    <3>2. e * c \in Nat
      OBVIOUS
    <3> QED
      BY <1>0, <2>1, <2>3, <3>1, <3>2
  <2>5. b = 1 /\ h = 1
    <3>1. b * 1 <= b * h /\ 1 * h <= b * h
      BY Monotone
    <3> QED
      BY <2>2, <2>4, <3>1
  <2>6. a = e
    BY <1>0, <2>1, <2>3, <2>4
  <2>7. Nearest(2 * g, 2) = g
    BY NearestOfMultiple
  <2>8. CeilQuotient(a, b) = e
    BY <1>0, <2>1, <2>5, <2>6, <2>7
  <2>9. Ceil(a, b) = e
    BY <1>0, <2>5, <2>6 DEF Ceil
  <2> QED
    BY <2>8, <2>9
<1>2. CASE \E d \in 0 .. Mantissa : \E p \in Nat \ {0} :
                 /\ CeilQuotient(a, b) = Ceil(Nearest(a * p, b), p)
                 /\ p = Pow2[d]
                 /\ d = Mantissa => p = Exact
                 /\ d < Mantissa => b * Exact <= a * (2 * p)
  <2>1. PICK d \in 0 .. Mantissa, p \in Nat \ {0} :
                 /\ CeilQuotient(a, b) = Ceil(Nearest(a * p, b), p)
                 /\ p = Pow2[d]
                 /\ d = Mantissa => p = e
                 /\ d < Mantissa => b * e <= a * (2 * p)
    BY <1>0, <1>2
  <2>2. PICK q \in Nat, r \in Nat : a = b * q + r /\ r < b
    BY Division
  <2>3. PICK c \in Nat \ {0}, z \in Nat, x \in Nat, bq \in Nat :
           c = a * p /\ z = q * p /\ x = r * p /\ bq = b * q
    BY Positive
  <2>4. c = b * z + x
    <3>1. c = (b * q + r) * p
      BY <2>2, <2>3
    <3>2. (b * q + r) * p = b * (q * p) + r * p
      OBVIOUS
    <3> QED
      BY <2>3, <3>1, <3>2
  <2>5. PICK n \in Nat : n = Nearest(c, b)
    BY NearestBetween
  <2>6. CASE r = 0
    <3>1. q # 0
      BY <2>2, <2>6
    <3>2. PICK m \in Nat : m = q - 1
      BY <3>1
    <3>3. x = 0
      BY <2>3, <2>6
    <3>4. n = z
      BY <2>4, <2>5, <3>3, NearestOfMultiple
    <3>5. Ceil(n, p) = m + 1
      <4>1. z = p * (m + 1)
        BY <2>3, <3>2
      <4>2. p * (m + 1) = p * m + p /\ p * m \in Nat
        OBVIOUS
      <4>3. n \in Nat \ {0} /\ p * m < n /\ n <= p * (m + 1)
        BY <3>4, <4>1, <4>2
      <4> QED
        BY <4>3, CeilIs
    <3>6. Ceil(a, b) = m + 1
      <4>1. a = b * (m + 1)
        BY <2>2, <2>6, <3>2
      <4>2. b * (m + 1) = b * m + b /\ b * m \in Nat
        OBVIOUS
      <4> QED
        BY <4>1, <4>2, CeilIs
    <3> QED
      BY <2>1, <2>3, <2>5, <3>5, <3>6
  <2>7. CASE r # 0
    <3>1. Ceil(a, b) = q + 1
      <4>1. b * (q + 1) = bq + b /\ b * q = bq
        BY <2>3
      <4>2. b * q < a /\ a <= b * (q + 1)
        BY <2>2, <2>7, <4>1
      <4> QED
        BY <4>2, CeilIs
    <3>2. n <= p * (q + 1)
      <4>1. PICK w \in Nat : w = p * (q + 1)
        OBVIOUS
      <4>2. a <= b * (q + 1)
        <5>1. b * (q + 1) = bq + b
          BY <2>3
        <5> QED
          BY <2>2, <2>3, <5>1
      <4>3. PICK y \in Nat : y = b * (q + 1)
        OBVIOUS
      <4>4. a * p <= y * p
        BY <4>2, <4>3, Monotone
      <4>5. y * p = b * w
        BY <4>1, <4>3
      <4>6. c <= b * w
        BY <2>3, <4>4, <4>5
      <4> QED
        BY <2>5, <4>1, <4>6, NearestBetween
    <3>3. z < n
      <4>1. CASE b <= x
        <5>1. PICK z1 \in Nat : z1 = z + 1
          OBVIOUS
        <5>2. b * z1 = b * z + b /\ b * z \in Nat
          BY <5>1
        <5>3. b * z1 <= c
          BY <2>4, <4>1, <5>2
        <5>4. z1 <= Nearest(c, b)
          BY <5>3, NearestBetween
        <5> QED
          BY <2>5, <5>1, <5>4
      <4>2. CASE x < b
        <5>1. PICK q2 \in Nat, r2 \in Nat :
                 /\ c = b * q2 + r2 /\ r2 < b
                 /\ Nearest(c, b) \in {q2, q2 + 1}
                 /\ 2 * r2 < b => Nearest(c, b) = q2
                 /\ 2 * r2 > b => Nearest(c, b) = q2 + 1
                 /\ 2 * r2 = b => Nearest(c, b) = IF q2 % 2 = 0 THEN q2 ELSE q2 + 1
          <6>1. c \in Nat
            OBVIOUS
          <6> QED
            BY <6>1, NearestIs
        <5>2. q2 = z /\ r2 = x
          BY <2>4, <4>2, <5>1, OneQuotient
        <5>3. 2 * x > b
          <6>0. p <= x
            <7>1. 1 * p <= r * p
              BY <2>7, Monotone
            <7> QED
              BY <2>3, <7>1
          <6>1. d < Mantissa
            <7> SUFFICES ASSUME d = Mantissa PROVE FALSE
              BY Limits
            <7> QED
              BY <1>0, <2>1, <4>2, <6>0
          <6>2. PICK p2 \in Nat \ {0} : p2 = 2 * p /\ b * e <= a * p2
            BY <2>1, <6>1
          <6>3. b <= p2
            <7> SUFFICES ASSUME p2 + 1 <= b PROVE FALSE
              OBVIOUS
            <7>1. a * p2 <= e * p2
              BY <1>0, Monotone
            <7>2. e * (p2 + 1) <= e * b
              BY Monotone
            <7>3. e * (p2 + 1) = e * p2 + e /\ e * b = b * e /\ e * p2 \in Nat /\ b * e \in Nat /\ a * p2 \in Nat
              OBVIOUS
            <7> QED
              BY <6>2, <7>1, <7>2, <7>3
          <6>4. CASE 2 * x # b
            BY <6>0, <6>2, <6>3, <6>4
          <6>5. CASE 2 * x = b
            <7>1. p2 = b
              BY <6>0, <6>2, <6>3, <6>5
            <7>2. a = e
              <8> SUFFICES ASSUME a + 1 <= e PROVE FALSE
                BY <1>0
              <8>1. b * (a + 1) <= b * e
                BY Monotone
              <8>2. b * (a + 1) = b * a + b /\ a * b = b * a /\ b * a \in Nat /\ b * e \in Nat
                OBVIOUS
              <8> QED
                BY <6>2, <7>1, <8>1, <8>2
            <7>3. PICK f \in Nat : e = b * f
              <8>1. PICK i \in Nat, j \in Nat : i = d + 1 /\ j = Mantissa - (d + 1) /\ i + j <= Bits + 2
                                                /\ i + j = Mantissa /\ j \in 0 .. Mantissa
                BY <6>1, Limits
              <8>2. Pow2[i] * Pow2[j] = Pow2[Mantissa]
                BY <8>1, PowSum
              <8>3. Pow2[i] = b
                <9>1. d \in 0 .. Bits + 1
                  BY <6>1, Limits
                <9>2. Pow2[d + 1] = 2 * Pow2[d]
                  BY <9>1, PowDef
                <9> QED
                  BY <2>1, <6>2, <7>1, <8>1, <9>2
              <8>4. Pow2[j] \in Nat
                BY <8>1, Limits
              <8> QED
                BY <1>0, <8>2, <8>3, <8>4 DEF Exact
            <7>0. PICK none \in Nat : none = 0 /\ none < b
              OBVIOUS
            <7>4. b * f + none = b * q + r
              BY <2>2, <7>0, <7>2, <7>3
            <7>5. r = 0
              BY <2>2, <7>0, <7>4, OneQuotient
            <7> QED
              BY <2>7, <7>5
          <6> QED
            BY <6>4, <6>5
        <5> QED
          BY <2>5, <5>1, <5>2, <5>3
      <4> QED
        BY <4>1, <4>2
    <3>4. Ceil(n, p) = q + 1
      <4>1. p * q < n
        BY <2>3, <3>3
      <4>2. n \in Nat \ {0}
        BY <2>3, <3>3
      <4> QED
        BY <3>2, <4>1, <4>2, CeilIs
    <3> QED
      BY <2>1, <2>3, <2>5, <3>1, <3>4
  <2> QED
    BY <2>6, <2>7
<1> QED
  <2>1. a <= UInt
    <3>1. PICK i \in Nat, j \in Nat : i = Mantissa /\ j = Bits /\ i <= j /\ j <= Bits + 2
      BY Limits
    <3>2. Pow2[i] <= Pow2[j]
      BY <3>1, PowGrows
    <3> QED
      BY <1>0, <3>1, <3>2, Limits DEF Exact, UInt
  <2> QED
    BY <1>1, <1>2, <2>1, CeilQuotientIs

-----------------------------------------------------------------------------
\* It is 0 if and only if a factor is.
LEMMA ProductZero ==
    ASSUME NEW n \in Nat, NEW s \in [1 .. n -> Nat]
    PROVE  /\ ProductOf(s) \in Nat
           /\ ProductOf(s) = 0 <=> \E ii \in 1 .. n : s[ii] = 0
<1>1. PICK p \in [0 .. n -> Nat] :
              /\ p[0] = 1
              /\ \A ii \in 0 .. n - 1 : p[ii + 1] = p[ii] * s[ii + 1]
              /\ ProductOf(s) = p[n]
  BY ProductIs
<1> DEFINE T == {k \in Nat : p[k] = 0 <=> \E ii \in 1 .. k : s[ii] = 0}
<1>2. 0 \in T
  BY <1>1
<1>3. ASSUME NEW k \in Nat, k < n, k \in T
      PROVE  k + 1 \in T
  <2>1. PICK a \in Nat, b \in Nat : a = p[k] /\ b = s[k + 1] /\ p[k + 1] = a * b
    BY <1>1, <1>3
  <2>2. a * b = 0 <=> a = 0 \/ b = 0
    OBVIOUS
  <2>3. (\E ii \in 1 .. k + 1 : s[ii] = 0) <=> (\E ii \in 1 .. k : s[ii] = 0) \/ s[k + 1] = 0
    OBVIOUS
  <2>4. p[k] = 0 <=> \E ii \in 1 .. k : s[ii] = 0
    BY <1>3
  <2> QED
    BY <2>1, <2>2, <2>3, <2>4
<1>4. n \in T
  <2> HIDE DEF T
  <2>1. \A k \in 0 .. n : k \in T
    BY <1>2, <1>3, InductionUpTo
  <2> QED
    BY <2>1
<1> QED
  BY <1>1, <1>4

\* Factors of 1 at the end do not matter.
LEMMA ProductPad ==
    ASSUME NEW n \in Nat, NEW m \in Nat, n <= m, NEW s \in [1 .. n -> Nat], NEW t \in [1 .. m -> Nat],
           \A ii \in 1 .. n : t[ii] = s[ii],
           \A ii \in 1 .. m : ii > n => t[ii] = 1
    PROVE  ProductOf(s) = ProductOf(t)
<1>1. PICK p \in [0 .. n -> Nat] :
              /\ p[0] = 1
              /\ \A ii \in 0 .. n - 1 : p[ii + 1] = p[ii] * s[ii + 1]
              /\ ProductOf(s) = p[n]
  BY ProductIs
<1>2. PICK q \in [0 .. m -> Nat] :
              /\ q[0] = 1
              /\ \A ii \in 0 .. m - 1 : q[ii + 1] = q[ii] * t[ii + 1]
              /\ ProductOf(t) = q[m]
  BY ProductIs
<1> DEFINE T == {k \in Nat : q[k] = IF k <= n THEN p[k] ELSE p[n]}
<1>3. 0 \in T
  BY <1>1, <1>2
<1>4. ASSUME NEW k \in Nat, k < m, k \in T
      PROVE  k + 1 \in T
  <2>1. q[k + 1] = q[k] * t[k + 1] /\ q[k] = IF k <= n THEN p[k] ELSE p[n]
    BY <1>2, <1>4
  <2>2. CASE k < n
    <3>1. t[k + 1] = s[k + 1] /\ p[k + 1] = p[k] * s[k + 1]
      BY <1>1, <2>2
    <3> QED
      BY <2>1, <2>2, <3>1
  <2>3. CASE ~ (k < n)
    <3>1. t[k + 1] = 1
      BY <1>4, <2>3
    <3>2. q[k] = p[n] /\ p[n] \in Nat
      BY <2>1, <2>3
    <3>3. q[k + 1] = p[n]
      <4>1. PICK a \in Nat : a = p[n]
        BY <3>2
      <4>2. q[k + 1] = a * 1
        BY <2>1, <3>1, <3>2, <4>1
      <4> QED
        BY <4>1, <4>2
    <3> QED
      BY <2>3, <3>3
  <2> QED
    BY <2>2, <2>3
<1>5. m \in T
  <2> HIDE DEF T
  <2>1. \A k \in 0 .. m : k \in T
    BY <1>3, <1>4, InductionUpTo
  <2> QED
    BY <2>1
<1> QED
  BY <1>1, <1>2, <1>5

\* Nor does one anywhere else.
Without(s, i, l, t) == \A ii \in 1 .. l : t[ii] = IF ii < i THEN s[ii] ELSE s[ii + 1]

\* Nor does one anywhere else.
LEMMA ProductRemove ==
    ASSUME NEW n \in Nat \ {0}, NEW s \in [1 .. n -> Nat], NEW i \in 1 .. n, s[i] = 1,
           NEW l \in Nat, l = n - 1, NEW t \in [1 .. l -> Nat],
           Without(s, i, l, t)
    PROVE  ProductOf(s) = ProductOf(t)
<1>1. PICK p \in [0 .. n -> Nat] :
              /\ p[0] = 1
              /\ \A ii \in 0 .. n - 1 : p[ii + 1] = p[ii] * s[ii + 1]
              /\ ProductOf(s) = p[n]
  BY ProductIs
<1>2. l = n - 1 /\ l \in Nat
  OBVIOUS
<1>3. PICK q \in [0 .. l -> Nat] :
              /\ q[0] = 1
              /\ \A ii \in 0 .. l - 1 : q[ii + 1] = q[ii] * t[ii + 1]
              /\ ProductOf(t) = q[l]
  BY <1>2, ProductIs
<1> DEFINE T == {k \in Nat : q[k] = IF k < i THEN p[k] ELSE p[k + 1]}
<1>4. 0 \in T
  BY <1>1, <1>3
<1>5. ASSUME NEW k \in Nat, k < l, k \in T
      PROVE  k + 1 \in T
  <2>0. k \in 0 .. l - 1
    BY <1>2, <1>5
  <2>1. q[k + 1] = q[k] * t[k + 1] /\ q[k] = IF k < i THEN p[k] ELSE p[k + 1]
    BY <1>3, <1>5, <2>0
  <2>2. /\ k + 1 \in 1 .. l /\ k + 1 \in 0 .. n - 1 /\ k \in 0 .. n - 1
        /\ (k + 1) + 1 = k + 2 /\ i \in Nat
    BY <1>2, <1>5
  <2>3. p[k + 2] = p[k + 1] * s[k + 2] /\ p[k + 1] = p[k] * s[k + 1]
    BY <1>1, <2>2
  <2>4. t[k + 1] = IF k + 1 < i THEN s[k + 1] ELSE s[k + 2]
    BY <2>2 DEF Without
  <2>5. CASE k + 1 < i
    <3>1. k < i
      BY <1>5, <2>2, <2>5
    <3> QED
      BY <2>1, <2>3, <2>4, <2>5, <3>1, <1>5
  <2>6. CASE k + 1 = i
    <3>1. p[k] \in Nat /\ k < i /\ ~ (k + 1 < i)
      BY <2>2, <2>6, <1>1, <1>5
    <3>2. s[k + 1] = 1
      BY <2>6
    <3>3. p[k + 1] = p[k]
      BY <2>3, <3>1, <3>2
    <3>4. q[k + 1] = p[k + 2]
      BY <2>1, <2>3, <2>4, <3>1, <3>3
    <3> QED
      BY <2>2, <3>1, <3>4, <1>5
  <2>7. CASE k + 1 > i
    <3>1. ~ (k < i) /\ ~ (k + 1 < i)
      BY <2>2, <2>7, <1>5
    <3>2. q[k + 1] = p[k + 2]
      BY <2>1, <2>3, <2>4, <3>1
    <3> QED
      BY <2>2, <3>1, <3>2, <1>5
  <2> QED
    BY <2>2, <2>5, <2>6, <2>7
<1>6. l \in T
  <2> HIDE DEF T
  <2>1. \A k \in 0 .. l : k \in T
    BY <1>4, <1>5, InductionUpTo
  <2> QED
    BY <2>1
<1>7. CASE l < i
  <2>1. i = n /\ l + 1 = n /\ l \in 0 .. n - 1
    BY <1>2, <1>7
  <2>2. p[n] = p[l] * s[n] /\ p[l] \in Nat
    BY <1>1, <2>1
  <2> QED
    BY <1>1, <1>3, <1>6, <1>7, <2>1, <2>2
<1>8. CASE ~ (l < i)
  BY <1>1, <1>2, <1>3, <1>6, <1>8
<1> QED
  BY <1>7, <1>8

-----------------------------------------------------------------------------
\* A block that is no larger than the image is along a dimension as often as it is in
\* it, once or more; and up to Exact as often as the integers say.  Of no pixels there is
\* no block, and none of no pixels.
LEMMA BlocksAlongIs ==
    ASSUME NEW size \in 0 .. UInt - 1, NEW asked \in Nat
    PROVE  /\ BlocksAlong(size, Smaller(asked, size)) \in Nat
           /\ BlocksAlong(size, Smaller(asked, size)) = 0 <=> size = 0 \/ asked = 0
           /\ size # 0 /\ asked # 0 /\ size <= Exact =>
                 BlocksAlong(size, Smaller(asked, size)) = Ceil(size, Smaller(asked, size))
<1>1. PICK u \in Nat \ {0} : u = UInt
  BY Limits
<1>2. CASE size = 0 \/ asked = 0
  <2>1. size = 0 \/ Smaller(asked, size) = 0
    BY <1>1, <1>2 DEF Smaller
  <2>2. BlocksAlong(size, Smaller(asked, size)) = 0
    BY <2>1 DEF BlocksAlong
  <2> QED
    BY <1>2, <2>2
<1>3. CASE size # 0 /\ asked # 0
  <2>1. PICK n \in Nat \ {0} : n = size /\ n < UInt
    BY <1>1, <1>3
  <2>2. PICK b \in Nat \ {0} : b = Smaller(asked, size) /\ b <= n /\ b < UInt
    BY <1>1, <1>3, <2>1 DEF Smaller
  <2>3. PICK f \in Nat \ {0}, g \in Nat \ {0} : f = ToFloat(n) /\ g = ToFloat(b) /\ f <= UInt
    BY <2>1, <2>2, ToFloatBounds
  <2>4. g <= f
    BY <2>1, <2>2, <2>3, ToFloatGrows
  <2>5. CeilQuotient(f, g) \in Nat \ {0}
    BY <2>3, <2>4, CeilQuotientPositive
  <2>6. BlocksAlong(size, Smaller(asked, size)) = CeilQuotient(f, g)
    BY <2>1, <2>2, <2>3 DEF BlocksAlong
  <2>7. ASSUME size <= Exact
        PROVE  CeilQuotient(f, g) = Ceil(size, Smaller(asked, size))
    <3>1. n <= Exact /\ b <= Exact
      BY <2>1, <2>2, <2>7, Limits
    <3>2. f = n /\ g = b
      BY <2>3, <3>1, ToFloatExact
    <3>3. CeilQuotient(n, b) = Ceil(n, b)
      BY <2>2, <3>1, CeilQuotientExact
    <3> QED
      BY <2>1, <2>2, <3>2, <3>3
  <2> QED
    BY <1>3, <2>5, <2>6, <2>7
<1> QED
  BY <1>2, <1>3

\* An image without pixels has no blocks, or one of blocks without; any other has some.
LEMMA NumBlocks ==
    ASSUME NEW X \in [Dims -> 0 .. UInt - 1], NEW A \in [Dims -> Nat], NEW B,
           B = [ii \in Dims |-> Smaller(A[ii], X[ii])]
    PROVE  /\ calculateNumBlocks(X, B) \in Nat
           /\ calculateNumBlocks(X, B) = 0 <=> \E ii \in Dims : X[ii] = 0 \/ A[ii] = 0
           /\ B \in [Dims -> Nat]
           /\ X \in Sizes /\ A \in Sizes => B \in Sizes
           /\ X \in Sizes /\ A \in Sizes /\ (\A ii \in Dims : X[ii] <= Exact) =>
                 calculateNumBlocks(X, B) = ProductOf([ii \in Dims |-> Ceil(X[ii], B[ii])])
<1> DEFINE N == [ii \in Dims |-> BlocksAlong(X[ii], B[ii])]
<1>1. DataDims \in Nat /\ Dims = 1 .. DataDims
  BY MatlabCallsAssumption DEF Dims
<1>2. ASSUME NEW ii \in Dims
      PROVE  /\ BlocksAlong(X[ii], B[ii]) \in Nat
             /\ BlocksAlong(X[ii], B[ii]) = 0 <=> X[ii] = 0 \/ A[ii] = 0
             /\ X[ii] # 0 /\ A[ii] # 0 /\ X[ii] <= Exact =>
                   BlocksAlong(X[ii], B[ii]) = Ceil(X[ii], B[ii])
  <2>1. X[ii] \in 0 .. UInt - 1 /\ A[ii] \in Nat /\ B[ii] = Smaller(A[ii], X[ii])
    OBVIOUS
  <2> QED
    BY <2>1, BlocksAlongIs
<1>3. N \in [1 .. DataDims -> Nat]
  BY <1>1, <1>2
<1>4. calculateNumBlocks(X, B) = ProductOf(N)
  BY DEF calculateNumBlocks
<1>5. ProductOf(N) \in Nat /\ (ProductOf(N) = 0 <=> \E ii \in 1 .. DataDims : N[ii] = 0)
  <2> HIDE DEF N
  <2> QED
    BY <1>1, <1>3, ProductZero
<1>6. \A ii \in Dims : N[ii] = 0 <=> X[ii] = 0 \/ A[ii] = 0
  BY <1>2
<1>9. B \in [Dims -> Nat]
  <2>1. UInt \in Nat
    BY Limits
  <2>2. ASSUME NEW ii \in Dims
        PROVE  Smaller(A[ii], X[ii]) \in Nat
    BY <2>1 DEF Smaller
  <2> QED
    BY <2>2
<1>7. ASSUME X \in Sizes, A \in Sizes
      PROVE  B \in Sizes
  <2>1. UInt \in Nat
    BY Limits
  <2>2. ASSUME NEW ii \in Dims
        PROVE  Smaller(A[ii], X[ii]) \in Nat \ {0}
    BY <1>7, <2>1 DEF Sizes, Smaller
  <2> QED
    BY <2>2 DEF Sizes
<1>8. ASSUME X \in Sizes, A \in Sizes, \A ii \in Dims : X[ii] <= Exact
      PROVE  N = [ii \in Dims |-> Ceil(X[ii], B[ii])]
  <2>1. \A ii \in Dims : BlocksAlong(X[ii], B[ii]) = Ceil(X[ii], B[ii])
    BY <1>2, <1>8 DEF Sizes
  <2> QED
    BY <2>1
<1> HIDE DEF N
<1> QED
  BY <1>1, <1>4, <1>5, <1>6, <1>7, <1>8, <1>9

\* The bytes of a slot are 32 bits.
LEMMA SlotBytes ==
    ASSUME NEW B \in Sizes \cup [Dims -> Nat], NEW bytes \in Nat, NEW compressed \in BOOLEAN
    PROVE  maximumBlockSizeCompressedInBytes(B, bytes, compressed) \in 0 .. UInt - 1
<1>1. PICK u \in Nat \ {0} : u = UInt
  BY Limits
<1>2. ProductOf(B) \in Nat
  <2>1. DataDims \in Nat /\ B \in [1 .. DataDims -> Nat]
    BY MatlabCallsAssumption DEF Dims, Sizes
  <2> QED
    BY <2>1, ProductZero
<1>3. ASSUME NEW k \in Nat
      PROVE  k % UInt \in 0 .. UInt - 1
  BY <1>1
<1>4. PICK m \in Nat : m = getBlockSizeBytes(B, bytes) /\ m < UInt /\ m \in 0 .. UInt - 1
  <2>1. ProductOf(B) * bytes \in Nat
    BY <1>2
  <2> QED
    BY <1>1, <1>3, <2>1 DEF getBlockSizeBytes
<1>5. PICK f \in Nat : f = ToFloat(m) /\ f <= UInt
  <2>1. CASE m = 0
    BY <1>1, <2>1, ToFloatExact, Limits
  <2>2. CASE m # 0
    BY <1>4, <2>2, ToFloatBounds
  <2> QED
    BY <2>1, <2>2
<1>6. PICK o \in Nat : o = CompressionOverhead /\ o <= UInt
  BY <1>1, FloatSizesAssumption DEF UInt
<1>7. PICK t \in Nat : t = 2 * f + o /\ t < 4 * UInt
  BY <1>1, <1>5, <1>6
<1>8. ToFloat(t) % UInt \in 0 .. UInt - 1
  BY <1>3, <1>7, ToFloatType
<1> QED
  BY <1>4, <1>5, <1>6, <1>7, <1>8 DEF maximumBlockSizeCompressedInBytes

\* An array has as many pixels as are asked for.
LEMMA Created ==
    ASSUME NEW n \in Nat \ {0}, NEW dims \in [1 .. n -> Nat], NEW a \in mxCreateNumericArray(dims)
    PROVE  \E last \in Nat :
              /\ last \in {2} \cup {ii \in 1 .. n : dims[ii] # 1}
              /\ \A ii \in {2} \cup {jj \in 1 .. n : dims[jj] # 1} : ii <= last
              /\ a = [ii \in 1 .. last |-> IF ii <= n THEN dims[ii] ELSE 1]
              /\ ProductOf(a) = ProductOf(dims)
<1> DEFINE S == {2} \cup {ii \in DOMAIN dims : dims[ii] # 1}
           last == Max(S)
           made == [ii \in 1 .. last |-> IF ii <= n THEN dims[ii] ELSE 1]
<1>1. PICK top \in Nat : top = n + 2
  OBVIOUS
<1>2. S \in SUBSET (0 .. top) /\ S # {}
  BY <1>1
<1>3. last \in S /\ \A ii \in S : ii <= last
  <2> HIDE DEF S
  <2> QED
    BY <1>2, MaxOf
<1>4. last \in Nat /\ last >= 2 /\ (last <= n \/ (last = 2 /\ n = 1))
  <2> HIDE DEF last
  <2> QED
    BY <1>3
<1>5. dims # <<>> /\ Len(dims) = n
  OBVIOUS
<1>6. a = made
  BY <1>5 DEF mxCreateNumericArray
<1> HIDE DEF last
<1>7. made \in [1 .. last -> Nat]
  BY <1>4
<1>8. \A ii \in 1 .. n : ii > last => dims[ii] = 1
  BY <1>3, <1>4
<1>9. \A ii \in 1 .. last : made[ii] = IF ii <= n THEN dims[ii] ELSE 1
  OBVIOUS
<1>10. ProductOf(made) = ProductOf(dims)
  <2> HIDE DEF made
  <2>1. CASE last <= n
    <3>1. \A ii \in 1 .. last : dims[ii] = made[ii]
      BY <1>4, <1>9, <2>1
    <3> QED
      BY <1>4, <1>7, <1>8, <2>1, <3>1, ProductPad
  <2>2. CASE last = 2 /\ n = 1
    <3>1. /\ \A ii \in 1 .. n : made[ii] = dims[ii]
          /\ \A ii \in 1 .. last : ii > n => made[ii] = 1
          /\ n <= last
      BY <1>9, <2>2
    <3> QED
      BY <1>4, <1>7, <3>1, ProductPad
  <2> QED
    BY <1>4, <2>1, <2>2
<1>11. last \in {2} \cup {ii \in 1 .. n : dims[ii] # 1}
  BY <1>3
<1>12. \A ii \in {2} \cup {jj \in 1 .. n : dims[jj] # 1} : ii <= last
  BY <1>3
<1> QED
  BY <1>4, <1>6, <1>10, <1>11, <1>12

-----------------------------------------------------------------------------
ArgsOf ==
    [array : Arrays, type : Types, threads : Threads \cup {Default},
     blockSize : BlockSizes \cup {Default}, compressed : BOOLEAN, hardware : HardwareThreads]

\* Headers of 32 bit sizes.
Headers ==
    [xyzct : [Dims -> 0 .. UInt - 1], pixelSize : [Dims -> Words \cup {Default}],
     blockSize : [Dims -> Nat], bytesPerPixel : Types, compressed : BOOLEAN]

\* What the parts of a call hand on.
ArgsInv == pc # "matlab" => args \in ArgsOf

HeaderInv ==
    pc \notin {"matlab", "convert", "crashed"} =>
        /\ header \in Headers /\ header.xyzct = UpTo(args.array, Ones)
        /\ header.pixelSize = PixelSizes(args.array)

BlockInv ==
    pc = "setup" =>
        header.blockSize = BlockSizeOf(args.blockSize, setDefaultBlockSize(args.type))

ThreadsInv == pc = "setup" => numThreads = IF args.threads = Default THEN -1 ELSE args.threads

FileInv ==
    pc = "file" =>
        /\ header.xyzct \in Sizes /\ header.blockSize \in Sizes
        /\ numBlocks = calculateNumBlocks(header.xyzct, header.blockSize)
        /\ \E asked \in Sizes :
              header.blockSize = [ii \in Dims |-> Smaller(asked[ii], header.xyzct[ii])]

Typed ==
    /\ pc \in {"matlab", "convert", "setup", "crashed", "file", "stack", "slice", "region"}
    /\ numThreads \in Int /\ numBlocks \in Nat /\ slots \in Nat /\ slotBytes \in 0 .. UInt - 1

MInv ==
    /\ Typed /\ ArgsInv /\ HeaderInv /\ BlockInv /\ ThreadsInv /\ FileInv
    /\ WorkForAllThreads /\ ArraysFit

-----------------------------------------------------------------------------
\* The assumptions, one by one.
LEMMA Assumed ==
    /\ DataDims \in Nat \ {0} /\ SpatialDims \in 2 .. DataDims /\ Dims = 1 .. DataDims
    /\ Types \subseteq Nat \ {0} /\ Threads \subseteq Int /\ HardwareThreads \subseteq Nat
    /\ MinSlots \in Nat \ {0} /\ MaxSlots \in Nat \ {0}
    /\ OptimalSize \in [Dims -> Nat \ {0}]
    /\ UInt \in Nat \ {0, 1}
<1>1. UInt \in Nat \ {0, 1}
  <2>1. PICK e \in Nat \ {0}, p \in Nat \ {0} : e = Exact /\ p = Pow2[Bits - Mantissa] /\ e * p = UInt
    <3>1. Bits - Mantissa \in 0 .. Bits + 2 - Mantissa
      BY Limits
    <3> QED
      BY <3>1, Limits
  <2>2. PICK h \in Nat \ {0} : e = 2 * h
    BY <2>1, Limits
  <2>3. h * p \in Nat \ {0}
    BY <2>1, <2>2, Positive
  <2>4. UInt = 2 * (h * p)
    BY <2>1, <2>2
  <2> QED
    BY <2>3, <2>4
<1> QED
  BY <1>1, MatlabCallsAssumption DEF Dims

\* The sizes given and the rest are sizes.
LEMMA ArraySizes ==
    ASSUME NEW a \in Arrays
    PROVE  UpTo(a, Ones) \in [Dims -> 0 .. UInt - 1]
<1>1. a \in Seq(Words) /\ Len(a) \in Nat
  BY MatlabCallsAssumption
<1>2. 1 \in 0 .. UInt - 1
  BY Assumed
<1>3. ASSUME NEW ii \in Dims
      PROVE  (IF ii <= Len(a) THEN a[ii] ELSE Ones[ii]) \in 0 .. UInt - 1
  <2>1. ii \in Nat \ {0}
    BY Assumed
  <2>2. CASE ii <= Len(a)
    <3>1. a[ii] \in Words
      BY <1>1, <2>1, <2>2
    <3> QED
      BY <2>2, <3>1 DEF Words
  <2>3. CASE ~ (ii <= Len(a))
    BY <1>2, <2>3 DEF Ones
  <2> QED
    BY <2>2, <2>3
<1> QED
  BY <1>3 DEF UpTo

\* What goes to the pixel sizes are sizes.
LEMMA PixelSizesAre ==
    ASSUME NEW a \in Arrays
    PROVE  PixelSizes(a) \in [Dims -> Words \cup {Default}]
<1>1. a \in Seq(Words) /\ Len(a) \in Nat
  BY MatlabCallsAssumption
<1>2. ASSUME NEW ii \in Dims
      PROVE  (IF DataDims + ii <= Len(a) THEN a[DataDims + ii] ELSE Default) \in Words \cup {Default}
  <2>1. DataDims + ii \in Nat \ {0}
    BY Assumed
  <2>2. CASE DataDims + ii <= Len(a)
    <3>1. a[DataDims + ii] \in Words
      BY <1>1, <2>1, <2>2
    <3> QED
      BY <2>2, <3>1
  <2>3. CASE ~ (DataDims + ii <= Len(a))
    BY <2>3
  <2> QED
    BY <2>2, <2>3
<1> QED
  BY <1>2 DEF PixelSizes

\* The default of a block size is one of pixels.
LEMMA DefaultBlockSize ==
    ASSUME NEW bytes \in Types
    PROVE  setDefaultBlockSize(bytes) \in Sizes
<1>1. bytes \in Nat \ {0}
  BY Assumed
<1>2. ASSUME NEW ii \in Dims
      PROVE  Larger(OptimalSize[ii] \div bytes, 1) \in Nat \ {0}
  <2>1. OptimalSize[ii] \in Nat \ {0}
    BY Assumed
  <2>2. OptimalSize[ii] \div bytes \in Nat
    BY <1>1, <2>1, Division
  <2> QED
    BY <2>2 DEF Larger
<1> QED
  BY <1>2 DEF setDefaultBlockSize, Sizes

\* Filled up with the default, a block size asked for has no pixels where less than one
\* is asked for, and nowhere else.
LEMMA BlockSizesAsked ==
    ASSUME NEW b \in BlockSizes \cup {Default}, NEW D \in Sizes
    PROVE  /\ BlockSizeOf(b, D) \in [Dims -> Nat]
           /\ \A ii \in Dims : BlockSizeOf(b, D)[ii] = 0
                                 => b # Default /\ ii <= Len(b) /\ b[ii] < 2
<1>1. CASE b = Default
  BY <1>1 DEF BlockSizeOf, Sizes
<1>2. CASE b # Default
  <2>1. b \in Seq(0 .. 2 * UInt - 1) /\ Len(b) \in Nat /\ DOMAIN b = 1 .. Len(b)
    BY <1>2, MatlabCallsAssumption
  <2>2. PICK u \in Nat \ {0} : u = UInt
    BY Limits
  <2>3. PICK w : w = WholePixels(b)
    OBVIOUS
  <2>4. w = [ii \in 1 .. Len(b) |-> ToFloat(b[ii]) \div 2]
    BY <2>1, <2>3 DEF WholePixels
  <2>5. Len(w) = Len(b)
    BY <2>1, <2>4
  <2>6. ASSUME NEW ii \in Dims, ii <= Len(b)
        PROVE  w[ii] \in Nat /\ (w[ii] = 0 => b[ii] < 2)
    <3>1. ii \in 1 .. Len(b)
      BY <2>1, <2>6, Assumed
    <3>2. PICK n \in Nat : n = b[ii] /\ n < 4 * UInt
      BY <2>1, <2>2, <3>1
    <3>3. ToFloat(n) \div 2 \in Nat /\ (ToFloat(n) \div 2 = 0 <=> n < 2)
      BY <3>2, ToFloatPixel
    <3> QED
      BY <2>4, <3>1, <3>2, <3>3
  <2>7. PICK B : B = [ii \in Dims |-> IF ii <= Len(b) THEN w[ii] ELSE D[ii]]
    OBVIOUS
  <2>8. BlockSizeOf(b, D) = B
    BY <1>2, <2>3, <2>5, <2>7 DEF BlockSizeOf, UpTo
  <2>9. ASSUME NEW ii \in Dims
        PROVE  B[ii] \in Nat /\ (B[ii] = 0 => ii <= Len(b) /\ b[ii] < 2)
    <3>1. CASE ii <= Len(b)
      BY <2>6, <2>7, <3>1
    <3>2. CASE ~ (ii <= Len(b))
      BY <2>7, <3>2 DEF Sizes
    <3> QED
      BY <3>1, <3>2
  <2>10. B \in [Dims -> Nat]
    BY <2>7, <2>9
  <2> QED
    BY <1>2, <2>8, <2>9, <2>10
<1> QED
  BY <1>1, <1>2

\* A queue has a slot or more, but no more than MaxSlots, and no more than a thread
\* has blocks.
LEMMA SlotsAre ==
    ASSUME NEW threads \in Nat \ {0}, NEW blocks \in Nat \ {0}
    PROVE  /\ SlotsOf(threads, blocks) \in 1 .. MaxSlots
           /\ SlotsOf(threads, blocks) <= Ceil(blocks, threads)
<1>1. PICK c \in Nat \ {0} : c = Ceil(blocks, threads)
  BY BlocksDivide DEF Ceil
<1>2. MinSlots \in Nat \ {0} /\ MaxSlots \in Nat \ {0}
  BY Assumed
<1> QED
  BY <1>1, <1>2 DEF SlotsOf, Smaller, Larger

-----------------------------------------------------------------------------

\* Before the call nothing is claimed but the types.
LEMMA InitMInv == Init => MInv
<1>1. 0 \in 0 .. UInt - 1
  BY Assumed
<1> QED
  BY <1>1 DEF Init, MInv, Typed, ArgsInv, HeaderInv, BlockInv, ThreadsInv, FileInv, WorkForAllThreads,
          ArraysFit

\* The arguments of the call are those of the model.
LEMMA WriteMInv == MInv /\ Write => MInv'
  BY DEF MInv, Typed, ArgsInv, HeaderInv, BlockInv, ThreadsInv, FileInv, WorkForAllThreads,
         ArraysFit, Write, ArgsOf, setup

\* The header has the sizes of the array, and the block size that is asked for.
LEMMA ConvertArgumentsMInv == MInv /\ ConvertArguments => MInv'
<1> SUFFICES ASSUME MInv, ConvertArguments
             PROVE  MInv'
  OBVIOUS
<1>1. args \in ArgsOf /\ args' = args /\ pc = "convert" /\ pc' = "setup"
  BY DEF MInv, ArgsInv, ConvertArguments
<1>2. /\ args.array \in Arrays /\ args.type \in Types /\ args.threads \in Threads \cup {Default}
      /\ args.blockSize \in BlockSizes \cup {Default} /\ args.compressed \in BOOLEAN
  BY <1>1 DEF ArgsOf
<1>3. PICK X \in [Dims -> 0 .. UInt - 1], P \in [Dims -> Words \cup {Default}] :
         X = UpTo(args.array, Ones) /\ P = PixelSizes(args.array)
  BY <1>2, ArraySizes, PixelSizesAre
<1>4. PICK B \in [Dims -> Nat] :
         B = BlockSizeOf(args.blockSize, setDefaultBlockSize(args.type))
  <2>1. PICK D \in Sizes : D = setDefaultBlockSize(args.type)
    BY <1>2, DefaultBlockSize
  <2>2. BlockSizeOf(args.blockSize, D) \in [Dims -> Nat]
    BY <1>2, <2>1, BlockSizesAsked
  <2> QED
    BY <2>1, <2>2
<1>10. header' = [xyzct |-> X, pixelSize |-> P, blockSize |-> B,
                  bytesPerPixel |-> args.type, compressed |-> args.compressed]
  BY <1>3, <1>4 DEF ConvertArguments
<1>5. /\ header' \in Headers
      /\ header'.xyzct = UpTo(args.array, Ones) /\ header'.pixelSize = PixelSizes(args.array)
      /\ header'.blockSize = BlockSizeOf(args.blockSize, setDefaultBlockSize(args.type))
  BY <1>2, <1>3, <1>4, <1>10 DEF Headers
<1>6. numThreads' = (IF args.threads = Default THEN -1 ELSE args.threads) /\ numThreads' \in Int
  BY <1>2, Assumed DEF ConvertArguments
<1>7. HeaderInv' /\ BlockInv'
  BY <1>1, <1>5 DEF HeaderInv, BlockInv, UpTo, Ones, PixelSizes, BlockSizeOf, WholePixels,
                    setDefaultBlockSize
<1>8. ThreadsInv'
  BY <1>1, <1>6 DEF ThreadsInv
<1>9. Typed'
  BY <1>1, <1>6 DEF MInv, Typed, ConvertArguments
<1> QED
  BY <1>1, <1>7, <1>8, <1>9 DEF MInv, ArgsInv, FileInv, WorkForAllThreads, ArraysFit

\* There are blocks if there are pixels, threads if there are blocks, and slots for them.
LEMMA SetUpMInv == MInv /\ SetUp => MInv'
<1> SUFFICES ASSUME MInv, SetUp
             PROVE  MInv'
  OBVIOUS
<1>1. /\ pc = "setup" /\ pc' \in {"crashed", "file"} /\ args' = args
      /\ args \in ArgsOf /\ header \in Headers /\ header.xyzct = UpTo(args.array, Ones)
      /\ header.pixelSize = PixelSizes(args.array)
      /\ header.blockSize = BlockSizeOf(args.blockSize, setDefaultBlockSize(args.type))
  BY DEF SetUp, MInv, ArgsInv, HeaderInv, BlockInv
<1>2. PICK X \in [Dims -> 0 .. UInt - 1], A \in [Dims -> Nat] :
         X = header.xyzct /\ A = header.blockSize
  BY <1>1 DEF Headers
<1>3. PICK B : B = [ii \in Dims |-> Smaller(A[ii], X[ii])]
  OBVIOUS
<1>4. PICK n \in Nat : n = calculateNumBlocks(X, B)
  BY <1>3, NumBlocks
<1>5. header' = [header EXCEPT !.blockSize = B] /\ numBlocks' = n
  BY <1>2, <1>3, <1>4 DEF SetUp
<1>6. PICK t \in Nat : t = ThreadsAsked
  <2>1. numThreads \in Int /\ args.hardware \in Nat
    BY <1>1, Assumed DEF MInv, Typed, ArgsOf
  <2> QED
    BY <2>1 DEF ThreadsAsked
<1>7. numThreads' = Smaller(t, n) /\ numThreads' \in Nat
  <2>1. numThreads' = Smaller(t, n)
    BY <1>5, <1>6 DEF SetUp
  <2> QED
    BY <2>1 DEF Smaller
<1>8. /\ header'.xyzct = X /\ header'.blockSize = B /\ header'.xyzct = UpTo(args.array, Ones)
      /\ header'.pixelSize = PixelSizes(args.array)
  BY <1>1, <1>2, <1>5 DEF Headers
<1>9. CASE numThreads' = 0
  <2>1. pc' = "crashed" /\ UNCHANGED <<slots, slotBytes>>
    BY <1>9 DEF SetUp
  <2>2. t = 0 \/ n = 0
    BY <1>7, <1>9 DEF Smaller
  <2>3. ASSUME t = 0
        PROVE  args.hardware = 0 /\ (args.threads = Default \/ args.threads <= 0)
    <3>1. numThreads = IF args.threads = Default THEN -1 ELSE args.threads
      BY <1>1 DEF MInv, ThreadsInv
    <3>2. numThreads \in Int
      BY DEF MInv, Typed
    <3>3. numThreads <= 0 /\ args.hardware = 0
      BY <1>6, <2>3, <3>2 DEF ThreadsAsked
    <3> QED
      BY <3>1, <3>3
  <2>4. ASSUME n = 0
        PROVE  \/ \E ii \in Dims : ii <= Len(args.array) /\ args.array[ii] = 0
               \/ args.blockSize # Default /\ \E ii \in Dims : ii <= Len(args.blockSize)
                                                               /\ args.blockSize[ii] < 2
    <3>1. PICK ii \in Dims : X[ii] = 0 \/ A[ii] = 0
      BY <1>3, <1>4, <2>4, NumBlocks
    <3>2. CASE X[ii] = 0
      <4>1. ii <= Len(args.array) /\ args.array[ii] = 0
        BY <1>1, <1>2, <3>2 DEF UpTo, Ones
      <4> QED
        BY <4>1
    <3>3. CASE A[ii] = 0
      <4>1. args.type \in Types /\ args.blockSize \in BlockSizes \cup {Default}
        BY <1>1 DEF ArgsOf
      <4>2. PICK D \in Sizes : D = setDefaultBlockSize(args.type)
        BY <4>1, DefaultBlockSize
      <4>3. A[ii] = BlockSizeOf(args.blockSize, D)[ii]
        BY <1>1, <1>2, <4>2
      <4>4. args.blockSize # Default /\ ii <= Len(args.blockSize) /\ args.blockSize[ii] < 2
        BY <3>3, <4>1, <4>3, BlockSizesAsked
      <4> QED
        BY <4>4
    <3> QED
      BY <3>1, <3>2, <3>3
  <2>5. WorkForAllThreads'
    BY <1>1, <2>1, <2>2, <2>3, <2>4 DEF WorkForAllThreads
  <2>6. Typed'
    BY <1>5, <1>7, <2>1 DEF MInv, Typed
  <2> QED
    BY <1>1, <2>1, <2>5, <2>6 DEF MInv, ArgsInv, HeaderInv, BlockInv, ThreadsInv, FileInv,
                                  ArraysFit
<1>10. CASE numThreads' # 0
  <2>1. /\ pc' = "file" /\ slots' = SlotsOf(numThreads', numBlocks')
        /\ slotBytes' = maximumBlockSizeCompressedInBytes(B, header.bytesPerPixel,
                                                          header.compressed)
    BY <1>2, <1>3, <1>10 DEF SetUp
  <2>2. n \in Nat \ {0} /\ numThreads' \in 1 .. n
    BY <1>7, <1>10 DEF Smaller
  <2>3. X \in Sizes /\ A \in Sizes
    <3>1. ~ \E ii \in Dims : X[ii] = 0 \/ A[ii] = 0
      BY <1>3, <1>4, <2>2, NumBlocks
    <3>2. UInt \in Nat
      BY Assumed
    <3> QED
      BY <3>1, <3>2 DEF Sizes
  <2>4. B \in Sizes /\ B \in [Dims -> Nat]
    BY <1>3, <2>3, NumBlocks
  <2>5. PICK m \in Nat \ {0} : m = numThreads' /\ m <= n
    BY <2>2
  <2>6. SlotsOf(m, n) \in 1 .. MaxSlots /\ SlotsOf(m, n) <= Ceil(n, m)
    BY <2>2, SlotsAre
  <2>7. slots' \in 1 .. MaxSlots /\ slots' <= Ceil(numBlocks', numThreads')
    BY <1>5, <2>1, <2>5, <2>6
  <2>8. WorkForAllThreads'
    BY <1>5, <2>1, <2>2, <2>7 DEF WorkForAllThreads
  <2>9. header.bytesPerPixel \in Types /\ header.compressed \in BOOLEAN
    BY <1>1 DEF Headers
  <2>10. slotBytes' \in 0 .. UInt - 1
    <3>1. header.bytesPerPixel \in Nat
      BY <2>9, Assumed
    <3> QED
      BY <2>1, <2>4, <2>9, <3>1, SlotBytes
  <2>11. Typed'
    <3>1. slots' \in Nat
      BY <2>7, Assumed
    <3> QED
      BY <1>5, <1>7, <2>1, <2>10, <3>1 DEF Typed
  <2>12. header' \in Headers
    BY <1>1, <1>5, <2>4 DEF Headers
  <2>13. HeaderInv'
    BY <1>1, <1>8, <2>12 DEF HeaderInv, UpTo, Ones, PixelSizes
  <2>14. FileInv'
    BY <1>3, <1>4, <1>5, <1>8, <2>3, <2>4 DEF FileInv
  <2> QED
    BY <1>1, <2>1, <2>8, <2>11, <2>13, <2>14 DEF MInv, ArgsInv, BlockInv, ThreadsInv, ArraysFit
<1> QED
  BY <1>9, <1>10

-----------------------------------------------------------------------------
\* What reading leaves alone, and what has to be shown of the array it makes.
LEMMA ReturnMInv ==
    ASSUME MInv, pc = "file", pc' \in {"stack", "slice", "region"},
           UNCHANGED <<args, header, setup>>, ArraysFit'
    PROVE  MInv'
<1>1. Typed'
  BY DEF MInv, Typed, setup
<1>2. HeaderInv'
  BY DEF MInv, HeaderInv, UpTo, Ones, PixelSizes
<1> QED
  BY <1>1, <1>2 DEF MInv, ArgsInv, BlockInv, ThreadsInv, FileInv, WorkForAllThreads

\* In the file there is an image that has pixels.
LEMMA InFile ==
    ASSUME MInv, pc = "file"
    PROVE  /\ header.xyzct \in Sizes /\ header.xyzct = UpTo(args.array, Ones)
           /\ header.pixelSize = PixelSizes(args.array)
           /\ args.array \in Arrays
<1>1. args \in ArgsOf
  BY DEF MInv, ArgsInv
<1> QED
  BY <1>1 DEF MInv, HeaderInv, FileInv, ArgsOf

\* The array of the whole image has the sizes of the array that was written: the sizes of 1
\* that Squeezed leaves out are those a Matlab array does not have; or it has the first of
\* them, if these were too many for the header, and the pixel sizes show it.
LEMMA readKLBstackMInv == MInv /\ readKLBstack => MInv'
<1> SUFFICES ASSUME MInv, readKLBstack
             PROVE  MInv'
  OBVIOUS
<1>1. /\ pc = "file" /\ pc' = "stack" /\ roi' = [lb |-> Zeros, ub |-> LastPixel]
      /\ array' \in mxCreateNumericArray(Squeezed)
      /\ UNCHANGED <<args, header, setup>>
  BY DEF readKLBstack, Return
<1>2. PICK X \in Sizes, a \in Seq(Words), l \in Nat, D \in Nat :
         /\ X = header.xyzct /\ a = args.array /\ l = Len(a) /\ D = DataDims /\ Dims = 1 .. D
         /\ 2 <= D /\ 2 <= l /\ l <= 2 * D /\ (l > 2 => a[l] # 1)
         /\ X = UpTo(a, Ones)
  <2>1. args.array \in Seq(Words) /\ Len(args.array) \in 2 .. MaxDims
    BY <1>1, InFile, MatlabCallsAssumption
  <2>2. Len(args.array) > 2 => args.array[Len(args.array)] # 1
    BY <1>1, InFile, MatlabCallsAssumption
  <2>3. DataDims \in Nat /\ 2 <= DataDims /\ Dims = 1 .. DataDims
    BY Assumed
  <2>4. header.xyzct \in Sizes /\ header.xyzct = UpTo(args.array, Ones)
    BY <1>1, InFile
  <2> QED
    BY <2>1, <2>2, <2>3, <2>4 DEF MaxDims
<1>3. PICK made : made = array'
  OBVIOUS
<1>4. X \in [1 .. D -> Nat] /\ \A ii \in 1 .. D : X[ii] = IF ii <= l THEN a[ii] ELSE 1
  BY <1>2 DEF Sizes, UpTo, Ones
<1>10. PICK P : P = header.pixelSize /\ header'.pixelSize = P /\ P = PixelSizes(a)
  BY <1>1, <1>2, InFile
<1> DEFINE S == {0} \cup {ii \in Dims : X[ii] # 1}
<1>5. PICK m \in 0 .. D : m = Max(S) /\ m \in S /\ \A ii \in S : ii <= m
  <2>1. S \in SUBSET (0 .. D) /\ S # {}
    BY <1>2
  <2> HIDE DEF S
  <2> QED
    BY <2>1, MaxOf
<1>6. Squeezed = SubSeq(X, 1, m)
  BY <1>2, <1>5 DEF Squeezed
<1>7. \A ii \in 1 .. D : ii > m => X[ii] = 1
  BY <1>2, <1>5
<1>8. CASE m = 0
  <2>1. header.xyzct = Ones
    <3>1. \A ii \in 1 .. D : X[ii] = 1
      BY <1>7, <1>8
    <3>2. X = [ii \in 1 .. D |-> 1]
      BY <1>4, <3>1
    <3> QED
      BY Zenon, <1>2, <3>2 DEF Ones
  <2>2. ArraysFit'
    BY <1>1, <2>1 DEF ArraysFit, Ones
  <2> QED
    BY <1>1, <2>2, ReturnMInv
<1>9. CASE m # 0
  <2>1. m \in Nat \ {0} /\ m \in 1 .. D /\ X[m] # 1
    BY <1>5, <1>9
  <2>2. PICK d \in [1 .. m -> Nat] : d = Squeezed /\ \A ii \in 1 .. m : d[ii] = X[ii]
    <3>1. SubSeq(X, 1, m) = [ii \in 1 .. m |-> X[ii]]
      <4>1. X \in Seq(Nat) /\ Len(X) = D
        BY <1>4
      <4> QED
        BY <2>1, <1>2, <4>1
    <3>2. [ii \in 1 .. m |-> X[ii]] \in [1 .. m -> Nat]
      BY <1>4, <2>1
    <3> QED
      BY <1>6, <3>1, <3>2
  <2>3. made \in mxCreateNumericArray(d)
    BY <1>1, <1>3, <2>2
  <2>4. PICK last \in Nat :
              /\ last \in {2} \cup {ii \in 1 .. m : d[ii] # 1}
              /\ \A ii \in {2} \cup {jj \in 1 .. m : d[jj] # 1} : ii <= last
              /\ made = [ii \in 1 .. last |-> IF ii <= m THEN d[ii] ELSE 1]
              /\ ProductOf(made) = ProductOf(d)
    BY <2>1, <2>3, Created
  <2>5. ProductOf(d) = ProductOf(X)
    <3>1. /\ m \in Nat /\ m <= D /\ d \in [1 .. m -> Nat] /\ X \in [1 .. D -> Nat]
          /\ \A ii \in 1 .. m : X[ii] = d[ii]
      BY <1>2, <1>4, <2>1, <2>2
    <3> QED
      BY <1>7, <3>1, ProductPad
  <2>6. PICK R : R = [ii \in Dims |-> LastPixel[ii] - Zeros[ii] + 1]
    OBVIOUS
  <2>7. R = X
    <3>1. \A ii \in Dims : LastPixel[ii] - Zeros[ii] + 1 = X[ii]
      BY <1>2, <1>4 DEF LastPixel, Zeros
    <3> QED
      BY <1>2, <1>4, <2>6, <3>1
  <2>8. /\ m <= last /\ 2 <= last /\ last <= D
        /\ \A ii \in 1 .. last : ii <= l /\ made[ii] = a[ii]
        /\ l <= D => last = l
    <3>1. m <= last /\ 2 <= last /\ last <= D
      BY <1>2, <2>1, <2>2, <2>4
    <3>2. last <= l
      <4>1. ASSUME last > l
            PROVE  FALSE
        <5>1. last \in 1 .. m /\ d[last] # 1
          BY <1>2, <2>4, <4>1
        <5>2. X[last] = 1
          BY <1>2, <1>4, <2>1, <4>1, <5>1
        <5> QED
          BY <2>2, <5>1, <5>2
      <4> QED
        BY <4>1, <1>2, <2>4
    <3>3. ASSUME l <= D
          PROVE  l <= last
      <4>1. CASE l > 2
        <5>1. X[l] # 1 /\ l \in 1 .. D
          BY <1>2, <1>4, <3>3, <4>1
        <5>2. l <= m
          BY <1>2, <1>7, <5>1, <2>1
        <5> QED
          BY <1>2, <2>1, <3>1, <5>2
      <4>2. CASE ~ (l > 2)
        BY <1>2, <3>1, <4>2
      <4> QED
        BY <4>1, <4>2
    <3>4. ASSUME NEW ii \in 1 .. last
          PROVE  ii <= l /\ made[ii] = a[ii]
      <4>1. X[ii] = a[ii] /\ ii \in 1 .. D /\ ii <= l
        BY <1>2, <1>4, <3>1, <3>2
      <4>2. made[ii] = IF ii <= m THEN d[ii] ELSE 1
        BY <2>4
      <4>3. CASE ii <= m
        BY <2>1, <2>2, <4>1, <4>2, <4>3
      <4>4. CASE ~ (ii <= m)
        BY <1>7, <2>1, <4>1, <4>2, <4>4
      <4> QED
        BY <4>3, <4>4
    <3> QED
      BY <1>2, <2>4, <3>1, <3>2, <3>3, <3>4
  <2>9. ASSUME l <= D
        PROVE  made = a /\ P = [ii \in Dims |-> Default]
    <3>1. made = [ii \in 1 .. l |-> made[ii]] /\ \A ii \in 1 .. l : made[ii] = a[ii]
      BY <2>4, <2>8, <2>9
    <3>2. a = [ii \in 1 .. l |-> a[ii]]
      BY <1>2
    <3>3. \A ii \in Dims : ~ (DataDims + ii <= Len(a))
      BY <1>2, <2>9
    <3>4. P = [ii \in Dims |-> Default]
      BY <1>10, <3>3 DEF PixelSizes
    <3>5. made = a
      BY <3>1, <3>2
    <3> QED
      BY <3>4, <3>5
  <2>10. ProductOf(made) = ProductOf(R)
    BY <2>2, <2>4, <2>5, <2>7
  <2>12. ASSUME ~ (l <= D)
         PROVE  /\ Len(a) > DataDims
                /\ \A ii \in DOMAIN made : ii <= DataDims /\ made[ii] = a[ii]
                /\ P # [ii \in Dims |-> Default]
    <3>1. DOMAIN made = 1 .. last
      BY <2>4
    <3>2. PICK jj \in Nat \ {0} : jj = 1 /\ jj \in Dims /\ DataDims + jj <= Len(a) /\ DataDims + jj \in 1 .. Len(a)
      BY <1>2, <2>12
    <3>3. P[jj] = a[DataDims + jj]
      BY <1>10, <3>2 DEF PixelSizes
    <3>4. a[DataDims + jj] # Default
      BY <1>2, <3>2, MatlabCallsAssumption
    <3> QED
      BY <1>2, <2>8, <2>12, <3>1, <3>2, <3>3, <3>4
  <2>11. ArraysFit'
    <3>1. [ii \in Dims |-> roi'.ub[ii] - roi'.lb[ii] + 1] = R
      BY <1>1, <2>6
    <3>2. Filled'
      BY <1>3, <2>10, <3>1 DEF Filled
    <3>3. Returned'
      BY <1>1, <1>2, <1>3, <1>10, <2>9, <2>12 DEF Returned
    <3> QED
      BY <3>2, <3>3 DEF ArraysFit
  <2> QED
    BY <1>1, <2>11, ReturnMInv
<1> QED
  BY <1>8, <1>9

\* The array of a region has the sizes of the region in the dimensions asked for, and the
\* others are 1.
LEMMA readKLBroiMInv == MInv /\ readKLBroi => MInv'
<1> SUFFICES ASSUME MInv, readKLBroi
             PROVE  MInv'
  OBVIOUS
<1>1. PICK n \in Dims : \E lower, upper \in [1 .. n -> {0, 2}] :
             /\ \A ii \in 1 .. n : lower[ii] <= upper[ii] /\ upper[ii] < header.xyzct[ii]
             /\ Return("region", UpTo(lower, Zeros), UpTo(upper, Zeros),
                       [ii \in 1 .. n |-> upper[ii] - lower[ii] + 1])
  BY DEF readKLBroi
<1>2. PICK lower \in [1 .. n -> {0, 2}], upper \in [1 .. n -> {0, 2}] :
             /\ \A ii \in 1 .. n : lower[ii] <= upper[ii]
             /\ Return("region", UpTo(lower, Zeros), UpTo(upper, Zeros),
                       [ii \in 1 .. n |-> upper[ii] - lower[ii] + 1])
  BY <1>1
<1>3. PICK d : d = [ii \in 1 .. n |-> upper[ii] - lower[ii] + 1]
  OBVIOUS
<1>4. /\ pc = "file" /\ pc' = "region"
      /\ roi' = [lb |-> UpTo(lower, Zeros), ub |-> UpTo(upper, Zeros)]
      /\ array' \in mxCreateNumericArray(d)
      /\ UNCHANGED <<args, header, setup>>
  BY <1>2, <1>3 DEF readKLBroi, Return
<1>5. PICK made : made = array'
  OBVIOUS
<1>6. PICK D \in Nat : D = DataDims /\ Dims = 1 .. D /\ n \in Nat \ {0} /\ n <= D
  BY Assumed
<1>7. d \in [1 .. n -> Nat]
  <2>1. ASSUME NEW ii \in 1 .. n
        PROVE  upper[ii] - lower[ii] + 1 \in Nat
    <3>1. lower[ii] \in {0, 2} /\ upper[ii] \in {0, 2}
      OBVIOUS
    <3> QED
      BY <3>1, <1>2
  <2> QED
    BY <1>3, <2>1
<1>8. ProductOf(made) = ProductOf(d)
  <2>1. made \in mxCreateNumericArray(d)
    BY <1>4, <1>5
  <2> QED
    BY <1>6, <1>7, <2>1, Created
<1>9. PICK R : R = [ii \in Dims |-> UpTo(upper, Zeros)[ii] - UpTo(lower, Zeros)[ii] + 1]
  OBVIOUS
<1>10. Len(lower) = n /\ Len(upper) = n
  BY <1>6
<1>11. \A ii \in Dims : R[ii] = IF ii <= n THEN d[ii] ELSE 1
  <2>1. ASSUME NEW ii \in Dims
        PROVE  R[ii] = IF ii <= n THEN d[ii] ELSE 1
    <3>1. CASE ii <= n
      BY <1>3, <1>6, <1>9, <1>10, <3>1 DEF UpTo
    <3>2. CASE ~ (ii <= n)
      BY <1>6, <1>9, <1>10, <3>2 DEF UpTo, Zeros
    <3> QED
      BY <3>1, <3>2
  <2> QED
    BY <2>1
<1>12. R \in [1 .. D -> Nat]
  <2>1. \A ii \in Dims : R[ii] \in Nat
    <3>1. \A ii \in 1 .. n : d[ii] \in Nat
      BY <1>7
    <3> QED
      BY <1>6, <1>11, <3>1
  <2> QED
    BY <1>6, <1>9, <2>1
<1>13. ProductOf(d) = ProductOf(R)
  <2>1. /\ \A ii \in 1 .. n : R[ii] = d[ii]
        /\ \A ii \in 1 .. D : ii > n => R[ii] = 1
        /\ n \in Nat
    BY <1>6, <1>11
  <2> QED
    BY <1>6, <1>7, <1>12, <2>1, ProductPad
<1>14. [ii \in Dims |-> roi'.ub[ii] - roi'.lb[ii] + 1] = R
  BY <1>4, <1>9
<1>15. ArraysFit'
  BY <1>4, <1>5, <1>8, <1>13, <1>14 DEF ArraysFit, Filled
<1> QED
  BY <1>4, <1>15, ReturnMInv

\* The array of a slice has the sizes of two of the spatial dimensions; the third of the
\* region is 1, and so are the others unless ArraysFit names the case.
LEMMA readKLBsliceMInv == MInv /\ readKLBslice => MInv'
<1> SUFFICES ASSUME MInv, readKLBslice
             PROVE  MInv'
  OBVIOUS
<1>1. PICK dim \in 1 .. SpatialDims : \E slice \in {0, header.xyzct[dim] - 1} :
             Return("slice", [Zeros EXCEPT ![dim] = slice], [LastPixel EXCEPT ![dim] = slice],
                    RemoveAt(SubSeq(header.xyzct, 1, SpatialDims), dim))
  BY DEF readKLBslice
<1>2. PICK slice \in {0, header.xyzct[dim] - 1} :
             Return("slice", [Zeros EXCEPT ![dim] = slice], [LastPixel EXCEPT ![dim] = slice],
                    RemoveAt(SubSeq(header.xyzct, 1, SpatialDims), dim))
  BY <1>1
<1>3. PICK d : d = RemoveAt(SubSeq(header.xyzct, 1, SpatialDims), dim)
  OBVIOUS
<1>4. /\ pc = "file" /\ pc' = "slice"
      /\ roi' = [lb |-> [Zeros EXCEPT ![dim] = slice], ub |-> [LastPixel EXCEPT ![dim] = slice]]
      /\ array' \in mxCreateNumericArray(d)
      /\ UNCHANGED <<args, header, setup>>
  BY <1>2, <1>3 DEF readKLBslice, Return
<1>5. PICK made : made = array'
  OBVIOUS
<1>6. PICK X \in Sizes, D \in Nat, S \in Nat :
         /\ X = header.xyzct /\ D = DataDims /\ Dims = 1 .. D
         /\ S = SpatialDims /\ 2 <= S /\ S <= D /\ dim \in 1 .. S
  BY <1>4, InFile, Assumed
<1>7. X \in [1 .. D -> Nat] /\ \A ii \in 1 .. D : X[ii] \in Nat \ {0}
  BY <1>6 DEF Sizes
<1>8. CASE \E ii \in Dims : ii > SpatialDims /\ header.xyzct[ii] > 1
  <2>1. ArraysFit'
    BY <1>4, <1>8 DEF ArraysFit
  <2> QED
    BY <1>4, <2>1, ReturnMInv
<1>9. CASE ~ \E ii \in Dims : ii > SpatialDims /\ header.xyzct[ii] > 1
  <2>1. \A ii \in 1 .. D : ii > S => X[ii] = 1
    BY <1>6, <1>7, <1>9
  <2>2. PICK l \in Nat \ {0} : l = S - 1
    BY <1>6
  <2>3. d \in [1 .. l -> Nat] /\ \A ii \in 1 .. l : d[ii] = IF ii < dim THEN X[ii] ELSE X[ii + 1]
    <3>1. PICK Y : Y = SubSeq(X, 1, S)
      OBVIOUS
    <3>2. Y \in Seq(Nat) /\ Len(Y) = S /\ \A ii \in 1 .. S : Y[ii] = X[ii]
      <4>1. X \in Seq(Nat) /\ Len(X) = D
        BY <1>7
      <4> QED
        BY <1>6, <3>1, <4>1
    <3>0. PICK c \in Nat, k \in Nat \ {0} : c = dim - 1 /\ k = dim + 1 /\ k = c + 2
      BY <1>6
    <3>3. PICK u, v : u = SubSeq(Y, 1, c) /\ v = SubSeq(Y, k, S) /\ d = u \o v
      BY <1>3, <1>6, <3>0, <3>1, <3>2 DEF RemoveAt
    <3>4. /\ u \in Seq(Nat) /\ Len(u) = dim - 1
          /\ \A ii \in 1 .. dim - 1 : u[ii] = Y[ii]
      <4>1. u = [ii \in 1 .. c |-> Y[ii]] /\ c <= S
        BY <1>6, <3>0, <3>2, <3>3
      <4>2. \A ii \in 1 .. c : Y[ii] \in Nat
        BY <3>2, <4>1, <1>6
      <4> QED
        BY <3>0, <4>1, <4>2
    <3>5. /\ v \in Seq(Nat) /\ Len(v) = S - dim
          /\ \A ii \in 1 .. S - dim : v[ii] = Y[dim + ii]
      <4>1. PICK w \in Nat : w = S - dim
        BY <1>6
      <4>2. v = [ii \in 1 .. w |-> Y[dim + ii]]
        BY <1>6, <3>0, <3>2, <3>3, <4>1
      <4>3. \A ii \in 1 .. w : Y[dim + ii] \in Nat
        BY <1>6, <3>2, <4>1
      <4>4. v \in [1 .. w -> Nat]
        BY <4>2, <4>3
      <4>5. v \in Seq(Nat) /\ Len(v) = w
        BY <4>4
      <4> QED
        BY <4>1, <4>2, <4>5
    <3>6. d \in Seq(Nat) /\ Len(d) = l
      BY <1>6, <2>2, <3>3, <3>4, <3>5
    <3>7. ASSUME NEW ii \in 1 .. l
          PROVE  d[ii] = IF ii < dim THEN X[ii] ELSE X[ii + 1]
      <4>1. CASE ii < dim
        <5>1. d[ii] = u[ii] /\ ii \in 1 .. dim - 1 /\ ii \in 1 .. S
          BY <1>6, <2>2, <3>3, <3>4, <3>5, <4>1
        <5> QED
          BY <3>2, <3>4, <4>1, <5>1
      <4>2. CASE ~ (ii < dim)
        <5>1. PICK jj \in Nat \ {0} : jj = ii - (dim - 1) /\ jj \in 1 .. S - dim /\ dim + jj = ii + 1
          BY <1>6, <2>2, <4>2
        <5>2. d[ii] = v[jj]
          <6>1. /\ ii \in Nat \ {0} /\ ~ (ii <= Len(u)) /\ ii <= Len(u) + Len(v)
                /\ ii - Len(u) = jj
            BY <1>6, <2>2, <3>4, <3>5, <4>2, <5>1
          <6> QED
            BY <3>3, <3>4, <3>5, <6>1
        <5>3. v[jj] = Y[ii + 1] /\ ii + 1 \in 1 .. S
          BY <1>6, <2>2, <3>5, <5>1
        <5> QED
          BY <3>2, <4>2, <5>2, <5>3
      <4> QED
        BY <4>1, <4>2
    <3> QED
      BY <3>6, <3>7
  <2>4. ProductOf(made) = ProductOf(d)
    <3>1. made \in mxCreateNumericArray(d)
      BY <1>4, <1>5
    <3> QED
      BY <2>2, <2>3, <3>1, Created
  <2>5. PICK T : T = [ii \in 1 .. S |-> IF ii = dim THEN 1 ELSE X[ii]]
    OBVIOUS
  <2>6. T \in [1 .. S -> Nat] /\ T[dim] = 1 /\ S \in Nat \ {0}
    BY <1>6, <1>7, <2>5
  <2>7. Without(T, dim, l, d)
    BY <1>6, <2>2, <2>3, <2>5 DEF Without
  <2>8. ProductOf(T) = ProductOf(d)
    <3>1. /\ S \in Nat \ {0} /\ l \in Nat /\ l = S - 1 /\ dim \in 1 .. S
          /\ T \in [1 .. S -> Nat] /\ d \in [1 .. l -> Nat]
      BY <1>6, <2>2, <2>3, <2>6
    <3> QED
      BY <2>6, <2>7, <3>1, ProductRemove
  <2>9. PICK R : R = [ii \in Dims |-> [LastPixel EXCEPT ![dim] = slice][ii]
                                      - [Zeros EXCEPT ![dim] = slice][ii] + 1]
    OBVIOUS
  <2>10. slice \in Int
    BY <1>6, <1>7
  <2>11. \A ii \in 1 .. D : R[ii] = IF ii = dim THEN 1 ELSE X[ii]
    <3>1. ASSUME NEW ii \in 1 .. D
          PROVE  R[ii] = IF ii = dim THEN 1 ELSE X[ii]
      <4>1. CASE ii = dim
        BY <1>6, <2>9, <2>10, <4>1 DEF LastPixel, Zeros
      <4>2. CASE ii # dim
        <5>1. R[ii] = (X[ii] - 1) - 0 + 1
          BY <1>6, <2>9, <4>2 DEF LastPixel, Zeros
        <5> QED
          BY <1>7, <4>2, <5>1
      <4> QED
        BY <4>1, <4>2
    <3> QED
      BY <3>1
  <2>12. /\ R \in [1 .. D -> Nat]
         /\ \A ii \in 1 .. S : R[ii] = T[ii]
         /\ \A ii \in 1 .. D : ii > S => R[ii] = 1
    <3>1. \A ii \in 1 .. D : R[ii] \in Nat
      BY <1>7, <2>11
    <3>2. R \in [1 .. D -> Nat]
      BY <1>6, <2>9, <3>1
    <3>3. \A ii \in 1 .. S : R[ii] = T[ii]
      BY <1>6, <2>5, <2>11
    <3>4. \A ii \in 1 .. D : ii > S => R[ii] = 1
      BY <1>6, <2>1, <2>11
    <3> QED
      BY <3>2, <3>3, <3>4
  <2>13. ProductOf(T) = ProductOf(R)
    BY <1>6, <2>6, <2>12, ProductPad
  <2>14. [ii \in Dims |-> roi'.ub[ii] - roi'.lb[ii] + 1] = R
    BY <1>4, <2>9
  <2>15. ArraysFit'
    BY <1>4, <1>5, <2>4, <2>8, <2>13, <2>14 DEF ArraysFit, Filled
  <2> QED
    BY <1>4, <2>15, ReturnMInv
<1> QED
  BY <1>8, <1>9

-----------------------------------------------------------------------------

\* So each step keeps the invariant.
LEMMA NextMInv == MInv /\ [Next]_vars => MInv'
<1>1. ASSUME MInv, UNCHANGED vars
      PROVE  MInv'
  <2>1. /\ pc' = pc /\ args' = args /\ header' = header /\ roi' = roi /\ array' = array
        /\ numThreads' = numThreads /\ numBlocks' = numBlocks /\ slots' = slots
        /\ slotBytes' = slotBytes
    BY <1>1 DEF vars, setup
  <2>2. Typed' /\ ArgsInv' /\ ThreadsInv'
    BY <1>1, <2>1 DEF MInv, Typed, ArgsInv, ThreadsInv
  <2>3. HeaderInv'
    BY <1>1, <2>1 DEF MInv, HeaderInv, UpTo, Ones, PixelSizes
  <2>7. BlockInv'
    BY <1>1, <2>1 DEF MInv, BlockInv, BlockSizeOf, UpTo, WholePixels, setDefaultBlockSize
  <2>4. FileInv'
    BY <1>1, <2>1 DEF MInv, FileInv
  <2>5. WorkForAllThreads'
    BY <1>1, <2>1 DEF MInv, WorkForAllThreads
  <2>6. ArraysFit'
    BY <1>1, <2>1 DEF MInv, ArraysFit, Filled, Returned
  <2> QED
    BY <2>2, <2>3, <2>4, <2>5, <2>6, <2>7 DEF MInv
<1> QED
  BY <1>1, WriteMInv, ConvertArgumentsMInv, SetUpMInv, readKLBstackMInv, readKLBsliceMInv,
     readKLBroiMInv DEF Next

\* In every state of every call the parts of the call have handed on what they are to.
THEOREM Invariance == Spec => []MInv
  BY InitMInv, NextMInv, PTL DEF Spec

-----------------------------------------------------------------------------
\* The header and the numbers of writeImage are typed: a block size may come out of the
\* arguments as 0, one that is not asked for never, and no image in a file has a size or
\* a block of 0; and no slot has more bytes than 32 bits count.
THEOREM TypeCorrect == Spec => []TypeOK
<1>1. MInv => TypeOK
  <2> SUFFICES ASSUME MInv
               PROVE  TypeOK
    OBVIOUS
  <2>1. ASSUME pc = "setup"
        PROVE  /\ header \in [xyzct : [Dims -> Nat], pixelSize : [Dims -> Words \cup {Default}],
                              blockSize : [Dims -> Nat], bytesPerPixel : Types,
                              compressed : BOOLEAN]
               /\ args.blockSize = Default => header.blockSize \in Sizes
    <3>1. ASSUME NEW X \in [Dims -> 0 .. UInt - 1]
          PROVE  X \in [Dims -> Nat]
      OBVIOUS
    <3>2. header \in Headers
      BY <2>1 DEF MInv, HeaderInv
    <3>3. args.type \in Types
      BY <2>1 DEF MInv, ArgsInv, ArgsOf
    <3>4. setDefaultBlockSize(args.type) \in Sizes
      BY <3>3, DefaultBlockSize
    <3>5. args.blockSize = Default => header.blockSize \in Sizes
      BY <2>1, <3>4 DEF MInv, BlockInv, BlockSizeOf
    <3> QED
      BY <3>1, <3>2, <3>5 DEF Headers
  <2>2. pc = "file" => header.xyzct \in Sizes /\ header.blockSize \in Sizes
    BY DEF MInv, FileInv
  <2> QED
    BY <2>1, <2>2 DEF MInv, Typed, TypeOK
<1> QED
  BY <1>1, Invariance, PTL

\* calculateNumBlocks counts with floats, and up to the integers all of which are floats
\* it counts every block, for any width of floats and integers.
THEOREM FloatsCountExactly == Spec => []CountsAreExact
<1>1. MInv => CountsAreExact
  <2> SUFFICES ASSUME MInv, pc = "file", \A ii \in Dims : header.xyzct[ii] <= Exact
               PROVE  numBlocks = ProductOf([ii \in Dims |-> Ceil(header.xyzct[ii],
                                                                  header.blockSize[ii])])
    BY DEF CountsAreExact
  <2>1. header \in Headers
    BY DEF MInv, HeaderInv
  <2>2. PICK asked \in Sizes :
           header.blockSize = [ii \in Dims |-> Smaller(asked[ii], header.xyzct[ii])]
    BY DEF MInv, FileInv
  <2>3. PICK X \in [Dims -> 0 .. UInt - 1], B \in Sizes : X = header.xyzct /\ B = header.blockSize
    BY <2>1 DEF Headers, MInv, FileInv
  <2>4. B = [ii \in Dims |-> Smaller(asked[ii], X[ii])] /\ X \in Sizes /\ \A ii \in Dims : X[ii] <= Exact
    BY <2>2, <2>3 DEF MInv, FileInv
  <2>5. calculateNumBlocks(X, B) = ProductOf([ii \in Dims |-> Ceil(X[ii], B[ii])])
    <3>1. asked \in [Dims -> Nat]
      BY DEF Sizes
    <3> QED
      BY <2>4, <3>1, NumBlocks
  <2>6. numBlocks = calculateNumBlocks(X, B)
    BY <2>3 DEF MInv, FileInv
  <2> QED
    BY <2>3, <2>5, <2>6
<1> QED
  BY <1>1, Invariance, PTL

\* Whatever number of threads is asked for, each thread of writeImage has a block and a
\* slot for it; only an image without pixels, an unknown number of threads, or a block of
\* less than a pixel, which nothing refuses, stops it.
THEOREM ThreadsHaveWork == Spec => []WorkForAllThreads
  BY Invariance, PTL DEF MInv

\* For arrays of up to twice as many dimensions as a header has and of any sizes, what a
\* Matlab function reads is what fits into the array it returns, but for the slices and
\* the pixel ArraysFit names; and of an array of too many dimensions the first sizes
\* come back, the others having become pixel sizes.
THEOREM ArraysAreFilled == Spec => []ArraysFit
  BY Invariance, PTL DEF MInv

-----------------------------------------------------------------------------
\* An int counts the bytes of a queue whose slots are a part of what it counts.
LEMMA IntsCount ==
    ASSUME NEW bytes \in Nat, NEW n \in 1 .. MaxSlots, bytes <= IntMax \div MaxSlots,
           NEW a \in queueBytes(bytes, n)
    PROVE  a = n * bytes /\ bytes < UInt
<1>1. PICK u \in Nat \ {0}, top \in Nat \ {0} : u = UInt /\ top = MaxSlots
  BY Limits, Assumed
<1>2. PICK i \in Int : i = IntMax /\ i = u \div 2 - 1 /\ i < u
  BY <1>1 DEF IntMax
<1>3. i \in Nat
  <2>1. u # 1
    <3>1. Exact * Pow2[Bits - Mantissa] = UInt /\ Exact \in Nat /\ Pow2[Bits - Mantissa] \in Nat
      BY Limits
    <3>2. PICK h \in Nat \ {0}, p \in Nat : Exact = 2 * h /\ p = Pow2[Bits - Mantissa]
      BY <3>1, Limits
    <3>3. u = 2 * (h * p) /\ h * p \in Nat
      BY <1>1, <3>1, <3>2
    <3> QED
      BY <3>3
  <2> QED
    BY <1>2, <2>1
<1>4. PICK m \in Nat : m = i \div top /\ top * m <= i /\ bytes <= m
  <2>1. i \div top \in Nat /\ i % top \in Nat /\ i = top * (i \div top) + (i % top)
    BY <1>3, Division
  <2> QED
    BY <1>1, <1>2, <2>1
<1>5. PICK z \in Nat : z = bytes * n /\ z <= i
  <2>1. n \in Nat /\ n <= top
    BY <1>1
  <2>2. n * bytes <= top * m
    BY <1>4, <2>1, Monotone
  <2>3. n * bytes = bytes * n
    BY <2>1
  <2> QED
    BY <1>3, <1>4, <2>1, <2>2, <2>3
<1>6. bytes <= i
  <2>1. 1 * m <= top * m
    BY <1>1, Monotone
  <2> QED
    BY <1>3, <1>4, <2>1
<1>7. ASSUME NEW v \in Nat, v <= i
      PROVE  ToInt(v) = v
  BY <1>1, <1>2, <1>7 DEF ToInt
<1>8. ToInt(bytes) = bytes
  BY <1>6, <1>7
<1>9. ToInt(z) = z
  BY <1>5, <1>7
<1>10. a = z
  BY <1>5, <1>8, <1>9 DEF queueBytes
<1> QED
  BY <1>1, <1>2, <1>3, <1>5, <1>6, <1>10

\* What the widths of floats and ints must allow for: four bits of mantissa, an overhead
\* that is a float, and a slot of the largest block, rounded, that is still a part of
\* what an int counts.  The 24 and 32 bits of the code do, with 50 bytes and 20 slots.
Widths ==
    LET part == IntMax \div MaxSlots
        largest == (part - CompressionOverhead) \div 2
    IN  /\ 16 <= Exact /\ 2 * CompressionOverhead <= Exact
        /\ CompressionOverhead <= part =>
              ToFloat(2 * ToFloat(largest) + CompressionOverhead) <= part

\* A slot has room for a block that grew, and is a part of what an int counts.
LEMMA SlotHoldsBlock ==
    ASSUME Widths, NEW B \in Sizes, NEW pixel \in Nat \ {0}, NEW compressed \in BOOLEAN,
           NEW bytes \in Nat \ {0}, bytes = ProductOf(B) * pixel,
           (IF compressed THEN 2 * bytes ELSE bytes) <= IntMax \div MaxSlots - CompressionOverhead
    PROVE  LET slot == maximumBlockSizeCompressedInBytes(B, pixel, compressed)
           IN  /\ slot \in Nat /\ slot <= IntMax \div MaxSlots
               /\ slot >= IF compressed THEN (4 * bytes) \div 3 + CompressionOverhead ELSE bytes
<1>1. PICK u \in Nat \ {0}, e \in Nat \ {0}, c \in Nat, top \in Nat \ {0} :
         u = UInt /\ e = Exact /\ c = CompressionOverhead /\ top = MaxSlots
  BY Limits, Assumed, FloatSizesAssumption DEF UInt
<1>2. 16 <= e /\ 2 * c <= e /\ e <= u
  <2>1. Exact * Pow2[Bits - Mantissa] = UInt /\ Pow2[Bits - Mantissa] \in Nat \ {0}
    BY Limits
  <2>2. PICK p \in Nat \ {0} : e * p = u
    BY <1>1, <2>1
  <2>3. e * 1 <= e * p
    BY Monotone
  <2> QED
    BY <1>1, <2>2, <2>3 DEF Widths
<1>3. PICK part \in Nat : part = IntMax \div MaxSlots /\ 2 * part < u
  <2>1. PICK i \in Nat : i = IntMax /\ 2 * i < u
    BY <1>1, <1>2 DEF IntMax
  <2>2. i \div top \in Nat /\ i % top \in Nat /\ i = top * (i \div top) + (i % top)
    BY Division
  <2>3. PICK m \in Nat : m = i \div top /\ top * m <= i
    BY <2>2
  <2>4. 1 * m <= top * m
    BY Monotone
  <2> QED
    BY <1>1, <2>1, <2>3, <2>4
<1>4. (IF compressed THEN 2 * bytes ELSE bytes) + c <= part
  BY <1>1, <1>3
<1>5. bytes < u
  BY <1>3, <1>4
<1>6. getBlockSizeBytes(B, pixel) = bytes
  <2>1. bytes % u = bytes
    BY <1>5
  <2> QED
    BY <1>1, <2>1 DEF getBlockSizeBytes
<1>7. CASE ~compressed
  <2>1. maximumBlockSizeCompressedInBytes(B, pixel, compressed) = bytes
    BY <1>6, <1>7 DEF maximumBlockSizeCompressedInBytes
  <2> QED
    BY <1>1, <1>3, <1>4, <1>7, <2>1
<1>8. CASE compressed
  <2>1. PICK d \in Nat : d = (part - c) \div 2 /\ bytes <= d /\ 2 * d <= part - c
    BY <1>4, <1>8
  <2>2. PICK f \in Nat, g \in Nat : f = ToFloat(bytes) /\ g = ToFloat(d) /\ 16 * g <= 17 * d /\ f <= g
    <3>1. d < u
      BY <1>3, <2>1
    <3>2. ToFloat(bytes) <= ToFloat(d)
      BY <1>1, <2>1, <3>1, ToFloatGrows
    <3>3. ToFloat(d) \in Nat /\ 16 * ToFloat(d) <= 17 * d /\ ToFloat(bytes) \in Nat
      BY <1>1, <1>2, <1>5, <3>1, ToFloatNear
    <3> QED
      BY <3>2, <3>3
  <2>3. PICK n \in Nat, m \in Nat : n = 2 * f + c /\ m = 2 * g + c /\ n <= m /\ m < u
    BY <1>2, <1>3, <2>1, <2>2
  <2>4. PICK s \in Nat : s = ToFloat(n) /\ s <= part
    <3>1. ToFloat(n) <= ToFloat(m)
      BY <1>1, <2>3, ToFloatGrows
    <3>2. ToFloat(m) <= part
      BY <1>1, <1>3, <1>4, <1>8, <2>1, <2>2, <2>3 DEF Widths
    <3>3. ToFloat(n) \in Nat /\ ToFloat(m) \in Nat
      BY <1>1, <1>2, <2>3, ToFloatNear
    <3> QED
      BY <3>1, <3>2, <3>3
  <2>5. s % u = s
    BY <1>3, <2>4
  <2>6. maximumBlockSizeCompressedInBytes(B, pixel, compressed) = s
    BY <1>1, <1>6, <1>8, <2>2, <2>3, <2>4, <2>5 DEF maximumBlockSizeCompressedInBytes
  <2>7. s >= (4 * bytes) \div 3 + c
    <3>1. n = 2 * ToFloat(bytes) + CompressionOverhead /\ n < UInt
      BY <1>1, <2>2, <2>3
    <3> QED
      BY <1>1, <1>2, <1>5, <2>4, <3>1, RoomToGrow
  <2> QED
    BY <1>1, <1>3, <1>8, <2>4, <2>6, <2>7
<1> QED
  BY <1>7, <1>8

\* writeImage sets up the queues with the size maximumBlockSizeCompressedInBytes gives.
SlotsInv ==
    pc = "file" =>
        /\ slotBytes = maximumBlockSizeCompressedInBytes(header.blockSize, header.bytesPerPixel,
                                                         header.compressed)
        /\ allocated \in queueBytes(slotBytes, slots)

\* Only SetUp allocates them.
LEMMA NextSlotsInv == MInv /\ SlotsInv /\ [Next]_vars => SlotsInv'
<1> SUFFICES ASSUME MInv, SlotsInv, [Next]_vars, pc' = "file"
             PROVE  SlotsInv'
  BY DEF SlotsInv
<1>1. CASE UNCHANGED vars
  BY <1>1 DEF SlotsInv, vars, setup
<1>2. CASE SetUp
  <2>1. PICK B : /\ header' = [header EXCEPT !.blockSize = B]
                 /\ slotBytes' = maximumBlockSizeCompressedInBytes(B, header.bytesPerPixel,
                                                                   header.compressed)
                 /\ allocated' \in queueBytes(slotBytes', slots')
    BY <1>2 DEF SetUp
  <2>2. header \in Headers
    BY <1>2 DEF MInv, HeaderInv, SetUp
  <2>3. /\ header'.blockSize = B /\ header'.bytesPerPixel = header.bytesPerPixel
        /\ header'.compressed = header.compressed
    BY <2>1, <2>2 DEF Headers
  <2> QED
    BY <2>1, <2>3 DEF SlotsInv
<1>3. CASE Write \/ ConvertArguments
  BY <1>3 DEF Write, ConvertArguments
<1>4. CASE readKLBstack \/ readKLBslice \/ readKLBroi
  BY <1>4 DEF readKLBstack, readKLBslice, readKLBroi, Return
<1> QED
  BY <1>1, <1>2, <1>3, <1>4 DEF Next

\* A slot of a queue has room for any block of the image that grew by a third and an
\* overhead, and the bytes of a queue are not cut, for any widths of floats and ints that
\* allow for the largest block.
THEOREM SlotsHoldBlocks ==
    ASSUME Widths
    PROVE  Spec => []QueuesHoldBlocks
<1>1. Init => SlotsInv
  BY DEF Init, SlotsInv
<1>2. MInv /\ SlotsInv => QueuesHoldBlocks
  <2> SUFFICES ASSUME MInv, SlotsInv, pc = "file",
                      (IF header.compressed THEN 2 * (ProductOf(header.blockSize) * header.bytesPerPixel)
                       ELSE ProductOf(header.blockSize) * header.bytesPerPixel)
                         <= IntMax \div MaxSlots - CompressionOverhead
               PROVE  /\ slotBytes >= IF header.compressed
                                      THEN (4 * (ProductOf(header.blockSize) * header.bytesPerPixel)) \div 3
                                             + CompressionOverhead
                                      ELSE ProductOf(header.blockSize) * header.bytesPerPixel
                      /\ allocated >= slots * slotBytes
    BY Zenon DEF QueuesHoldBlocks
  <2>1. header \in Headers
    BY DEF MInv, HeaderInv
  <2>2. PICK B \in Sizes, pixel \in Nat \ {0}, compressed \in BOOLEAN :
           B = header.blockSize /\ pixel = header.bytesPerPixel /\ compressed = header.compressed
    BY <2>1, Assumed DEF Headers, MInv, FileInv
  <2>3. PICK bytes \in Nat \ {0} : bytes = ProductOf(B) * pixel
    <3>1. DataDims \in Nat /\ B \in [1 .. DataDims -> Nat \ {0}]
      BY Assumed DEF Sizes
    <3>2. ProductOf(B) \in Nat \ {0}
      BY <3>1, ProductPositive
    <3> QED
      BY <3>2, Positive
  <2>4. (IF compressed THEN 2 * bytes ELSE bytes) <= IntMax \div MaxSlots - CompressionOverhead
    BY Zenon, <2>2, <2>3
  <2>5. PICK slot : slot = maximumBlockSizeCompressedInBytes(B, pixel, compressed)
    OBVIOUS
  <2>6. /\ slot \in Nat /\ slot <= IntMax \div MaxSlots
        /\ slot >= IF compressed THEN (4 * bytes) \div 3 + CompressionOverhead ELSE bytes
    BY Zenon, <2>3, <2>4, <2>5, SlotHoldsBlock
  <2>7. slotBytes = slot /\ allocated \in queueBytes(slot, slots)
    BY Zenon, <2>2, <2>5 DEF SlotsInv
  <2>8. slots \in 1 .. MaxSlots
    BY DEF MInv, WorkForAllThreads
  <2>9. allocated = slots * slot
    BY <2>6, <2>7, <2>8, IntsCount
  <2>10. slots * slot \in Nat
    BY <2>6, <2>8, Assumed
  <2>11. allocated >= slots * slotBytes
    BY <2>7, <2>9, <2>10
  <2>12. slotBytes >= IF header.compressed
                      THEN (4 * (ProductOf(header.blockSize) * header.bytesPerPixel)) \div 3
                             + CompressionOverhead
                      ELSE ProductOf(header.blockSize) * header.bytesPerPixel
    BY Zenon, <2>2, <2>3, <2>6, <2>7
  <2> QED
    BY Zenon, <2>11, <2>12
<1> QED
  BY <1>1, <1>2, NextSlotsInv, Invariance, PTL DEF Spec

\* The widths of the code: floats of 24 bits, integers of 32, 50 bytes and 20 slots.
CodeWidths == Mantissa = 24 /\ Bits = 32 /\ CompressionOverhead = 50 /\ MaxSlots = 20


\* Their powers of 2.
LEMMA CodePowers ==
    ASSUME CodeWidths
    PROVE  /\ Pow2[0] = 1 /\ Pow2[1] = 2 /\ Pow2[2] = 4 /\ Pow2[3] = 8
           /\ Exact = 16777216 /\ UInt = 4294967296
<1>1. \A j \in 0 .. 3 : Pow2[j + 1] = 2 * Pow2[j]
  BY PowDef DEF CodeWidths
<1>2. /\ Pow2[0] = 1 /\ Pow2[0 + 1] = 2 * Pow2[0] /\ Pow2[1 + 1] = 2 * Pow2[1]
      /\ Pow2[2 + 1] = 2 * Pow2[2] /\ Pow2[3 + 1] = 2 * Pow2[3]
  BY <1>1, PowDef
<1>3. Pow2[0] = 1 /\ Pow2[1] = 2 /\ Pow2[2] = 4 /\ Pow2[3] = 8 /\ Pow2[4] = 16
  BY <1>2
<1>4. ASSUME NEW i \in Nat, NEW j \in Nat, i + j <= 32
      PROVE  Pow2[i] * Pow2[j] = Pow2[i + j]
  <2>1. i + j <= Bits + 2
    BY <1>4 DEF CodeWidths
  <2> QED
    BY Zenon, <1>4, <2>1, PowSum
<1>5. Pow2[4 + 4] = 256
  BY <1>3, <1>4
<1>6. Pow2[8 + 8] = 65536
  BY <1>4, <1>5
<1>7. Pow2[16 + 8] = 16777216
  BY <1>4, <1>5, <1>6
<1>8. Pow2[16 + 16] = 4294967296
  BY <1>4, <1>6
<1> QED
  BY <1>3, <1>7, <1>8 DEF CodeWidths, Exact, UInt

\* A float of the code that is beyond the integers has k bits less.
LEMMA CodeFloat ==
    ASSUME CodeWidths, NEW j \in 0 .. 2, NEW n \in Nat,
           16777216 * Pow2[j] <= n, n < 16777216 * Pow2[j + 1]
    PROVE  ToFloat(n) = Nearest(n, Pow2[j + 1]) * Pow2[j + 1]
<1>1. Pow2[j + 1] <= 8 /\ Pow2[j] \in {1, 2, 4} /\ Pow2[j + 1] = 2 * Pow2[j]
  BY CodePowers
<1>2. n < 4 * UInt
  BY <1>1, CodePowers
<1>3. PICK k \in 0 .. 10 : \E p \in Nat \ {0} :
              /\ p = Pow2[k] /\ ToFloat(n) = Nearest(n, p) * p
              /\ n < 16777216 * p
              /\ \A i \in 0 .. 10 : n < 16777216 * Pow2[i] => k <= i
  BY <1>2, FloatOf, CodePowers DEF CodeWidths
<1>4. PICK p \in Nat \ {0} : p = Pow2[k] /\ ToFloat(n) = Nearest(n, p) * p /\ n < 16777216 * p
  BY <1>3
<1>5. j + 1 \in 0 .. 10
  OBVIOUS
<1>6. k <= j + 1
  BY <1>3, <1>5
<1>7. ~ k <= j
  <2> SUFFICES ASSUME k <= j
               PROVE  FALSE
    OBVIOUS
  <2>1. Pow2[k] <= Pow2[j]
    BY CodePowers
  <2> QED
    BY <1>1, <1>4, <2>1
<1> QED
  BY <1>4, <1>6, <1>7

\* What they must allow for, they do.
LEMMA WidthsOfCode ==
    ASSUME CodeWidths
    PROVE  Widths
<1>1. IntMax \div MaxSlots = 107374182
  BY CodePowers DEF IntMax, CodeWidths
<1>2. ToFloat(53687066) = 53687064
  <2>1. ToFloat(53687066) = Nearest(53687066, Pow2[1 + 1]) * Pow2[1 + 1]
    BY CodePowers, CodeFloat
  <2>2. Nearest(53687066, 4) = 13421766
    BY DEF Nearest
  <2> QED
    BY <2>1, <2>2, CodePowers
<1>3. ToFloat(107374178) = 107374176
  <2>1. ToFloat(107374178) = Nearest(107374178, Pow2[2 + 1]) * Pow2[2 + 1]
    BY CodePowers, CodeFloat
  <2>2. Nearest(107374178, 8) = 13421772
    BY DEF Nearest
  <2> QED
    BY <2>1, <2>2, CodePowers
<1>4. (107374182 - 50) \div 2 = 53687066 /\ 2 * 53687064 + 50 = 107374178
  OBVIOUS
<1> QED
  BY <1>1, <1>2, <1>3, <1>4, CodePowers DEF Widths, CodeWidths

\* So it is in the program as it is built.
THEOREM SlotsOfCode ==
    ASSUME CodeWidths
    PROVE  Spec => []QueuesHoldBlocks
  BY WidthsOfCode, SlotsHoldBlocks
=============================================================================
