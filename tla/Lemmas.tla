------------------------------- MODULE Lemmas -------------------------------
(***************************************************************************)
(* What several proofs rest on: induction over numbers, said with sets,    *)
(* functions defined from 0 upwards, quotients and remainders; and what    *)
(* the operations of klb_circular_dequeue do to a well-formed queue, for   *)
(* every number of slots: the index arithmetic behind them is used here    *)
(* and nowhere else.                                                       *)
(***************************************************************************)
EXTENDS Dequeue, Products, WellFoundedInduction, TLAPS

\* Induction, said with a set: one that holds 0, and with a number the next, holds
\* all up to top.
LEMMA InductionUpTo ==
    ASSUME NEW top \in Nat, NEW T, 0 \in T,
           \A n \in Nat : n < top /\ n \in T => n + 1 \in T
    PROVE  \A n \in 0 .. top : n \in T
<1> SUFFICES ASSUME NEW n \in 0 .. top, n \notin T
             PROVE  FALSE
  OBVIOUS
<1> DEFINE R == {ss \in Nat \X Nat : ss[1] < ss[2]}
           Missing == {k \in 0 .. top : k \notin T}
<1>1. IsWellFoundedOn(R, Nat)
  BY Zenon, NatLessThanWellFounded DEF OpToRel
<1>2. Missing \subseteq Nat /\ Missing # {}
  OBVIOUS
<1>3. PICK k \in Missing : \A y \in Missing : ~ (<<y, k>> \in R)
  <2> HIDE DEF R, Missing
  <2> QED
    BY <1>1, <1>2, WFMin
<1>4. k # 0 /\ k - 1 \in Nat /\ k - 1 < top
  OBVIOUS
<1>5. k - 1 \notin T
  BY <1>4
<1>6. k - 1 \in Missing
  BY <1>4, <1>5
<1>7. <<k - 1, k>> \in R
  BY <1>4
<1> QED
  <2> HIDE DEF R, Missing
  <2> QED
    BY <1>3, <1>6, <1>7

\* f begins with base and goes on from each value to the next by a step.
Recurs(f, top, base, step) ==
    \A ii \in 0 .. top : f[ii] = IF ii = 0 THEN base ELSE step[f[ii - 1]][ii]

\* A function can be defined from 0 upwards.
LEMMA Recursion ==
    ASSUME NEW top \in Nat, NEW base \in Int, NEW step \in [Int -> [Nat -> Int]]
    PROVE  \E f \in [0 .. top -> Int] : Recurs(f, top, base, step)
<1> DEFINE Def(f, n) == Recurs(f, n, base, step)
           T == {n \in Nat : \E f \in [0 .. n -> Int] : Def(f, n)}
<1>1. 0 \in T
  <2>1. Def([ii \in 0 .. 0 |-> base], 0)
    BY DEF Recurs
  <2> QED
    BY <2>1
<1>2. ASSUME NEW n \in Nat, n \in T
      PROVE  n + 1 \in T
  <2>1. PICK f \in [0 .. n -> Int] : Def(f, n)
    BY <1>2
  <2> DEFINE g == [ii \in 0 .. n + 1 |-> IF ii = n + 1 THEN step[f[n]][n + 1] ELSE f[ii]]
  <2>2. g \in [0 .. n + 1 -> Int]
    <3>1. step[f[n]][n + 1] \in Int
      OBVIOUS
    <3>2. \A ii \in 0 .. n + 1 : ii # n + 1 => f[ii] \in Int
      OBVIOUS
    <3> QED
      BY <3>1, <3>2
  <2>3. ASSUME NEW ii \in 0 .. n + 1
        PROVE  g[ii] = IF ii = 0 THEN base ELSE step[g[ii - 1]][ii]
    <3>1. CASE ii = n + 1
      <4>1. g[ii] = step[f[n]][n + 1] /\ g[ii - 1] = f[n] /\ ii # 0
        BY <3>1
      <4> QED
        BY <3>1, <4>1
    <3>2. CASE ii # n + 1
      <4>1. ii \in 0 .. n /\ g[ii] = f[ii] /\ (ii # 0 => g[ii - 1] = f[ii - 1])
        BY <3>2
      <4> QED
        BY <2>1, <4>1 DEF Recurs
    <3> QED
      BY <3>1, <3>2
  <2>4. Def(g, n + 1)
    BY <2>3 DEF Recurs
  <2> HIDE DEF Def, g
  <2> QED
    BY <2>2, <2>4
<1>3. \A n \in 0 .. top : n \in T
  <2> HIDE DEF T
  <2> QED
    BY <1>1, <1>2, InductionUpTo
<1>4. top \in T
  <2> HIDE DEF T
  <2> QED
    BY <1>3
<1> QED
  BY <1>4

\* A product of positive numbers is positive, and grows with its factors.
LEMMA Positive ==
    ASSUME NEW a \in Nat \ {0}, NEW b \in Nat \ {0}
    PROVE  a * b \in Nat \ {0}
OBVIOUS

\* And a factor that grows makes the product grow.
LEMMA Monotone ==
    ASSUME NEW a \in Nat, NEW b \in Nat, NEW c \in Nat, NEW d \in Nat, a <= b, c <= d
    PROVE  a * c \in Nat /\ b * d \in Nat /\ a * c <= b * d
<1>1. a * c <= b * c
  OBVIOUS
<1>2. b * c <= b * d
  OBVIOUS
<1> QED
  BY <1>1, <1>2

\* Division with remainder.
LEMMA Division ==
    ASSUME NEW k \in Nat, NEW a \in Nat \ {0}
    PROVE  /\ k \div a \in Nat /\ k % a \in Nat /\ k % a < a
           /\ k = a * (k \div a) + (k % a)
OBVIOUS

\* A number has one quotient and one remainder.
LEMMA OneQuotient ==
    ASSUME NEW a \in Nat \ {0}, NEW q \in Nat, NEW r \in Nat, NEW q2 \in Nat, NEW r2 \in Nat,
           r < a, r2 < a, a * q + r = a * q2 + r2
    PROVE  q = q2 /\ r = r2
<1>1. ASSUME NEW x \in Nat, NEW y \in Nat, x < y
      PROVE  a * x + a <= a * y
  <2>1. a * (x + 1) <= a * y
    BY <1>1, Monotone
  <2>2. a * (x + 1) = a * x + a
    OBVIOUS
  <2> QED
    BY <2>1, <2>2
<1>2. a * q \in Nat /\ a * q2 \in Nat
  OBVIOUS
<1>3. ~ (q < q2)
  BY <1>1, <1>2
<1>4. ~ (q2 < q)
  BY <1>1, <1>2
<1>5. q = q2
  BY <1>3, <1>4
<1> QED
  BY <1>2, <1>5

\* The number of blocks is that of a box of blocks.
LEMMA BlocksDivide ==
    ASSUME NEW x \in Nat \ {0}, NEW n \in Nat \ {0}
    PROVE  /\ (x + n - 1) \div n \in Nat \ {0}
           /\ \A k \in Nat : k < (x + n - 1) \div n <=> k * n < x
           /\ \A y \in Nat : y < x => y \div n < (x + n - 1) \div n
<1>1. PICK m \in Nat : m = x + n - 1
  OBVIOUS
<1>2. PICK d \in Nat, r \in Nat : d = m \div n /\ r < n /\ m = n * d + r
  BY Division
<1>3. PICK e \in Nat : e = n * d
  OBVIOUS
<1>4. ASSUME NEW k \in Nat, k < d
      PROVE  k * n < x
  <2>1. (k + 1) * n <= d * n
    BY <1>4, Monotone
  <2>2. (k + 1) * n = k * n + n /\ d * n = e /\ k * n \in Nat
    BY <1>3
  <2> QED
    BY <1>1, <1>2, <1>3, <2>1, <2>2
<1>5. ASSUME NEW k \in Nat, k * n < x
      PROVE  k < d
  <2> SUFFICES ASSUME d <= k
               PROVE  FALSE
    OBVIOUS
  <2>1. d * n <= k * n
    BY Monotone
  <2>2. d * n = e /\ k * n \in Nat
    BY <1>3
  <2> QED
    BY <1>1, <1>2, <1>3, <1>5, <2>1, <2>2
<1>6. d # 0
  BY <1>5
<1>7. ASSUME NEW y \in Nat, y < x
      PROVE  y \div n < d
  <2>1. PICK q \in Nat, z \in Nat : q = y \div n /\ y = n * q + z
    BY Division
  <2>2. q * n \in Nat /\ q * n = n * q
    OBVIOUS
  <2>3. q * n < x
    BY <1>7, <2>1, <2>2
  <2> QED
    BY <1>5, <2>1, <2>3
<1> QED
  BY <1>1, <1>2, <1>4, <1>5, <1>6, <1>7

-----------------------------------------------------------------------------
\* A product, as the last of the products of the first factors.
LEMMA ProductIs ==
    ASSUME NEW n \in Nat, NEW s \in [1 .. n -> Nat]
    PROVE  \E p \in [0 .. n -> Nat] :
              /\ p[0] = 1
              /\ \A ii \in 0 .. n - 1 : p[ii + 1] = p[ii] * s[ii + 1]
              /\ ProductOf(s) = p[n]
<1> DEFINE Body(p) == [ii \in 0 .. n |-> IF ii = 0 THEN 1 ELSE p[ii - 1] * s[ii]]
           step == [a \in Int |-> [ii \in Nat |-> IF ii \in 1 .. n THEN a * s[ii] ELSE 0]]
<1>1. step \in [Int -> [Nat -> Int]]
  OBVIOUS
<1>2. PICK f \in [0 .. n -> Int] :
         \A ii \in 0 .. n : f[ii] = IF ii = 0 THEN 1 ELSE step[f[ii - 1]][ii]
  <2> HIDE DEF step
  <2>1. PICK base \in Int : base = 1
    OBVIOUS
  <2>2. PICK f \in [0 .. n -> Int] : Recurs(f, n, base, step)
    BY <1>1, Recursion
  <2> QED
    BY <2>1, <2>2 DEF Recurs
<1>3. f = Body(f)
  <2>1. ASSUME NEW ii \in 0 .. n, ii # 0
        PROVE  step[f[ii - 1]][ii] = f[ii - 1] * s[ii]
    <3>1. ii \in Nat /\ ii - 1 \in 0 .. n /\ ii \in 1 .. n
      BY <2>1
    <3> QED
      BY <3>1
  <2> HIDE DEF step
  <2> QED
    BY <1>2, <2>1
<1> DEFINE p == CHOOSE g : g = Body(g)
<1>4. p = Body(p)
  <2> HIDE DEF Body
  <2> QED
    BY <1>3
<1>5. ProductOf(s) = p[n]
  <2>1. Len(s) = n
    OBVIOUS
  <2> QED
    BY <2>1 DEF ProductOf
<1> HIDE DEF p
<1>6. \A ii \in 0 .. n : p[ii] = IF ii = 0 THEN 1 ELSE p[ii - 1] * s[ii]
  BY <1>4
<1>7. p[0] = 1 /\ \A ii \in 0 .. n - 1 : p[ii + 1] = p[ii] * s[ii + 1]
  BY <1>6
<1> DEFINE T == {k \in Nat : p[k] \in Nat}
<1>8. \A k \in 0 .. n : k \in T
  <2>1. 0 \in T
    BY <1>7
  <2>2. ASSUME NEW k \in Nat, k < n, k \in T
        PROVE  k + 1 \in T
    <3>1. s[k + 1] \in Nat /\ p[k + 1] = p[k] * s[k + 1]
      BY <1>7, <2>2
    <3> QED
      BY <2>2, <3>1
  <2> HIDE DEF T
  <2> QED
    BY <2>1, <2>2, InductionUpTo
<1>9. p \in [0 .. n -> Nat]
  BY <1>4, <1>8
<1> QED
  BY <1>5, <1>7, <1>9

\* A product of positive factors is positive.
LEMMA ProductPositive ==
    ASSUME NEW n \in Nat, NEW s \in [1 .. n -> Nat \ {0}]
    PROVE  ProductOf(s) \in Nat \ {0}
<1>0. s \in [1 .. n -> Nat]
  OBVIOUS
<1>1. PICK p \in [0 .. n -> Nat] :
              /\ p[0] = 1
              /\ \A ii \in 0 .. n - 1 : p[ii + 1] = p[ii] * s[ii + 1]
              /\ ProductOf(s) = p[n]
  BY <1>0, ProductIs
<1> DEFINE T == {k \in Nat : p[k] # 0}
<1>2. 0 \in T
  BY <1>1
<1>3. ASSUME NEW k \in Nat, k < n, k \in T
      PROVE  k + 1 \in T
  <2>1. p[k + 1] = p[k] * s[k + 1] /\ p[k] \in Nat \ {0} /\ s[k + 1] \in Nat \ {0}
    BY <1>1, <1>3
  <2>2. p[k] * s[k + 1] \in Nat \ {0}
    BY <2>1, Positive
  <2> QED
    BY <2>1, <2>2
<1>4. n \in T
  <2> HIDE DEF T
  <2>1. \A k \in 0 .. n : k \in T
    BY <1>2, <1>3, InductionUpTo
  <2> QED
    BY <2>1
<1> QED
  BY <1>1, <1>4

\* Larger factors make a larger product.
LEMMA ProductMonotone ==
    ASSUME NEW n \in Nat, NEW s \in [1 .. n -> Nat], NEW t \in [1 .. n -> Nat],
           \A i \in 1 .. n : s[i] <= t[i]
    PROVE  ProductOf(s) <= ProductOf(t)
<1>1. PICK p \in [0 .. n -> Nat] :
              /\ p[0] = 1
              /\ \A ii \in 0 .. n - 1 : p[ii + 1] = p[ii] * s[ii + 1]
              /\ ProductOf(s) = p[n]
  BY ProductIs
<1>2. PICK q \in [0 .. n -> Nat] :
              /\ q[0] = 1
              /\ \A ii \in 0 .. n - 1 : q[ii + 1] = q[ii] * t[ii + 1]
              /\ ProductOf(t) = q[n]
  BY ProductIs
<1> DEFINE T == {k \in Nat : p[k] <= q[k]}
<1>3. 0 \in T
  BY <1>1, <1>2
<1>4. ASSUME NEW k \in Nat, k < n, k \in T
      PROVE  k + 1 \in T
  <2>1. /\ p[k + 1] = p[k] * s[k + 1] /\ p[k] \in Nat /\ s[k + 1] \in Nat
        /\ q[k + 1] = q[k] * t[k + 1] /\ q[k] \in Nat /\ t[k + 1] \in Nat
        /\ p[k] <= q[k] /\ s[k + 1] <= t[k + 1]
    BY <1>1, <1>2, <1>4
  <2>2. p[k] * s[k + 1] <= q[k] * t[k + 1]
    BY <2>1, Monotone
  <2> QED
    BY <2>1, <2>2
<1>5. n \in T
  <2> HIDE DEF T
  <2>1. \A k \in 0 .. n : k \in T
    BY <1>3, <1>4, InductionUpTo
  <2> QED
    BY <2>1
<1> QED
  BY <1>1, <1>2, <1>5

\* One factor of a product times what is left when it is replaced by 1.
LEMMA ProductFactor ==
    ASSUME NEW n \in Nat, NEW t \in [1 .. n -> Nat], NEW u \in [1 .. n -> Nat],
           NEW k \in 1 .. n, u[k] = 1,
           \A i \in 1 .. n : i # k => u[i] = t[i]
    PROVE  ProductOf(t) = t[k] * ProductOf(u)
<1>1. PICK p \in [0 .. n -> Nat] :
              /\ p[0] = 1
              /\ \A ii \in 0 .. n - 1 : p[ii + 1] = p[ii] * t[ii + 1]
              /\ ProductOf(t) = p[n]
  BY ProductIs
<1>2. PICK q \in [0 .. n -> Nat] :
              /\ q[0] = 1
              /\ \A ii \in 0 .. n - 1 : q[ii + 1] = q[ii] * u[ii + 1]
              /\ ProductOf(u) = q[n]
  BY ProductIs
<1>3. PICK v \in Nat : v = t[k]
  OBVIOUS
<1> DEFINE T == {j \in Nat : (j < k => p[j] = q[j]) /\ (~ (j < k) => p[j] = v * q[j])}
<1>4. 0 \in T
  BY <1>1, <1>2
<1>5. ASSUME NEW j \in Nat, j < n, j \in T
      PROVE  j + 1 \in T
  <2>0. j \in 0 .. n - 1 /\ j \in 0 .. n /\ j + 1 \in 1 .. n
    BY <1>5
  <2>1. /\ p[j + 1] = p[j] * t[j + 1] /\ t[j + 1] \in Nat
        /\ q[j + 1] = q[j] * u[j + 1] /\ q[j] \in Nat /\ u[j + 1] \in Nat
    BY <1>1, <1>2, <2>0
  <2>2. (j < k => p[j] = q[j]) /\ (~ (j < k) => p[j] = v * q[j])
    BY Zenon, <1>5
  <2>3. PICK w \in Nat : w = q[j]
    BY <2>1
  <2>4. CASE j + 1 < k
    <3>1. u[j + 1] = t[j + 1] /\ j < k
      BY <2>4
    <3>2. p[j + 1] = q[j + 1]
      BY <2>1, <2>2, <3>1
    <3> QED
      BY <2>4, <3>2
  <2>5. CASE j + 1 = k
    <3>1. u[j + 1] = 1 /\ t[j + 1] = v /\ j < k
      BY <1>3, <2>5
    <3>2. p[j] = w
      BY <2>2, <2>3, <3>1
    <3>3. p[j + 1] = w * v /\ q[j + 1] = w
      BY <2>1, <2>3, <3>1, <3>2
    <3> QED
      BY <2>5, <3>3
  <2>6. CASE j + 1 > k
    <3>1. u[j + 1] = t[j + 1] /\ ~ (j < k)
      BY <2>0, <2>6
    <3>2. p[j] = v * w
      BY <2>2, <2>3, <3>1
    <3>3. PICK z \in Nat : z = t[j + 1]
      BY <2>1
    <3>4. (v * w) * z = v * (w * z)
      OBVIOUS
    <3> QED
      BY <2>1, <2>3, <2>6, <3>1, <3>2, <3>3, <3>4
  <2> QED
    BY <2>4, <2>5, <2>6
<1>6. n \in T
  <2> HIDE DEF T
  <2>1. \A j \in 0 .. n : j \in T
    BY <1>4, <1>5, InductionUpTo
  <2> QED
    BY <2>1
<1>7. ~ (n < k)
  OBVIOUS
<1> QED
  BY <1>1, <1>2, <1>3, <1>6, <1>7

-----------------------------------------------------------------------------
\* The constructor makes a well-formed queue with nothing in it.
LEMMA NewDequeueWellFormed ==
    ASSUME NEW n \in Nat \ {0}, NEW S, NEW junk \in S
    PROVE  /\ WellFormed(NewDequeue(n, junk), n, S)
           /\ NewDequeue(n, junk).numTaken = 0
BY DEF WellFormed, NewDequeue, Slot

\* A slot index is a slot of the queue, also the one past the last element.
LEMMA SlotRange ==
    ASSUME NEW n \in Nat \ {0}, NEW S, NEW q, WellFormed(q, n, S),
           NEW i \in 1 .. n
    PROVE  Slot(q, i) \in 0 .. n - 1
BY DEF WellFormed, Slot

\* Different positions in the queue are different slots.
LEMMA SlotInjective ==
    ASSUME NEW n \in Nat \ {0}, NEW S, NEW q, WellFormed(q, n, S),
           NEW i \in 1 .. n, NEW j \in 1 .. n, Slot(q, i) = Slot(q, j)
    PROVE  i = j
BY DEF WellFormed, Slot

\* A sequence is the function of its indices.
LEMMA SequenceIsFunction ==
    ASSUME NEW S, NEW s \in Seq(S)
    PROVE  s = [i \in 1 .. Len(s) |-> s[i]]
OBVIOUS

\* The elements of a well-formed queue are a sequence of values.
LEMMA ContentsType ==
    ASSUME NEW n \in Nat \ {0}, NEW S, NEW q, WellFormed(q, n, S)
    PROVE  /\ Contents(q) \in Seq(S)
           /\ Len(Contents(q)) = q.numTaken
           /\ \A i \in 1 .. q.numTaken : Contents(q)[i] = q.dataBuffer[Slot(q, i)]
<1>1. /\ q.numTaken \in Nat /\ q.numTaken <= n
      /\ q.dataBuffer \in [0 .. n - 1 -> S]
  BY DEF WellFormed
<1>2. ASSUME NEW i \in 1 .. q.numTaken
      PROVE  q.dataBuffer[Slot(q, i)] \in S
  <2>1. i \in 1 .. n
    BY <1>1
  <2>2. Slot(q, i) \in 0 .. n - 1
    BY <2>1, SlotRange
  <2> QED
    BY <1>1, <2>2
<1> QED
  BY <1>1, <1>2 DEF Contents

\* Filling the slot that is pushed next disturbs no element of the queue.
LEMMA FillPreserves ==
    ASSUME NEW n \in Nat \ {0}, NEW S, NEW q, WellFormed(q, n, S), HasRoom(q),
           NEW v \in S
    PROVE  /\ WellFormed(FillBlock(q, q.writeIdx, v), n, S)
           /\ FillBlock(q, q.writeIdx, v).numTaken = q.numTaken
           /\ Contents(FillBlock(q, q.writeIdx, v)) = Contents(q)
           /\ FillBlock(q, q.writeIdx, v).dataBuffer[q.writeIdx] = v
<1> DEFINE f == FillBlock(q, q.writeIdx, v)
<1>1. /\ WellFormed(f, n, S)
      /\ f.numTaken = q.numTaken
      /\ f.dataBuffer[q.writeIdx] = v
  BY DEF WellFormed, FillBlock, Slot
<1>2. q.numTaken \in Nat /\ q.numTaken + 1 \in 1 .. n
  BY DEF WellFormed, HasRoom
<1>3. ASSUME NEW i \in 1 .. q.numTaken
      PROVE  f.dataBuffer[Slot(f, i)] = q.dataBuffer[Slot(q, i)]
  <2>1. i \in 1 .. n /\ i # q.numTaken + 1
    BY <1>2
  <2>2. Slot(q, i) # q.writeIdx
    <3>1. q.writeIdx = Slot(q, q.numTaken + 1)
      BY DEF WellFormed
    <3> QED
      BY <1>2, <2>1, <3>1, SlotInjective
  <2>3. Slot(f, i) = Slot(q, i) /\ Slot(q, i) \in 0 .. n - 1
    <3>1. Slot(f, i) = Slot(q, i)
      BY DEF WellFormed, Slot, FillBlock
    <3> QED
      BY <2>1, <3>1, SlotRange
  <2> QED
    BY <2>2, <2>3 DEF FillBlock, WellFormed
<1>4. Contents(f) = Contents(q)
  BY <1>1, <1>3 DEF Contents
<1> QED
  BY <1>1, <1>4

\* Pushing appends the filled slot.
LEMMA PushAppends ==
    ASSUME NEW n \in Nat \ {0}, NEW S, NEW q, WellFormed(q, n, S), HasRoom(q)
    PROVE  /\ WellFormed(PushWriteBlock(q), n, S)
           /\ PushWriteBlock(q).numTaken = q.numTaken + 1
           /\ PushWriteBlock(q).readIdx = q.readIdx
           /\ PushWriteBlock(q).dataBuffer = q.dataBuffer
           /\ Contents(PushWriteBlock(q))
                = Append(Contents(q), q.dataBuffer[q.writeIdx])
<1> DEFINE p == PushWriteBlock(q)
<1>1. /\ q.numTaken \in Nat /\ q.numTaken < n /\ n \in Nat
      /\ q.writeIdx = Slot(q, q.numTaken + 1)
  BY DEF WellFormed, HasRoom
<1>2. /\ p.numTaken = q.numTaken + 1
      /\ p.readIdx = q.readIdx
      /\ p.dataBuffer = q.dataBuffer
      /\ p.numBlocks = q.numBlocks
  BY DEF WellFormed, PushWriteBlock
<1>3. WellFormed(p, n, S)
  <2>1. NextIdx(q, q.writeIdx) \in 0 .. n - 1
    BY DEF WellFormed, NextIdx
  <2>2. p \in [numBlocks : {n}, readIdx : 0 .. n - 1, writeIdx : 0 .. n - 1,
                numTaken : 0 .. n, dataBuffer : [0 .. n - 1 -> S]]
    <3>1. q.numTaken + 1 \in 0 .. n
      BY <1>1
    <3>2. q \in [numBlocks : {n}, readIdx : 0 .. n - 1, writeIdx : 0 .. n - 1,
                 numTaken : 0 .. n, dataBuffer : [0 .. n - 1 -> S]]
      BY DEF WellFormed
    <3>3. p = [q EXCEPT !.writeIdx = NextIdx(q, q.writeIdx),
                        !.numTaken = q.numTaken + 1]
      BY DEF PushWriteBlock
    <3> QED
      BY <2>1, <3>1, <3>2, <3>3
  <2>3. p.writeIdx = NextIdx(q, q.writeIdx)
    BY DEF WellFormed, PushWriteBlock
  <2>4. NextIdx(q, Slot(q, q.numTaken + 1)) = Slot(p, p.numTaken + 1)
    BY <1>1, <1>2 DEF WellFormed, NextIdx, Slot
  <2> QED
    BY <1>1, <2>2, <2>3, <2>4 DEF WellFormed
<1>4. \A i : Slot(p, i) = Slot(q, i)
  BY <1>2 DEF Slot
<1>5. Contents(p) = Append(Contents(q), q.dataBuffer[q.writeIdx])
  <2> DEFINE a == Append(Contents(q), q.dataBuffer[q.writeIdx])
  <2>1. /\ Contents(q) \in Seq(S)
        /\ Len(Contents(q)) = q.numTaken
        /\ \A i \in 1 .. q.numTaken : Contents(q)[i] = q.dataBuffer[Slot(q, i)]
    BY ContentsType
  <2>2. q.dataBuffer[q.writeIdx] \in S
    BY DEF WellFormed
  <2>3. /\ a \in Seq(S)
        /\ Len(a) = q.numTaken + 1
        /\ \A i \in 1 .. q.numTaken : a[i] = q.dataBuffer[Slot(q, i)]
        /\ a[q.numTaken + 1] = q.dataBuffer[q.writeIdx]
    BY <2>1, <2>2, <1>1
  <2>4. \A i \in 1 .. q.numTaken + 1 : a[i] = q.dataBuffer[Slot(q, i)]
    BY <2>3, <1>1
  <2>5. a = [i \in 1 .. q.numTaken + 1 |-> a[i]]
    BY <2>3, SequenceIsFunction
  <2> QED
    BY <2>4, <2>5, <1>2, <1>4 DEF Contents
<1> QED
  BY <1>2, <1>3, <1>5

\* Popping removes the oldest element, which is the read block.
LEMMA PopRemovesHead ==
    ASSUME NEW n \in Nat \ {0}, NEW S, NEW q, WellFormed(q, n, S), q.numTaken > 0
    PROVE  /\ WellFormed(PopReadBlock(q), n, S)
           /\ PopReadBlock(q).numTaken = q.numTaken - 1
           /\ PopReadBlock(q).writeIdx = q.writeIdx
           /\ PopReadBlock(q).dataBuffer = q.dataBuffer
           /\ Contents(PopReadBlock(q)) = Tail(Contents(q))
           /\ Contents(q) # <<>>
           /\ GetReadBlock(q) = q.readIdx
           /\ Head(Contents(q)) = q.dataBuffer[q.readIdx]
<1> DEFINE p == PopReadBlock(q)
<1>1. /\ q.numTaken \in Nat /\ q.numTaken <= n /\ n \in Nat
      /\ q.readIdx \in 0 .. n - 1
  BY DEF WellFormed
<1>2. /\ p.numTaken = q.numTaken - 1
      /\ p.writeIdx = q.writeIdx
      /\ p.dataBuffer = q.dataBuffer
      /\ p.numBlocks = q.numBlocks
      /\ p.readIdx = NextIdx(q, q.readIdx)
  BY DEF WellFormed, PopReadBlock
<1>3. WellFormed(p, n, S)
  <2>1. NextIdx(q, q.readIdx) \in 0 .. n - 1
    BY DEF WellFormed, NextIdx
  <2>2. p \in [numBlocks : {n}, readIdx : 0 .. n - 1, writeIdx : 0 .. n - 1,
                numTaken : 0 .. n, dataBuffer : [0 .. n - 1 -> S]]
    <3>1. q.numTaken - 1 \in 0 .. n
      BY <1>1
    <3>2. q \in [numBlocks : {n}, readIdx : 0 .. n - 1, writeIdx : 0 .. n - 1,
                 numTaken : 0 .. n, dataBuffer : [0 .. n - 1 -> S]]
      BY DEF WellFormed
    <3>3. p = [q EXCEPT !.numTaken = q.numTaken - 1,
                        !.readIdx = NextIdx(q, q.readIdx)]
      BY DEF PopReadBlock
    <3> QED
      BY <2>1, <3>1, <3>2, <3>3
  <2>3. Slot(q, q.numTaken + 1) = Slot(p, p.numTaken + 1)
    BY <1>1, <1>2 DEF WellFormed, NextIdx, Slot
  <2> QED
    BY <1>2, <2>2, <2>3 DEF WellFormed
<1>4. \A i \in 1 .. q.numTaken - 1 : Slot(p, i) = Slot(q, i + 1)
  BY <1>1, <1>2 DEF Slot, NextIdx, WellFormed
<1>5. /\ Contents(q) \in Seq(S)
      /\ Len(Contents(q)) = q.numTaken
      /\ \A i \in 1 .. q.numTaken : Contents(q)[i] = q.dataBuffer[Slot(q, i)]
  BY ContentsType
<1>6. Contents(q) # <<>> /\ Head(Contents(q)) = q.dataBuffer[q.readIdx]
  <2>1. Slot(q, 1) = q.readIdx
    BY <1>1 DEF Slot, WellFormed
  <2> QED
    BY <2>1, <1>1, <1>5
<1>7. Contents(p) = Tail(Contents(q))
  <2>1. Tail(Contents(q)) = [i \in 1 .. q.numTaken - 1 |-> Contents(q)[i + 1]]
    <3> DEFINE t == Tail(Contents(q))
    <3>1. /\ t \in Seq(S)
          /\ Len(t) = q.numTaken - 1
          /\ \A i \in 1 .. Len(t) : t[i] = Contents(q)[i + 1]
      BY <1>5, <1>6
    <3>2. t = [i \in 1 .. Len(t) |-> t[i]]
      BY <3>1, SequenceIsFunction
    <3> QED
      BY <3>1, <3>2
  <2>2. \A i \in 1 .. q.numTaken - 1 :
            Contents(q)[i + 1] = p.dataBuffer[Slot(p, i)]
    BY <1>1, <1>2, <1>4, <1>5
  <2> QED
    BY <2>1, <2>2, <1>2 DEF Contents
<1>8. GetReadBlock(q) = q.readIdx
  BY <1>1 DEF GetReadBlock
<1> QED
  BY <1>2, <1>3, <1>6, <1>7, <1>8

\* The same two facts, element by element.
LEMMA PushElements ==
    ASSUME NEW n \in Nat \ {0}, NEW S, NEW q, WellFormed(q, n, S), HasRoom(q)
    PROVE  \A i \in 1 .. q.numTaken + 1 :
               Contents(PushWriteBlock(q))[i]
                 = IF i = q.numTaken + 1 THEN q.dataBuffer[q.writeIdx]
                                         ELSE Contents(q)[i]
<1>0. q.numTaken \in Nat
  BY DEF WellFormed
<1>1. /\ Contents(q) \in Seq(S)
      /\ Len(Contents(q)) = q.numTaken
  BY ContentsType
<1>2. Contents(PushWriteBlock(q)) = Append(Contents(q), q.dataBuffer[q.writeIdx])
  BY PushAppends
<1> QED
  BY <1>0, <1>1, <1>2

LEMMA PopElements ==
    ASSUME NEW n \in Nat \ {0}, NEW S, NEW q, WellFormed(q, n, S), q.numTaken > 0
    PROVE  /\ \A i \in 1 .. q.numTaken - 1 :
                  Contents(PopReadBlock(q))[i] = Contents(q)[i + 1]
           /\ Contents(q)[1] = q.dataBuffer[q.readIdx]
<1>0. q.numTaken \in Nat
  BY DEF WellFormed
<1>1. /\ Contents(q) \in Seq(S)
      /\ Len(Contents(q)) = q.numTaken
  BY ContentsType
<1>2. /\ Contents(PopReadBlock(q)) = Tail(Contents(q))
      /\ Contents(q) # <<>>
      /\ Head(Contents(q)) = q.dataBuffer[q.readIdx]
  BY PopRemovesHead
<1> QED
  BY <1>0, <1>1, <1>2

\* With room and something to read, the two pointers are different slots.
LEMMA ReadWriteDisjoint ==
    ASSUME NEW n \in Nat \ {0}, NEW S, NEW q, WellFormed(q, n, S),
           HasRoom(q), q.numTaken > 0
    PROVE  q.writeIdx # q.readIdx
BY DEF WellFormed, HasRoom, Slot
=============================================================================
