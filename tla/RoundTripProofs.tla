-------------------------- MODULE RoundTripProofs --------------------------
(***************************************************************************)
(* What is read is what was written, for images, blocks and regions of     *)
(* every size and any number of dimensions, with slices and without.       *)
(*                                                                         *)
(* First the arithmetic of blocks: the intersection of a block with a      *)
(* region of interest; places and coordinates; each voxel in one block;    *)
(* and the odometers that move offsets instead of computing them.          *)
(*                                                                         *)
(* Then the inductive invariant, which says of each side where its         *)
(* odometer stands and that its offsets are those of the odometer's        *)
(* coordinates, of the block buffers which voxels they hold, and of the    *)
(* caller's buffer that it has the voxels of the blocks that are done and  *)
(* those the odometer of the present block has passed.                     *)
(***************************************************************************)
EXTENDS RoundTrip, Lemmas, Sequences

\* What the lemmas speak of, in one dimension: a block of nominal size n that
\* begins at c, inside an image of total pixels, and a region [lb, ub] that begins
\* in it.
Situation(c, n, total, lb, ub) ==
    /\ c \in Nat /\ n \in Nat \ {0} /\ total \in Nat /\ lb \in Nat /\ ub \in Nat
    /\ c < total
    /\ lb <= ub
    /\ lb < total

\* The pixels of a border block end with the image.
BorderSize(c, n, total) == IF n < total - c THEN n ELSE total - c

\* The test of blockUncompressor (klb_imageIO.cpp:567) takes a border block for a
\* full one, and is right all the same: a block passes it if and only if it has a
\* pixel in the region.  It is so because the region begins in the image.
THEOREM IntersectionTest ==
    ASSUME NEW c, NEW n, NEW total, NEW lb, NEW ub,
           Situation(c, n, total, lb, ub)
    PROVE  Intersects(c, n, lb, ub)
           <=> \E x \in Int : /\ c <= x /\ x < c + BorderSize(c, n, total)
                              /\ lb <= x /\ x <= ub
<1> DEFINE s == BorderSize(c, n, total)
<1>0. s \in Nat \ {0} /\ s <= n /\ c + s <= total /\ (s = n \/ c + s = total)
    BY DEF Situation, BorderSize
<1>1. ASSUME Intersects(c, n, lb, ub)
      PROVE  \E x \in Int : c <= x /\ x < c + s /\ lb <= x /\ x <= ub
    <2> HIDE DEF s
    <2>1. CASE c <= lb
        <3>1. lb \in Int /\ c <= lb /\ lb < c + s /\ lb <= lb /\ lb <= ub
            BY <1>0, <1>1, <2>1 DEF Intersects, Situation
        <3> QED BY <3>1
    <2>2. CASE ~(c <= lb)
        <3>1. c \in Int /\ c <= c /\ c < c + s /\ lb <= c /\ c <= ub
            BY <1>0, <1>1, <2>2 DEF Intersects, Situation
        <3> QED BY <3>1
    <2> QED BY <2>1, <2>2
<1>2. ASSUME NEW x \in Int, c <= x, x < c + s, lb <= x, x <= ub
      PROVE  Intersects(c, n, lb, ub)
    <2> HIDE DEF s
    <2> QED BY <1>0, <1>2 DEF Intersects, Situation
<1> QED BY <1>1, <1>2

\* bLB and bUB (klb_imageIO.cpp:664-674) cut out of a block that passes the test
\* a range of at least one pixel, inside the block, and it holds exactly the
\* pixels of the block that lie in the region.
THEOREM IntersectionBounds ==
    ASSUME NEW c, NEW n, NEW total, NEW lb, NEW ub,
           Situation(c, n, total, lb, ub),
           Intersects(c, n, lb, ub)
    PROVE  LET s  == BorderSize(c, n, total)
               bL == LowerBound(c, lb)
               bU == UpperBound(c, s, ub)
           IN  /\ bL \in Nat /\ bU \in Nat
               /\ bL < bU /\ bU <= s
               /\ \A x \in Int : (c + bL <= x /\ x < c + bU)
                                 <=> (c <= x /\ x < c + s /\ lb <= x /\ x <= ub)
<1> DEFINE s == BorderSize(c, n, total)
           bL == LowerBound(c, lb)
           bU == UpperBound(c, s, ub)
<1>0. s \in Nat \ {0} /\ s <= n /\ c + s <= total /\ (s = n \/ c + s = total)
    BY DEF Situation, BorderSize
<1> HIDE DEF s
<1>1. bL \in Nat /\ (c >= lb => bL = 0) /\ (c < lb => bL = lb - c)
    BY DEF Situation, LowerBound
<1>2. /\ bU \in Nat
      /\ c + s - 1 <= ub => bU = s
      /\ c + s - 1 > ub => bU = ub - c + 1
    BY <1>0 DEF Situation, UpperBound, Intersects
<1> HIDE DEF bL, bU
<1>3. bL < bU /\ bU <= s
    BY <1>0, <1>1, <1>2 DEF Situation, Intersects
<1>4. ASSUME NEW x \in Int
      PROVE  (c + bL <= x /\ x < c + bU)
             <=> (c <= x /\ x < c + s /\ lb <= x /\ x <= ub)
    BY <1>0, <1>1, <1>2 DEF Situation, Intersects
<1> QED BY <1>1, <1>2, <1>3, <1>4 DEF s, bL, bU

-----------------------------------------------------------------------------
\* The stride of a dimension.
LEMMA CumDef ==
    ASSUME NEW size \in [Dims -> Int]
    PROVE  /\ Cum(size) \in [Dims -> Int]
           /\ \A ii \in Dims : Cum(size)[ii] = IF ii = 0 THEN 1 ELSE Cum(size)[ii - 1] * size[ii - 1]
<1> DEFINE Body(c) == [ii \in Dims |-> IF ii = 0 THEN 1 ELSE c[ii - 1] * size[ii - 1]]
           step == [a \in Int |-> [ii \in Nat |-> IF ii - 1 \in Dims THEN a * size[ii - 1] ELSE 0]]
<1>0. DataDims - 1 \in Nat /\ Dims = 0 .. DataDims - 1
  BY BlockGeometryAssumption DEF Dims
<1>1. step \in [Int -> [Nat -> Int]]
  OBVIOUS
<1>2. PICK f \in [Dims -> Int] :
        \A ii \in Dims : f[ii] = IF ii = 0 THEN 1 ELSE step[f[ii - 1]][ii]
  <2> HIDE DEF step
  <2>1. PICK top \in Nat : top = DataDims - 1
    BY <1>0
  <2>2. PICK base \in Int : base = 1
    OBVIOUS
  <2>3. \E f \in [0 .. top -> Int] : Recurs(f, top, base, step)
    BY <1>1, Recursion
  <2> QED
    BY <1>0, <2>1, <2>2, <2>3 DEF Recurs
<1>3. ASSUME NEW ii \in Dims, ii # 0
      PROVE  step[f[ii - 1]][ii] = f[ii - 1] * size[ii - 1]
  <2>1. ii \in Nat /\ ii - 1 \in Dims /\ f[ii - 1] \in Int
    BY <1>0, <1>3
  <2> QED
    BY <2>1
<1>4. f = Body(f)
  <2>1. ASSUME NEW ii \in Dims
        PROVE  f[ii] = Body(f)[ii]
    BY <1>2, <1>3
  <2> QED
    BY <2>1
<1>5. Cum(size) = CHOOSE c : c = Body(c)
  BY DEF Cum
<1>6. Cum(size) = Body(Cum(size))
  <2> HIDE DEF Body
  <2> QED
    BY <1>4, <1>5
<1>7. \A ii \in Dims : Cum(size)[ii] = IF ii = 0 THEN 1 ELSE Cum(size)[ii - 1] * size[ii - 1]
  BY <1>6
<1> DEFINE T == {n \in Nat : Cum(size)[n] \in Int}
<1>8. \A n \in 0 .. DataDims - 1 : n \in T
  <2>1. 0 \in T
    BY <1>0, <1>7
  <2>2. ASSUME NEW n \in Nat, n < DataDims - 1, n \in T
        PROVE  n + 1 \in T
    <3>1. n \in Dims /\ n + 1 \in Dims /\ (n + 1) - 1 = n
      BY <1>0, <2>2
    <3>2. Cum(size)[n + 1] = Cum(size)[n] * size[n]
      BY <1>7, <3>1
    <3> QED
      BY <2>2, <3>1, <3>2
  <2> HIDE DEF T
  <2> QED
    BY <1>0, <2>1, <2>2, InductionUpTo
<1>9. Cum(size) \in [Dims -> Int]
  <2> \A n \in Dims : Cum(size)[n] \in Int
    BY <1>0, <1>8
  <2> QED
    BY <1>6
<1> QED
  BY <1>7, <1>9

\* The strides of a box that is not empty.
LEMMA CumPositive ==
    ASSUME NEW size \in [Dims -> Nat \ {0}]
    PROVE  Cum(size) \in [Dims -> Nat \ {0}] /\ Volume(size) \in Nat \ {0}
<1>0. DataDims - 1 \in Nat /\ Dims = 0 .. DataDims - 1
  BY BlockGeometryAssumption DEF Dims
<1>1. /\ Cum(size) \in [Dims -> Int]
      /\ \A ii \in Dims : Cum(size)[ii] = IF ii = 0 THEN 1 ELSE Cum(size)[ii - 1] * size[ii - 1]
  <2>1. size \in [Dims -> Int]
    OBVIOUS
  <2> QED
    BY <2>1, CumDef
<1> DEFINE T == {n \in Nat : Cum(size)[n] \in Nat \ {0}}
<1>2. \A n \in 0 .. DataDims - 1 : n \in T
  <2>1. 0 \in T
    BY <1>0, <1>1
  <2>2. ASSUME NEW n \in Nat, n < DataDims - 1, n \in T
        PROVE  n + 1 \in T
    <3>1. n \in Dims /\ n + 1 \in Dims /\ (n + 1) - 1 = n
      BY <1>0, <2>2
    <3>2. Cum(size)[n + 1] = Cum(size)[n] * size[n]
      BY <1>1, <3>1
    <3> QED
      BY <2>2, <3>1, <3>2, Positive
  <2> HIDE DEF T
  <2> QED
    BY <1>0, <2>1, <2>2, InductionUpTo
<1>3. Cum(size) \in [Dims -> Nat \ {0}]
  BY <1>0, <1>1, <1>2
<1>4. Volume(size) \in Nat \ {0}
  <2>1. DataDims - 1 \in Dims
    BY <1>0
  <2> QED
    BY <1>3, <2>1, Positive DEF Volume
<1> QED
  BY <1>3, <1>4

\* The sums Offset goes through.
Sum(c, cum) ==
    LET sum[ii \in Dims] == c[ii] * cum[ii] + (IF ii = 0 THEN 0 ELSE sum[ii - 1]) IN sum

\* Their equation, and Offset as the last of them.
LEMMA SumDef ==
    ASSUME NEW c \in [Dims -> Int], NEW cum \in [Dims -> Int]
    PROVE  /\ Sum(c, cum) \in [Dims -> Int]
           /\ \A ii \in Dims : Sum(c, cum)[ii] = IF ii = 0 THEN c[0] * cum[0]
                                                 ELSE Sum(c, cum)[ii - 1] + c[ii] * cum[ii]
           /\ Offset(c, cum) = Sum(c, cum)[DataDims - 1]
           /\ Offset(c, cum) \in Int
<1> DEFINE Body(s) == [ii \in Dims |-> c[ii] * cum[ii] + (IF ii = 0 THEN 0 ELSE s[ii - 1])]
           step == [a \in Int |-> [ii \in Nat |-> IF ii \in Dims THEN c[ii] * cum[ii] + a ELSE 0]]
<1>0. DataDims - 1 \in Nat /\ Dims = 0 .. DataDims - 1 /\ 0 \in Dims
  BY BlockGeometryAssumption DEF Dims
<1>a. \A ii \in Dims : c[ii] * cum[ii] \in Int
  OBVIOUS
<1>1. step \in [Int -> [Nat -> Int]]
  BY <1>a
<1>2. PICK f \in [Dims -> Int] :
        \A ii \in Dims : f[ii] = IF ii = 0 THEN c[0] * cum[0] ELSE step[f[ii - 1]][ii]
  <2> HIDE DEF step
  <2>1. PICK top \in Nat : top = DataDims - 1
    BY <1>0
  <2>2. PICK base \in Int : base = c[0] * cum[0]
    BY <1>0, <1>a
  <2>3. PICK f \in [0 .. top -> Int] : Recurs(f, top, base, step)
    BY <1>1, Recursion
  <2>4. f \in [Dims -> Int]
    BY <1>0, <2>1
  <2>5. \A ii \in Dims : f[ii] = IF ii = 0 THEN c[0] * cum[0] ELSE step[f[ii - 1]][ii]
    BY <1>0, <2>1, <2>2, <2>3 DEF Recurs
  <2> QED
    BY <2>4, <2>5
<1>3. f = Body(f)
  <2>1. ASSUME NEW ii \in Dims
        PROVE  f[ii] = Body(f)[ii]
    <3>1. CASE ii = 0
      <4>1. f[0] = c[0] * cum[0] /\ Body(f)[0] = c[0] * cum[0] + 0
        BY <1>0, <1>2
      <4> QED
        BY <1>0, <1>a, <3>1, <4>1
    <3>2. CASE ii # 0
      <4>1. ii \in Nat /\ ii - 1 \in Dims /\ f[ii - 1] \in Int
        BY <1>0, <3>2
      <4>2. step[f[ii - 1]][ii] = c[ii] * cum[ii] + f[ii - 1]
        BY <4>1
      <4> QED
        BY <1>2, <3>2, <4>2
    <3> QED
      BY <3>1, <3>2
  <2> QED
    BY <2>1
<1>4. Sum(c, cum) = CHOOSE s : s = Body(s)
  BY DEF Sum
<1>5. Sum(c, cum) = Body(Sum(c, cum))
  <2> HIDE DEF Body
  <2> QED
    BY <1>3, <1>4
<1>6. \A ii \in Dims : Sum(c, cum)[ii] = c[ii] * cum[ii] + (IF ii = 0 THEN 0 ELSE Sum(c, cum)[ii - 1])
  BY <1>5
<1> DEFINE T == {n \in Nat : Sum(c, cum)[n] \in Int}
<1>7. \A n \in 0 .. DataDims - 1 : n \in T
  <2>1. 0 \in T
    BY <1>0, <1>6, <1>a
  <2>2. ASSUME NEW n \in Nat, n < DataDims - 1, n \in T
        PROVE  n + 1 \in T
    <3>1. n \in Dims /\ n + 1 \in Dims /\ (n + 1) - 1 = n /\ n + 1 # 0
      BY <1>0, <2>2
    <3>2. Sum(c, cum)[n + 1] = c[n + 1] * cum[n + 1] + Sum(c, cum)[n]
      BY <1>6, <3>1
    <3> QED
      BY <2>2, <3>1, <3>2, <1>a
  <2> HIDE DEF T
  <2> QED
    BY <1>0, <2>1, <2>2, InductionUpTo
<1>8. \A n \in Dims : Sum(c, cum)[n] \in Int
  BY <1>0, <1>7
<1>9. Sum(c, cum) \in [Dims -> Int]
  BY <1>5, <1>8
<1>10. ASSUME NEW ii \in Dims
       PROVE  Sum(c, cum)[ii] = IF ii = 0 THEN c[0] * cum[0]
                                ELSE Sum(c, cum)[ii - 1] + c[ii] * cum[ii]
  <2>1. CASE ii = 0
    BY <1>6, <1>a, <2>1
  <2>2. CASE ii # 0
    <3>1. ii - 1 \in Dims
      BY <1>0, <2>2
    <3> QED
      BY <1>6, <1>8, <1>a, <2>2, <3>1
  <2> QED
    BY <2>1, <2>2
<1>11. Offset(c, cum) = Sum(c, cum)[DataDims - 1]
  BY DEF Offset, Sum
<1> QED
  BY <1>0, <1>8, <1>9, <1>10, <1>11

\* Where only one coordinate changes, the offset changes by that many strides.
LEMMA OffsetChange ==
    ASSUME NEW c \in [Dims -> Int], NEW c2 \in [Dims -> Int], NEW cum \in [Dims -> Int],
           NEW d \in Dims, \A ii \in Dims : ii # d => c2[ii] = c[ii]
    PROVE  Offset(c2, cum) = Offset(c, cum) + (c2[d] - c[d]) * cum[d]
<1>0. DataDims - 1 \in Nat /\ Dims = 0 .. DataDims - 1 /\ 0 \in Dims
  BY BlockGeometryAssumption DEF Dims
<1> DEFINE s == Sum(c, cum)
           s2 == Sum(c2, cum)
           more == (c2[d] - c[d]) * cum[d]
           T == {n \in Nat : s2[n] = s[n] + (IF n < d THEN 0 ELSE more)}
<1>1. /\ s \in [Dims -> Int]
      /\ \A ii \in Dims : s[ii] = IF ii = 0 THEN c[0] * cum[0] ELSE s[ii - 1] + c[ii] * cum[ii]
      /\ Offset(c, cum) = s[DataDims - 1]
  BY SumDef
<1>2. /\ s2 \in [Dims -> Int]
      /\ \A ii \in Dims : s2[ii] = IF ii = 0 THEN c2[0] * cum[0] ELSE s2[ii - 1] + c2[ii] * cum[ii]
      /\ Offset(c2, cum) = s2[DataDims - 1]
  BY SumDef
<1>3. more \in Int /\ c2[d] * cum[d] = c[d] * cum[d] + more
  OBVIOUS
<1>4. \A ii \in Dims : c[ii] * cum[ii] \in Int
  OBVIOUS
<1> HIDE DEF s, s2, more
<1>5. \A n \in 0 .. DataDims - 1 : n \in T
  <2>1. 0 \in T
    <3>1. CASE d = 0
      BY <1>0, <1>1, <1>2, <1>3, <3>1
    <3>2. CASE d # 0
      <4>1. 0 < d /\ c2[0] = c[0]
        BY <1>0, <3>2
      <4>2. s2[0] = c[0] * cum[0] /\ s[0] = c[0] * cum[0]
        BY <1>0, <1>1, <1>2, <4>1
      <4> QED
        BY <1>0, <1>4, <4>1, <4>2
    <3> QED
      BY <3>1, <3>2
  <2>2. ASSUME NEW n \in Nat, n < DataDims - 1, n \in T
        PROVE  n + 1 \in T
    <3>1. /\ n \in Dims /\ n + 1 \in Dims /\ (n + 1) - 1 = n /\ n + 1 # 0
          /\ s[n] \in Int /\ s2[n] \in Int /\ d \in Int
      BY <1>0, <1>1, <1>2, <2>2
    <3>2. s2[n] = s[n] + (IF n < d THEN 0 ELSE more)
      BY <2>2
    <3>3. s[n + 1] = s[n] + c[n + 1] * cum[n + 1] /\ s2[n + 1] = s2[n] + c2[n + 1] * cum[n + 1]
      BY <1>1, <1>2, <3>1
    <3>4. CASE d = n + 1
      BY <1>3, <1>4, <3>1, <3>2, <3>3, <3>4
    <3>5. CASE d # n + 1
      <4>1. c2[n + 1] = c[n + 1] /\ (n < d <=> n + 1 < d) /\ c[n + 1] * cum[n + 1] \in Int
        BY <1>4, <3>1, <3>5
      <4>2. s2[n + 1] = s[n + 1] + (IF n + 1 < d THEN 0 ELSE more)
        BY <1>3, <3>1, <3>2, <3>3, <4>1
      <4> QED
        BY <4>2
    <3> QED
      BY <3>4, <3>5
  <2> HIDE DEF T
  <2> QED
    BY <1>0, <2>1, <2>2, InductionUpTo
<1>6. s2[DataDims - 1] = s[DataDims - 1] + more
  <2>1. DataDims - 1 \in T /\ ~ (DataDims - 1 < d)
    BY <1>0, <1>5
  <2> QED
    BY <2>1
<1> QED
  BY <1>1, <1>2, <1>6 DEF more

\* The pixels of a box have offsets in it.
LEMMA OffsetInside ==
    ASSUME NEW size \in [Dims -> Nat \ {0}], NEW p \in [Dims -> Nat],
           \A ii \in Dims : p[ii] < size[ii]
    PROVE  /\ Offset(p, Cum(size)) \in Nat
           /\ Offset(p, Cum(size)) < Volume(size)
           /\ \A ii \in Dims : /\ Sum(p, Cum(size))[ii] \in Nat
                               /\ Sum(p, Cum(size))[ii] < Cum(size)[ii] * size[ii]
<1>0. DataDims - 1 \in Nat /\ Dims = 0 .. DataDims - 1 /\ 0 \in Dims /\ DataDims - 1 \in Dims
  BY BlockGeometryAssumption DEF Dims
<1> DEFINE cum == Cum(size)
           s == Sum(p, cum)
           T == {n \in Nat : s[n] \in Nat /\ s[n] < cum[n] * size[n]}
<1>1. p \in [Dims -> Int] /\ size \in [Dims -> Int]
  OBVIOUS
<1>2. /\ cum \in [Dims -> Nat \ {0}] /\ cum \in [Dims -> Int]
      /\ \A ii \in Dims : cum[ii] = IF ii = 0 THEN 1 ELSE cum[ii - 1] * size[ii - 1]
  BY <1>1, CumDef, CumPositive
<1>3. /\ s \in [Dims -> Int]
      /\ \A ii \in Dims : s[ii] = IF ii = 0 THEN p[0] * cum[0] ELSE s[ii - 1] + p[ii] * cum[ii]
      /\ Offset(p, cum) = s[DataDims - 1]
  BY <1>1, <1>2, SumDef
<1> HIDE DEF cum, s
<1>4. \A n \in 0 .. DataDims - 1 : n \in T
  <2>1. 0 \in T
    <3>1. cum[0] = 1 /\ s[0] = p[0] * 1
      BY <1>0, <1>2, <1>3
    <3> QED
      BY <1>0, <3>1
  <2>2. ASSUME NEW n \in Nat, n < DataDims - 1, n \in T
        PROVE  n + 1 \in T
    <3>1. /\ n \in Dims /\ n + 1 \in Dims /\ (n + 1) - 1 = n /\ n + 1 # 0
      BY <1>0, <2>2
    <3>2. /\ s[n + 1] = s[n] + p[n + 1] * cum[n + 1]
          /\ cum[n + 1] = cum[n] * size[n]
      BY <1>2, <1>3, <3>1
    <3>3. s[n] \in Nat /\ s[n] < cum[n + 1]
      BY <2>2, <3>2
    <3>4. PICK a \in Nat, b \in Nat, u \in Nat, w \in Nat :
             a = p[n + 1] /\ b = size[n + 1] /\ u = cum[n + 1] /\ w = s[n]
      BY <1>2, <3>1, <3>3
    <3>5. a < b /\ w < u
      BY <3>1, <3>3, <3>4
    <3>6. w + a * u \in Nat /\ w + a * u < u * b
      <4>1. (a + 1) * u <= b * u
        BY <3>5, Monotone
      <4>2. (a + 1) * u = a * u + u /\ b * u = u * b /\ a * u \in Nat /\ u * b \in Nat
        OBVIOUS
      <4> QED
        BY <3>5, <4>1, <4>2
    <3> QED
      BY <3>2, <3>4, <3>6
  <2> HIDE DEF T
  <2> QED
    BY <1>0, <2>1, <2>2, InductionUpTo
<1>5. \A ii \in Dims : s[ii] \in Nat /\ s[ii] < cum[ii] * size[ii]
  BY <1>0, <1>4
<1> QED
  BY <1>0, <1>3, <1>5 DEF cum, s, Volume

\* To divide by one number and then by another is to divide by their product.
LEMMA DivideTwice ==
    ASSUME NEW k \in Nat, NEW a \in Nat \ {0}, NEW b \in Nat \ {0}
    PROVE  /\ (k \div a) \div b = k \div (a * b)
           /\ k % (a * b) = (k % a) + ((k \div a) % b) * a
<1> DEFINE q == k \div a
           r == k % a
<1>1. q \in Nat /\ r \in Nat /\ r < a /\ k = a * q + r
  BY Division
<1> DEFINE q2 == q \div b
           r2 == q % b
<1> HIDE DEF q, r
<1>2. q2 \in Nat /\ r2 \in Nat /\ r2 < b /\ q = b * q2 + r2
  BY <1>1, Division
<1> DEFINE ab == a * b
<1>3. ab \in Nat \ {0}
  BY Positive
<1> DEFINE q3 == k \div ab
           r3 == k % ab
<1> HIDE DEF ab
<1>4. q3 \in Nat /\ r3 \in Nat /\ r3 < ab /\ k = ab * q3 + r3
  BY <1>3, Division
<1> HIDE DEF q2, r2, q3, r3
<1>5. PICK m \in Nat : m = r2 * a
  BY <1>2
<1>6. m + a <= ab
  <2>1. (r2 + 1) * a <= b * a
    BY <1>2, Monotone
  <2>2. (r2 + 1) * a = r2 * a + a /\ b * a = ab
    BY <1>2 DEF ab
  <2> QED
    BY <1>5, <2>1, <2>2
<1>7. k = ab * q2 + (r + m)
  <2>1. a * q = a * (b * q2) + a * r2
    BY <1>2
  <2>2. a * (b * q2) = ab * q2 /\ a * r2 = m
    BY <1>2, <1>5 DEF ab
  <2>3. ab * q2 \in Nat
    BY <1>2, <1>3
  <2> QED
    BY <1>1, <1>5, <2>1, <2>2, <2>3
<1>8. r + m \in Nat /\ r + m < ab
  BY <1>1, <1>3, <1>5, <1>6
<1>9. q2 = q3 /\ r + m = r3
  <2>1. ab * q2 + (r + m) = ab * q3 + r3
    BY <1>4, <1>7
  <2>2. PICK rm \in Nat : rm = r + m
    BY <1>8
  <2> QED
    BY <1>2, <1>3, <1>4, <1>8, <2>1, <2>2, OneQuotient
<1> QED
  BY <1>5, <1>9 DEF q, r, q2, r2, q3, r3, ab

\* Two pixels of a box do not share a place.
LEMMA OffsetInjective ==
    ASSUME NEW size \in [Dims -> Nat \ {0}],
           NEW p \in [Dims -> Nat], \A ii \in Dims : p[ii] < size[ii],
           NEW q \in [Dims -> Nat], \A ii \in Dims : q[ii] < size[ii],
           Offset(p, Cum(size)) = Offset(q, Cum(size))
    PROVE  p = q
<1>0. DataDims - 1 \in Nat /\ Dims = 0 .. DataDims - 1 /\ 0 \in Dims /\ DataDims - 1 \in Dims
  BY BlockGeometryAssumption DEF Dims
<1> DEFINE cum == Cum(size)
           s == Sum(p, cum)
           t == Sum(q, cum)
           T == {n \in Nat : s[DataDims - 1 - n] = t[DataDims - 1 - n]}
<1>1. p \in [Dims -> Int] /\ q \in [Dims -> Int] /\ size \in [Dims -> Int]
  OBVIOUS
<1>2. /\ cum \in [Dims -> Nat \ {0}] /\ cum \in [Dims -> Int]
      /\ \A ii \in Dims : cum[ii] = IF ii = 0 THEN 1 ELSE cum[ii - 1] * size[ii - 1]
  BY <1>1, CumDef, CumPositive
<1>3. /\ \A ii \in Dims : s[ii] = IF ii = 0 THEN p[0] * cum[0] ELSE s[ii - 1] + p[ii] * cum[ii]
      /\ Offset(p, cum) = s[DataDims - 1]
      /\ \A ii \in Dims : s[ii] \in Nat /\ s[ii] < cum[ii] * size[ii]
  BY <1>1, <1>2, SumDef, OffsetInside
<1>4. /\ \A ii \in Dims : t[ii] = IF ii = 0 THEN q[0] * cum[0] ELSE t[ii - 1] + q[ii] * cum[ii]
      /\ Offset(q, cum) = t[DataDims - 1]
      /\ \A ii \in Dims : t[ii] \in Nat /\ t[ii] < cum[ii] * size[ii]
  BY <1>1, <1>2, SumDef, OffsetInside
<1>5. s[DataDims - 1] = t[DataDims - 1]
  BY <1>3, <1>4
<1> HIDE DEF cum, s, t
<1>6. ASSUME NEW ii \in Dims, ii # 0, s[ii] = t[ii]
      PROVE  p[ii] = q[ii] /\ s[ii - 1] = t[ii - 1]
  <2>1. /\ ii - 1 \in Dims
        /\ s[ii] = s[ii - 1] + p[ii] * cum[ii]
        /\ t[ii] = t[ii - 1] + q[ii] * cum[ii]
        /\ cum[ii] = cum[ii - 1] * size[ii - 1]
    BY <1>0, <1>2, <1>3, <1>4, <1>6
  <2>2. /\ s[ii - 1] \in Nat /\ s[ii - 1] < cum[ii]
        /\ t[ii - 1] \in Nat /\ t[ii - 1] < cum[ii]
    BY <1>3, <1>4, <2>1
  <2>3. PICK a \in Nat \ {0} : a = cum[ii]
    BY <1>2
  <2>4. PICK x \in Nat, y \in Nat, u \in Nat, w \in Nat :
           x = p[ii] /\ y = q[ii] /\ u = s[ii - 1] /\ w = t[ii - 1]
    BY <2>2
  <2>5. u + x * a = w + y * a
    BY <1>6, <2>1, <2>3, <2>4
  <2>6. a * x + u = a * y + w
    BY <2>5
  <2>7. u < a /\ w < a
    BY <2>2, <2>3, <2>4
  <2>8. x = y /\ u = w
    BY <2>6, <2>7, OneQuotient
  <2> QED
    BY <2>4, <2>8
<1>7. \A n \in 0 .. DataDims - 1 : n \in T
  <2>1. 0 \in T
    BY <1>0, <1>5
  <2>2. ASSUME NEW n \in Nat, n < DataDims - 1, n \in T
        PROVE  n + 1 \in T
    <3>1. PICK ii \in Dims : ii = DataDims - 1 - n /\ ii # 0 /\ ii - 1 = DataDims - 1 - (n + 1)
      BY <1>0, <2>2
    <3>2. s[ii] = t[ii]
      BY <2>2, <3>1
    <3> QED
      BY <1>6, <3>1, <3>2
  <2> HIDE DEF T
  <2> QED
    BY <1>0, <2>1, <2>2, InductionUpTo
<1>8. ASSUME NEW ii \in Dims
      PROVE  s[ii] = t[ii]
  <2>1. DataDims - 1 - ii \in T /\ DataDims - 1 - (DataDims - 1 - ii) = ii
    BY <1>0, <1>7
  <2> QED
    BY <2>1
<1>9. p[0] = q[0]
  <2>1. cum[0] = 1 /\ s[0] = p[0] * 1 /\ t[0] = q[0] * 1
    BY <1>0, <1>2, <1>3, <1>4
  <2>2. p[0] \in Nat /\ q[0] \in Nat /\ s[0] = t[0]
    BY <1>0, <1>8
  <2> QED
    BY <2>1, <2>2
<1>10. \A ii \in Dims : p[ii] = q[ii]
  BY <1>6, <1>8, <1>9
<1> QED
  BY <1>10

\* The coordinates at place k, counted from the first pixel of a box.
Digits(k, size) == [ii \in Dims |-> (k \div Cum(size)[ii]) % size[ii]]

\* They are the coordinates of a pixel of the box.
LEMMA DigitsAreInside ==
    ASSUME NEW size \in [Dims -> Nat \ {0}], NEW k \in Nat
    PROVE  /\ Digits(k, size) \in [Dims -> Nat]
           /\ \A ii \in Dims : Digits(k, size)[ii] < size[ii]
<1>1. ASSUME NEW ii \in Dims
      PROVE  Digits(k, size)[ii] \in Nat /\ Digits(k, size)[ii] < size[ii]
  <2>1. PICK a \in Nat \ {0}, b \in Nat \ {0} : a = Cum(size)[ii] /\ b = size[ii]
    BY CumPositive
  <2>2. PICK q \in Nat : q = k \div a
    BY Division
  <2>3. q % b \in Nat /\ q % b < b
    BY Division
  <2>4. Digits(k, size)[ii] = q % b
    BY <2>1, <2>2 DEF Digits
  <2> QED
    BY <2>1, <2>3, <2>4
<1>2. Digits(k, size) = [ii \in Dims |-> Digits(k, size)[ii]]
  BY DEF Digits
<1> QED
  BY <1>1, <1>2

\* They have that place.
LEMMA DigitsHavePlace ==
    ASSUME NEW size \in [Dims -> Nat \ {0}], NEW k \in Nat, k < Volume(size)
    PROVE  Offset(Digits(k, size), Cum(size)) = k
<1>0. DataDims - 1 \in Nat /\ Dims = 0 .. DataDims - 1 /\ 0 \in Dims /\ DataDims - 1 \in Dims
  BY BlockGeometryAssumption DEF Dims
<1> DEFINE cum == Cum(size)
           p == Digits(k, size)
           s == Sum(p, cum)
           T == {n \in Nat : s[n] = k % (cum[n] * size[n])}
<1>1. /\ p \in [Dims -> Nat] /\ p \in [Dims -> Int] /\ size \in [Dims -> Int]
      /\ \A ii \in Dims : p[ii] = (k \div cum[ii]) % size[ii]
  BY DigitsAreInside DEF Digits
<1>2. /\ cum \in [Dims -> Nat \ {0}] /\ cum \in [Dims -> Int]
      /\ \A ii \in Dims : cum[ii] = IF ii = 0 THEN 1 ELSE cum[ii - 1] * size[ii - 1]
      /\ Volume(size) = cum[DataDims - 1] * size[DataDims - 1]
      /\ Volume(size) \in Nat \ {0}
  BY <1>1, CumDef, CumPositive DEF Volume
<1>3. /\ \A ii \in Dims : s[ii] = IF ii = 0 THEN p[0] * cum[0] ELSE s[ii - 1] + p[ii] * cum[ii]
      /\ Offset(p, cum) = s[DataDims - 1]
  BY <1>1, <1>2, SumDef
<1> HIDE DEF cum, s, p
<1>4. \A n \in 0 .. DataDims - 1 : n \in T
  <2>1. 0 \in T
    <3>1. PICK b \in Nat \ {0} : b = size[0]
      BY <1>0
    <3>2. cum[0] = 1 /\ s[0] = p[0] * 1 /\ p[0] = (k \div 1) % b
      BY <1>0, <1>1, <1>2, <1>3, <3>1
    <3>3. k \div 1 = k /\ 1 * b = b
      OBVIOUS
    <3>4. s[0] = k % b
      BY <1>0, <1>1, <3>2, <3>3
    <3> QED
      BY <3>1, <3>2, <3>3, <3>4
  <2>2. ASSUME NEW n \in Nat, n < DataDims - 1, n \in T
        PROVE  n + 1 \in T
    <3>1. n \in Dims /\ n + 1 \in Dims /\ (n + 1) - 1 = n /\ n + 1 # 0
      BY <1>0, <2>2
    <3>2. PICK a \in Nat \ {0}, b \in Nat \ {0} : a = cum[n + 1] /\ b = size[n + 1]
      BY <1>2, <3>1
    <3>3. s[n] = k % a
      BY <1>2, <2>2, <3>1, <3>2
    <3>4. s[n + 1] = s[n] + p[n + 1] * a /\ p[n + 1] = (k \div a) % b
      BY <1>1, <1>3, <3>1, <3>2
    <3>5. k % (a * b) = (k % a) + ((k \div a) % b) * a
      BY DivideTwice
    <3>6. s[n + 1] = k % (a * b)
      BY <3>3, <3>4, <3>5
    <3> QED
      BY <3>2, <3>6
  <2> HIDE DEF T
  <2> QED
    BY <1>0, <2>1, <2>2, InductionUpTo
<1>5. s[DataDims - 1] = k % Volume(size)
  <2>1. DataDims - 1 \in T
    BY <1>0, <1>4
  <2> QED
    BY <1>2, <2>1
<1>6. k % Volume(size) = k
  <2>1. PICK v \in Nat \ {0} : v = Volume(size)
    BY <1>2
  <2>2. k < v /\ k % v = k
    BY <2>1
  <2> QED
    BY <2>1, <2>2
<1> QED
  BY <1>3, <1>5, <1>6 DEF cum, p

\* And a pixel of the box has the coordinates at its place.
LEMMA PlaceHasDigits ==
    ASSUME NEW size \in [Dims -> Nat \ {0}], NEW p \in [Dims -> Nat],
           \A ii \in Dims : p[ii] < size[ii]
    PROVE  Digits(Offset(p, Cum(size)), size) = p
<1>1. PICK k \in Nat : k = Offset(p, Cum(size)) /\ k < Volume(size)
  BY OffsetInside
<1>2. PICK q \in [Dims -> Nat] : q = Digits(k, size) /\ (\A ii \in Dims : q[ii] < size[ii])
  BY DigitsAreInside
<1>3. Offset(q, Cum(size)) = Offset(p, Cum(size))
  BY <1>1, <1>2, DigitsHavePlace
<1>4. q = p
  BY <1>2, <1>3, OffsetInjective
<1> QED
  BY <1>1, <1>2, <1>4

\* In each dimension at least one block, and in the image.
LEMMA BlockGrid ==
    ASSUME NEW sizes \in [Dims -> Nat \ {0}], NEW nominal \in [Dims -> Nat \ {0}]
    PROVE  /\ dimsBlock(sizes, nominal) \in [Dims -> Nat \ {0}]
           /\ \A ii \in Dims : dimsBlock(sizes, nominal)[ii] = (sizes[ii] + nominal[ii] - 1) \div nominal[ii]
           /\ calculateNumBlocks(sizes, nominal) \in Nat \ {0}
<1>1. ASSUME NEW ii \in Dims
      PROVE  (sizes[ii] + nominal[ii] - 1) \div nominal[ii] \in Nat \ {0}
  <2>1. PICK x \in Nat \ {0}, n \in Nat \ {0} : x = sizes[ii] /\ n = nominal[ii]
    OBVIOUS
  <2> QED
    BY <2>1, BlocksDivide
<1>2. dimsBlock(sizes, nominal) \in [Dims -> Nat \ {0}]
  BY <1>1 DEF dimsBlock
<1> QED
  BY <1>2, CumPositive DEF dimsBlock, calculateNumBlocks

\* The number of a block, counted down dimension by dimension, is what is left of
\* it after a division by the stride.
LEMMA CoordBlockDigits ==
    ASSUME NEW sizes \in [Dims -> Nat \ {0}], NEW nominal \in [Dims -> Nat \ {0}], NEW b \in Nat
    PROVE  coordBlock(b, sizes, nominal)
             = [ii \in Dims |-> Digits(b, dimsBlock(sizes, nominal))[ii] * nominal[ii]]
<1>0. DataDims - 1 \in Nat /\ Dims = 0 .. DataDims - 1 /\ 0 \in Dims
  BY BlockGeometryAssumption DEF Dims
<1> DEFINE dims == dimsBlock(sizes, nominal)
           Body(f) == [ii \in Dims |-> IF ii = 0 THEN b ELSE f[ii - 1] \div dims[ii - 1]]
           aux == CHOOSE f : f = Body(f)
           left == [ii \in Dims |-> b \div Cum(dims)[ii]]
<1>1. coordBlock(b, sizes, nominal) = [ii \in Dims |-> (aux[ii] % dims[ii]) * nominal[ii]]
  BY DEF coordBlock
<1>2. dims \in [Dims -> Nat \ {0}] /\ dims \in [Dims -> Int]
  BY BlockGrid
<1> HIDE DEF dims
<1>3. /\ Cum(dims) \in [Dims -> Nat \ {0}]
      /\ \A ii \in Dims : Cum(dims)[ii] = IF ii = 0 THEN 1 ELSE Cum(dims)[ii - 1] * dims[ii - 1]
  BY <1>2, CumDef, CumPositive
<1>4. b \div Cum(dims)[0] = b
  BY <1>0, <1>3
<1>5. ASSUME NEW ii \in Dims, ii # 0
      PROVE  /\ ii - 1 \in Dims
             /\ b \div Cum(dims)[ii] = (b \div Cum(dims)[ii - 1]) \div dims[ii - 1]
  <2>1. ii - 1 \in Dims
    BY <1>0, <1>5
  <2>2. PICK a \in Nat \ {0}, c \in Nat \ {0} : a = Cum(dims)[ii - 1] /\ c = dims[ii - 1]
    BY <1>2, <1>3, <2>1
  <2>3. (b \div a) \div c = b \div (a * c)
    BY DivideTwice
  <2>4. Cum(dims)[ii] = a * c
    BY <1>3, <1>5, <2>2
  <2> QED
    BY <2>1, <2>2, <2>3, <2>4
<1>6. left = Body(left)
  <2>1. ASSUME NEW ii \in Dims
        PROVE  left[ii] = Body(left)[ii]
    BY <1>0, <1>4, <1>5
  <2> QED
    BY <2>1
<1>7. aux = Body(aux)
  <2> HIDE DEF Body
  <2> QED
    BY <1>6
<1> HIDE DEF aux
<1>8. \A ii \in Dims : aux[ii] = IF ii = 0 THEN b ELSE aux[ii - 1] \div dims[ii - 1]
  BY <1>7
<1> DEFINE T == {n \in Nat : aux[n] = b \div Cum(dims)[n]}
<1>9. \A n \in 0 .. DataDims - 1 : n \in T
  <2>1. 0 \in T
    BY <1>0, <1>4, <1>8
  <2>2. ASSUME NEW n \in Nat, n < DataDims - 1, n \in T
        PROVE  n + 1 \in T
    <3>1. n + 1 \in Dims /\ (n + 1) - 1 = n /\ n + 1 # 0
      BY <1>0, <2>2
    <3> QED
      BY <1>5, <1>8, <2>2, <3>1
  <2> HIDE DEF T
  <2> QED
    BY <1>0, <2>1, <2>2, InductionUpTo
<1>10. ASSUME NEW ii \in Dims
       PROVE  aux[ii] % dims[ii] = Digits(b, dims)[ii]
  <2>1. ii \in T
    BY <1>0, <1>9
  <2> QED
    BY <2>1 DEF Digits
<1> QED
  BY <1>1, <1>10 DEF dims

\* A block of n voxels from first on, of an image of size sizes: it lies in the image, and
\* has the size of a block, or what is left of the image.
Inside(first, n, sizes, nominal) ==
    /\ first \in [Dims -> Nat]
    /\ n \in [Dims -> Nat \ {0}]
    /\ \A ii \in Dims : /\ first[ii] < sizes[ii]
                        /\ first[ii] + n[ii] <= sizes[ii]
                        /\ n[ii] <= nominal[ii]
                        /\ n[ii] = BorderSize(first[ii], nominal[ii], sizes[ii])

\* Every block lies in the image, and is no larger than the block size.
LEMMA BlockInside ==
    ASSUME NEW sizes \in [Dims -> Nat \ {0}], NEW nominal \in [Dims -> Nat \ {0}], NEW b \in Nat
    PROVE  LET first == coordBlock(b, sizes, nominal)
           IN  Inside(first, blockSizeAux(first, sizes, nominal), sizes, nominal)
<1> DEFINE first == coordBlock(b, sizes, nominal)
           n     == blockSizeAux(first, sizes, nominal)
           dims  == dimsBlock(sizes, nominal)
<1>1. ASSUME NEW ii \in Dims
      PROVE  first[ii] \in Nat /\ first[ii] < sizes[ii]
  <2>1. PICK x \in Nat \ {0}, m \in Nat \ {0} : x = sizes[ii] /\ m = nominal[ii]
    OBVIOUS
  <2>2. PICK k \in Nat : k = Digits(b, dims)[ii] /\ k < (x + m - 1) \div m
    <3>1. dims \in [Dims -> Nat \ {0}] /\ dims[ii] = (x + m - 1) \div m
      BY <2>1, BlockGrid
    <3> HIDE DEF dims
    <3>2. Digits(b, dims)[ii] \in Nat /\ Digits(b, dims)[ii] < dims[ii]
      BY <3>1, DigitsAreInside
    <3> QED
      BY <3>1, <3>2
  <2>3. first[ii] = k * m
    BY <2>1, <2>2, CoordBlockDigits
  <2>4. k * m \in Nat /\ k * m < x
    BY <2>2, BlocksDivide
  <2> QED
    BY <2>1, <2>3, <2>4
<1>2. first = [ii \in Dims |-> first[ii]]
  BY CoordBlockDigits
<1>3. first \in [Dims -> Nat]
  BY <1>1, <1>2
<1>4. n = [ii \in Dims |-> IF nominal[ii] < sizes[ii] - first[ii]
                           THEN nominal[ii] ELSE sizes[ii] - first[ii]]
  BY DEF blockSizeAux
<1> HIDE DEF first, n
<1>5. ASSUME NEW ii \in Dims
      PROVE  /\ n[ii] \in Nat \ {0} /\ n[ii] <= nominal[ii] /\ first[ii] + n[ii] <= sizes[ii]
             /\ n[ii] = BorderSize(first[ii], nominal[ii], sizes[ii])
  BY <1>1, <1>4 DEF BorderSize
<1>6. n \in [Dims -> Nat \ {0}]
  BY <1>4, <1>5
<1>7. Inside(first, n, sizes, nominal)
  BY <1>1, <1>3, <1>5, <1>6 DEF Inside
<1> QED
  BY <1>7 DEF first, n

\* A voxel of the image lies in the block its coordinates divide to: the block with
\* this number begins where it should, and holds the voxel (klb_imageIO.cpp:107-157).
THEOREM BlockOfVoxel ==
    ASSUME NEW sizes \in [Dims -> Nat \ {0}], NEW nominal \in [Dims -> Nat \ {0}],
           NEW p \in [Dims -> Nat], \A ii \in Dims : p[ii] < sizes[ii]
    PROVE  LET b     == BlockOf(p, sizes, nominal)
               first == FirstVoxel(p, nominal)
               n     == blockSizeAux(first, sizes, nominal)
           IN  /\ b \in 0 .. calculateNumBlocks(sizes, nominal) - 1
               /\ coordBlock(b, sizes, nominal) = first
               /\ \A ii \in Dims : first[ii] <= p[ii] /\ p[ii] < first[ii] + n[ii]
<1> DEFINE dims  == dimsBlock(sizes, nominal)
           q     == [ii \in Dims |-> p[ii] \div nominal[ii]]
           b     == Offset(q, Cum(dims))
           first == FirstVoxel(p, nominal)
           n     == blockSizeAux(first, sizes, nominal)
<1>1. /\ dims \in [Dims -> Nat \ {0}]
      /\ \A ii \in Dims : dims[ii] = (sizes[ii] + nominal[ii] - 1) \div nominal[ii]
      /\ calculateNumBlocks(sizes, nominal) = Volume(dims)
      /\ Volume(dims) \in Nat \ {0}
  BY BlockGrid DEF calculateNumBlocks
<1>2. b = BlockOf(p, sizes, nominal)
  BY DEF BlockOf
<1>3. ASSUME NEW ii \in Dims
      PROVE  /\ q[ii] \in Nat /\ q[ii] < dims[ii]
             /\ first[ii] = q[ii] * nominal[ii]
             /\ first[ii] <= p[ii] /\ p[ii] < first[ii] + n[ii]
  <2>1. PICK x \in Nat \ {0}, m \in Nat \ {0}, y \in Nat :
           x = sizes[ii] /\ m = nominal[ii] /\ y = p[ii] /\ y < x
    OBVIOUS
  <2>2. PICK d \in Nat, r \in Nat : d = y \div m /\ r < m /\ y = m * d + r
    BY Division
  <2>3. d < (x + m - 1) \div m
    BY <2>1, <2>2, BlocksDivide
  <2>4. PICK f \in Nat : f = d * m /\ f = m * d
    OBVIOUS
  <2>5. q[ii] = d /\ first[ii] = f
    BY <2>1, <2>2, <2>4 DEF FirstVoxel
  <2>6. n[ii] = IF m < x - f THEN m ELSE x - f
    BY <2>1, <2>5 DEF blockSizeAux
  <2>7. f <= y /\ y < f + (IF m < x - f THEN m ELSE x - f)
    BY <2>1, <2>2, <2>4
  <2> QED
    BY <1>1, <2>1, <2>3, <2>4, <2>5, <2>6, <2>7
<1>4. first = [ii \in Dims |-> q[ii] * nominal[ii]]
  BY DEF FirstVoxel
<1> HIDE DEF dims, first, n
<1>5. q \in [Dims -> Nat]
  BY <1>3
<1> HIDE DEF q
<1>6. b \in Nat /\ b < Volume(dims) /\ Digits(b, dims) = q
  BY <1>1, <1>3, <1>5, OffsetInside, PlaceHasDigits
<1> HIDE DEF b
<1>7. coordBlock(b, sizes, nominal) = first
  BY <1>4, <1>6, CoordBlockDigits DEF dims
<1> QED
  BY <1>1, <1>2, <1>3, <1>6, <1>7 DEF first, n

\* And in no other: blocks share no voxel, so no voxel is stored twice.
THEOREM BlockIsUnique ==
    ASSUME NEW sizes \in [Dims -> Nat \ {0}], NEW nominal \in [Dims -> Nat \ {0}],
           NEW b \in 0 .. calculateNumBlocks(sizes, nominal) - 1, NEW p \in [Dims -> Nat],
           LET first == coordBlock(b, sizes, nominal)
               n     == blockSizeAux(first, sizes, nominal)
           IN  \A ii \in Dims : first[ii] <= p[ii] /\ p[ii] < first[ii] + n[ii]
    PROVE  BlockOf(p, sizes, nominal) = b
<1> DEFINE first == coordBlock(b, sizes, nominal)
           n     == blockSizeAux(first, sizes, nominal)
           dims  == dimsBlock(sizes, nominal)
<1>1. /\ dims \in [Dims -> Nat \ {0}]
      /\ calculateNumBlocks(sizes, nominal) = Volume(dims)
      /\ Volume(dims) \in Nat \ {0} /\ b \in Nat /\ b < Volume(dims)
  BY BlockGrid DEF calculateNumBlocks
<1>2. /\ first \in [Dims -> Nat] /\ n \in [Dims -> Nat \ {0}]
      /\ \A ii \in Dims : n[ii] <= nominal[ii]
      /\ \A ii \in Dims : first[ii] <= p[ii] /\ p[ii] < first[ii] + n[ii]
      /\ \A ii \in Dims : first[ii] = Digits(b, dims)[ii] * nominal[ii]
      /\ Digits(b, dims) \in [Dims -> Nat]
  <2>1. /\ first \in [Dims -> Nat] /\ n \in [Dims -> Nat \ {0}]
        /\ \A ii \in Dims : n[ii] <= nominal[ii]
    <3>1. Inside(first, n, sizes, nominal)
      BY <1>1, BlockInside
    <3> QED
      BY <3>1 DEF Inside
  <2>2. \A ii \in Dims : first[ii] <= p[ii] /\ p[ii] < first[ii] + n[ii]
    OBVIOUS
  <2>3. \A ii \in Dims : first[ii] = Digits(b, dims)[ii] * nominal[ii]
    <3>1. first = [ii \in Dims |-> Digits(b, dims)[ii] * nominal[ii]]
      BY <1>1, CoordBlockDigits
    <3> QED
      BY <3>1
  <2>4. Digits(b, dims) \in [Dims -> Nat]
    <3> HIDE DEF dims
    <3> QED
      BY <1>1, DigitsAreInside
  <2> QED
    BY <2>1, <2>2, <2>3, <2>4
<1> HIDE DEF first, n, dims
<1>3. ASSUME NEW ii \in Dims
      PROVE  p[ii] \div nominal[ii] = Digits(b, dims)[ii]
  <2>1. PICK m \in Nat \ {0}, y \in Nat, k \in Nat, c \in Nat :
           /\ m = nominal[ii] /\ y = p[ii] /\ k = Digits(b, dims)[ii] /\ c = first[ii]
    BY <1>2
  <2>2. c = m * k /\ c <= y /\ y < c + m
    <3>1. c = k * m
      BY <1>2, <2>1
    <3>2. n[ii] \in Nat /\ n[ii] <= m /\ c <= y /\ y < c + n[ii]
      BY <1>2, <2>1
    <3> QED
      BY <3>1, <3>2
  <2>3. PICK d \in Nat, r \in Nat : d = y \div m /\ r < m /\ y = m * d + r
    BY Division
  <2>4. PICK e \in Nat : e = y - c
    BY <2>2
  <2>5. m * k + e = m * d + r /\ e < m
    <3>1. PICK md \in Nat : md = m * d
      OBVIOUS
    <3> QED
      BY <2>2, <2>3, <2>4, <3>1
  <2>6. k = d
    BY <2>3, <2>5, OneQuotient
  <2> QED
    BY <2>1, <2>3, <2>6
<1>4. [ii \in Dims |-> p[ii] \div nominal[ii]] = Digits(b, dims)
  BY <1>2, <1>3
<1>5. Offset(Digits(b, dims), Cum(dims)) = b
  BY <1>1, DigitsHavePlace
<1> QED
  BY <1>4, <1>5 DEF BlockOf, dims

-----------------------------------------------------------------------------
\* The dimensions an odometer counts, a row lying along the first.
Rows == Dims \ {0}

\* The last dimension.
Last == DataDims - 1

\* What both odometers keep: below the dimension that is carried they stand at the
\* start, there behind it, above it inside the box from start to end.
Odometer(count, aux, carry, start, end) ==
    /\ count \in [Dims -> Nat]
    /\ count[0] = start[0]
    /\ aux \in Rows
    /\ \A ii \in Rows : start[ii] <= count[ii]
    /\ \A ii \in Rows : count[ii] < end[ii] \/ (carry /\ ii = aux /\ count[ii] = end[ii])
    /\ carry => /\ start[aux] < count[aux]
                /\ \A ii \in Rows : ii < aux => count[ii] = start[ii]

\* The first voxel of an image.
Zero == [ii \in Dims |-> 0]

\* Coordinates in a box that begins at first.
Plus(first, count) == [ii \in Dims |-> first[ii] + count[ii]]

\* The dimensions, as numbers.
LEMMA Numbers ==
    /\ DataDims - 1 \in Nat /\ Dims = 0 .. DataDims - 1 /\ 0 \in Dims /\ Last \in Dims /\ Last # 0
    /\ 1 \in Rows /\ Last \in Rows /\ 1 \in Dims
    /\ \A ii \in Rows : ii \in Dims /\ ii \in Nat /\ ii > 0 /\ ii - 1 \in Dims
    /\ \A ii \in Dims : ii \in Nat /\ ii <= Last
    /\ \A ii \in Rows : ii # Last => ii + 1 \in Rows /\ ii + 1 \in Dims
BY BlockGeometryAssumption DEF Dims, Rows, Last

\* The carry that leaves the last dimension is the one that ends a block.
LEMMA LastRow ==
    Last \in Rows /\ \A ii \in Rows : ii \in Nat /\ (ii + 1 = DataDims <=> ii = Last)
<1>1. DataDims \in Nat
  BY BlockGeometryAssumption
<1>2. ASSUME NEW ii \in Rows
      PROVE  ii \in Nat /\ (ii + 1 = DataDims <=> ii = Last)
  <2>1. ii \in Nat
    BY Numbers
  <2> QED
    BY <1>1, <2>1 DEF Last
<1> QED
  BY <1>2, Numbers

\* What is added up are numbers.
LEMMA PlusType ==
    ASSUME NEW first \in [Dims -> Int], NEW count \in [Dims -> Int], NEW cum \in [Dims -> Int]
    PROVE  Plus(first, count) \in [Dims -> Int] /\ Offset(Plus(first, count), cum) \in Int
<1>1. Plus(first, count) \in [Dims -> Int]
  BY DEF Plus
<1> QED
  BY <1>1, SumDef

\* In a box that begins elsewhere, too, an offset changes with the coordinate.
LEMMA OffsetOfPlus ==
    ASSUME NEW first \in [Dims -> Int], NEW count \in [Dims -> Int], NEW count2 \in [Dims -> Int],
           NEW cum \in [Dims -> Int], NEW d \in Dims,
           \A ii \in Dims : ii # d => count2[ii] = count[ii]
    PROVE  Offset(Plus(first, count2), cum)
             = Offset(Plus(first, count), cum) + (count2[d] - count[d]) * cum[d]
<1> DEFINE c  == Plus(first, count)
           c2 == Plus(first, count2)
<1>1. c \in [Dims -> Int] /\ c2 \in [Dims -> Int]
  BY PlusType
<1>2. \A ii \in Dims : ii # d => c2[ii] = c[ii]
  BY DEF Plus
<1>3. c2[d] - c[d] = count2[d] - count[d]
  BY DEF Plus
<1> HIDE DEF c, c2
<1>4. Offset(c2, cum) = Offset(c, cum) + (c2[d] - c[d]) * cum[d]
  BY <1>1, <1>2, OffsetChange
<1> QED
  BY <1>3, <1>4 DEF c, c2

\* The steps of an odometer.
NextRow(count) == [count EXCEPT ![1] = @ + 1]
NextCarry(count, d, low) == [count EXCEPT ![d] = low, ![d + 1] = @ + 1]

\* With the next row, an offset moves by the stride of the second dimension.
LEMMA OffsetOfRow ==
    ASSUME NEW first \in [Dims -> Int], NEW count \in [Dims -> Int], NEW cum \in [Dims -> Int]
    PROVE  Offset(Plus(first, NextRow(count)), cum) = Offset(Plus(first, count), cum) + cum[1]
<1>1. PICK e \in Dims : e = 1
  BY Numbers
<1> DEFINE c2 == [count EXCEPT ![e] = @ + 1]
<1>2. count[e] \in Int /\ count[e] + 1 \in Int
  OBVIOUS
<1>3. c2 \in [Dims -> Int]
  BY <1>2
<1>4. c2[e] - count[e] = 1
  BY <1>2
<1>5. \A ii \in Dims : ii # e => c2[ii] = count[ii]
  OBVIOUS
<1> HIDE DEF c2
<1>6. Offset(Plus(first, c2), cum) = Offset(Plus(first, count), cum) + (c2[e] - count[e]) * cum[e]
  BY <1>3, <1>5, OffsetOfPlus
<1>7. (c2[e] - count[e]) * cum[e] = cum[e]
  BY <1>4
<1> QED
  BY <1>1, <1>6, <1>7 DEF c2, NextRow

\* The offset after a carry: back to the start, and a step of the next dimension.
OffsetCarried(offset, count, d, low, cum) == offset - (count[d] - low) * cum[d] + cum[d + 1]

\* It is the offset of the coordinates after the carry.
LEMMA OffsetOfCarry ==
    ASSUME NEW first \in [Dims -> Int], NEW count \in [Dims -> Int], NEW cum \in [Dims -> Int],
           NEW d \in Rows, d # Last, NEW low \in Int
    PROVE  Offset(Plus(first, NextCarry(count, d, low)), cum)
             = OffsetCarried(Offset(Plus(first, count), cum), count, d, low, cum)
<1>1. d \in Dims /\ d \in Nat /\ d + 1 \in Dims /\ d + 1 # d
  BY Numbers
<1>2. PICK c2 \in [Dims -> Int] : c2 = [count EXCEPT ![d] = low]
  BY <1>1
<1>3. PICK c3 \in [Dims -> Int] : c3 = NextCarry(count, d, low)
  <2>1. count[d + 1] + 1 \in Int
    BY <1>1
  <2> QED
    BY <1>1, <2>1 DEF NextCarry
<1>4. c2[d] - count[d] = low - count[d] /\ \A ii \in Dims : ii # d => c2[ii] = count[ii]
  BY <1>1, <1>2
<1>5. c3[d + 1] - c2[d + 1] = 1 /\ \A ii \in Dims : ii # d + 1 => c3[ii] = c2[ii]
  BY <1>1, <1>2, <1>3 DEF NextCarry
<1>6. Offset(Plus(first, c2), cum) = Offset(Plus(first, count), cum) + (low - count[d]) * cum[d]
  <2>1. Offset(Plus(first, c2), cum) = Offset(Plus(first, count), cum) + (c2[d] - count[d]) * cum[d]
    BY <1>1, <1>4, OffsetOfPlus
  <2> QED
    BY <1>4, <2>1
<1>7. Offset(Plus(first, c3), cum) = Offset(Plus(first, c2), cum) + 1 * cum[d + 1]
  <2>1. PICK e \in Dims : e = d + 1
    BY <1>1
  <2>2. \A ii \in Dims : ii # e => c3[ii] = c2[ii]
    BY <1>5, <2>1
  <2>3. Offset(Plus(first, c3), cum) = Offset(Plus(first, c2), cum) + (c3[e] - c2[e]) * cum[e]
    BY <2>2, OffsetOfPlus
  <2> QED
    BY <1>5, <2>1, <2>3
<1>8. PICK o \in Int : o = Offset(Plus(first, count), cum)
  BY PlusType
<1>9. PICK a \in Int, b \in Int, n \in Int : a = cum[d] /\ b = cum[d + 1] /\ n = count[d]
  BY <1>1
<1>10. (low - n) * a = - ((n - low) * a)
  OBVIOUS
<1> QED
  BY <1>3, <1>6, <1>7, <1>8, <1>9, <1>10 DEF OffsetCarried

\* The step of the second dimension keeps the odometer.
LEMMA OdometerRow ==
    ASSUME NEW start \in [Dims -> Nat], NEW end \in [Dims -> Nat], NEW count, NEW aux,
           Odometer(count, aux, FALSE, start, end)
    PROVE  /\ Odometer(NextRow(count), 1, TRUE, start, end)
           /\ count \in [Dims -> Nat]
<1>1. \A ii \in Rows : count[ii] < end[ii] /\ start[ii] <= count[ii] /\ ii \in Dims /\ ii # 0 /\ ~ (ii < 1)
  BY Numbers DEF Odometer
<1>2. 1 \in Rows /\ 1 \in Dims /\ count \in [Dims -> Nat] /\ count[0] = start[0] /\ 0 \in Dims
  BY Numbers DEF Odometer
<1> DEFINE c2 == [count EXCEPT ![1] = @ + 1]
<1>3. /\ c2 \in [Dims -> Nat] /\ c2[0] = start[0] /\ c2[1] = count[1] + 1
      /\ \A ii \in Rows : ii # 1 => c2[ii] = count[ii]
  BY <1>1, <1>2
<1> HIDE DEF c2
<1>4. \A ii \in Rows : /\ start[ii] <= c2[ii]
                       /\ c2[ii] < end[ii] \/ (ii = 1 /\ c2[ii] = end[ii])
  <2> TAKE ii \in Rows
  <2>1. CASE ii = 1
    BY <1>1, <1>2, <1>3, <2>1
  <2>2. CASE ii # 1
    BY <1>1, <1>3, <2>2
  <2> QED
    BY <2>1, <2>2
<1>5. start[1] < c2[1]
  BY <1>1, <1>2, <1>3
<1> QED
  BY <1>1, <1>2, <1>3, <1>4, <1>5 DEF Odometer, c2, NextRow

\* And so does a carry, where a dimension is through that is not the last.
LEMMA OdometerCarry ==
    ASSUME NEW start \in [Dims -> Nat], NEW end \in [Dims -> Nat], NEW count, NEW aux,
           \A ii \in Dims : start[ii] < end[ii],
           Odometer(count, aux, TRUE, start, end), count[aux] = end[aux], aux # Last
    PROVE  /\ Odometer(NextCarry(count, aux, start[aux]), aux + 1, TRUE, start, end)
           /\ count \in [Dims -> Nat] /\ aux \in Rows
<1>1. aux \in Rows /\ aux + 1 \in Rows /\ aux \in Nat /\ aux # 0 /\ aux \in Dims /\ aux + 1 \in Dims
  BY Numbers DEF Odometer
<1>2. \A ii \in Rows : ii \in Dims /\ ii # 0 /\ ii \in Nat
  BY Numbers
<1>3. /\ count \in [Dims -> Nat] /\ count[0] = start[0] /\ 0 \in Dims
      /\ \A ii \in Rows : start[ii] <= count[ii]
      /\ \A ii \in Rows : count[ii] < end[ii] \/ ii = aux
      /\ \A ii \in Rows : ii < aux => count[ii] = start[ii]
  BY Numbers DEF Odometer
<1> DEFINE c2 == [count EXCEPT ![aux] = start[aux], ![aux + 1] = @ + 1]
<1>4. /\ c2 \in [Dims -> Nat] /\ c2[0] = start[0]
      /\ c2[aux] = start[aux] /\ c2[aux + 1] = count[aux + 1] + 1
      /\ \A ii \in Rows : ii # aux /\ ii # aux + 1 => c2[ii] = count[ii]
  BY <1>1, <1>2, <1>3
<1> HIDE DEF c2
<1>5. ASSUME NEW ii \in Rows
      PROVE  /\ start[ii] <= c2[ii]
             /\ c2[ii] < end[ii] \/ (ii = aux + 1 /\ c2[ii] = end[ii])
             /\ ii < aux + 1 => c2[ii] = start[ii]
  <2>1. CASE ii = aux
    BY <1>1, <1>2, <1>4, <2>1
  <2>2. CASE ii = aux + 1
    <3>1. count[ii] \in Nat /\ start[ii] <= count[ii] /\ count[ii] < end[ii] /\ start[ii] \in Nat /\ end[ii] \in Nat
      BY <1>1, <1>2, <1>3, <2>2
    <3>2. c2[ii] = count[ii] + 1
      BY <1>4, <2>2
    <3> QED
      BY <1>1, <2>2, <3>1, <3>2
  <2>3. CASE ii # aux /\ ii # aux + 1
    <3>1. c2[ii] = count[ii] /\ (ii < aux + 1 => ii < aux)
      BY <1>1, <1>2, <1>4, <2>3
    <3> QED
      BY <1>3, <2>3, <3>1
  <2> QED
    BY <2>1, <2>2, <2>3
<1>6. start[aux + 1] < c2[aux + 1]
  BY <1>1, <1>3, <1>4
<1> QED
  BY <1>1, <1>3, <1>4, <1>5, <1>6 DEF Odometer, c2, NextCarry

\* Coordinates in a box that begins at the origin.
LEMMA PlusZero ==
    ASSUME NEW count \in [Dims -> Int]
    PROVE  Plus(Zero, count) = count /\ Plus(count, Zero) = count /\ Zero \in [Dims -> Nat] /\ Zero \in [Dims -> Int]
BY DEF Plus, Zero

\* The first pixel of a box has place 0.
LEMMA OffsetOfZero ==
    ASSUME NEW s \in [Dims -> Nat \ {0}]
    PROVE  Offset(Zero, Cum(s)) = 0
<1>1. Digits(0, s) = Zero
  <2>1. ASSUME NEW ii \in Dims
        PROVE  (0 \div Cum(s)[ii]) % s[ii] = 0
    <3>1. PICK a \in Nat \ {0}, c \in Nat \ {0} : a = Cum(s)[ii] /\ c = s[ii]
      BY CumPositive
    <3>2. 0 \div a = 0 /\ 0 % c = 0
      OBVIOUS
    <3> QED
      BY <3>1, <3>2
  <2> QED
    BY <2>1 DEF Digits, Zero
<1>2. 0 < Volume(s)
  BY CumPositive
<1> QED
  BY <1>1, <1>2, DigitsHavePlace

\* A box that is no smaller in any dimension holds no fewer pixels.
LEMMA VolumeGrows ==
    ASSUME NEW size \in [Dims -> Nat \ {0}], NEW larger \in [Dims -> Nat \ {0}],
           \A ii \in Dims : size[ii] <= larger[ii]
    PROVE  Volume(size) <= Volume(larger)
<1>0. DataDims - 1 \in Nat /\ Dims = 0 .. DataDims - 1 /\ 0 \in Dims /\ DataDims - 1 \in Dims
  BY BlockGeometryAssumption DEF Dims
<1> DEFINE c == Cum(size)
           d == Cum(larger)
           T == {n \in Nat : c[n] <= d[n]}
<1>1. /\ c \in [Dims -> Nat \ {0}]
      /\ \A ii \in Dims : c[ii] = IF ii = 0 THEN 1 ELSE c[ii - 1] * size[ii - 1]
  <2>1. size \in [Dims -> Int]
    OBVIOUS
  <2> QED
    BY <2>1, CumDef, CumPositive
<1>2. /\ d \in [Dims -> Nat \ {0}]
      /\ \A ii \in Dims : d[ii] = IF ii = 0 THEN 1 ELSE d[ii - 1] * larger[ii - 1]
  <2>1. larger \in [Dims -> Int]
    OBVIOUS
  <2> QED
    BY <2>1, CumDef, CumPositive
<1>3. Volume(size) = c[DataDims - 1] * size[DataDims - 1] /\ Volume(larger) = d[DataDims - 1] * larger[DataDims - 1]
  BY DEF Volume
<1> HIDE DEF c, d
<1>4. ASSUME NEW ii \in Dims, c[ii] <= d[ii]
      PROVE  c[ii] * size[ii] <= d[ii] * larger[ii]
  <2>1. PICK x \in Nat, y \in Nat, u \in Nat, w \in Nat :
           x = c[ii] /\ y = d[ii] /\ u = size[ii] /\ w = larger[ii]
    BY <1>1, <1>2
  <2>2. x * u <= y * w
    BY <1>4, <2>1, Monotone
  <2> QED
    BY <2>1, <2>2
<1>5. \A n \in 0 .. DataDims - 1 : n \in T
  <2>1. 0 \in T
    BY <1>0, <1>1, <1>2
  <2>2. ASSUME NEW n \in Nat, n < DataDims - 1, n \in T
        PROVE  n + 1 \in T
    <3>1. n \in Dims /\ n + 1 \in Dims /\ (n + 1) - 1 = n /\ n + 1 # 0
      BY <1>0, <2>2
    <3>2. c[n + 1] = c[n] * size[n] /\ d[n + 1] = d[n] * larger[n]
      BY <1>1, <1>2, <3>1
    <3> QED
      BY <1>4, <2>2, <3>1, <3>2
  <2> HIDE DEF T
  <2> QED
    BY <1>0, <2>1, <2>2, InductionUpTo
<1>6. c[DataDims - 1] <= d[DataDims - 1]
  <2>1. DataDims - 1 \in T
    BY <1>0, <1>5
  <2> QED
    BY <2>1
<1> QED
  BY <1>0, <1>3, <1>4, <1>6

\* Pixels of a row follow each other, and rows are as long as the first dimension.
LEMMA FirstStride ==
    ASSUME NEW size \in [Dims -> Int]
    PROVE  Cum(size)[0] = 1 /\ Cum(size)[1] = size[0]
<1>1. 0 \in Dims /\ 1 \in Dims /\ size[0] \in Int
  BY Numbers
<1>2. Cum(size)[0] = 1 /\ Cum(size)[1] = Cum(size)[0] * size[0]
  BY <1>1, CumDef
<1> QED
  BY <1>1, <1>2

\* The pixel j places behind count in its row.
Along(count, j) == [count EXCEPT ![0] = @ + j]

\* Its offset, in a box that begins at first.
LEMMA OffsetAlong ==
    ASSUME NEW first \in [Dims -> Int], NEW count \in [Dims -> Int], NEW cum \in [Dims -> Int],
           NEW j \in Int
    PROVE  Offset(Plus(first, Along(count, j)), cum) = Offset(Plus(first, count), cum) + j * cum[0]
<1>1. PICK d \in Dims : d = 0
  BY Numbers
<1>2. PICK c2 \in [Dims -> Int] : c2 = Along(count, j)
  <2>1. count[d] + j \in Int
    OBVIOUS
  <2> QED
    BY <1>1, <2>1 DEF Along
<1>3. \A ii \in Dims : ii # d => c2[ii] = count[ii]
  BY <1>1, <1>2 DEF Along
<1>4. Offset(Plus(first, c2), cum) = Offset(Plus(first, count), cum) + (c2[d] - count[d]) * cum[d]
  BY <1>3, OffsetOfPlus
<1>5. c2[d] - count[d] = j
  BY <1>1, <1>2 DEF Along
<1> QED
  BY <1>1, <1>2, <1>4, <1>5

\* In a row of a box, places follow each other.
RowInBox(count, j, size) ==
    /\ \A ii \in Dims : count[ii] < size[ii]
    /\ count[0] + j < size[0]

RowPlaces(count, j, size) ==
    /\ Along(count, j) \in [Dims -> Nat]
    /\ \A ii \in Dims : Along(count, j)[ii] < size[ii]
    /\ \A ii \in Dims : ii # 0 => Along(count, j)[ii] = count[ii]
    /\ Along(count, j)[0] = count[0] + j
    /\ Offset(count, Cum(size)) \in Nat
    /\ Offset(count, Cum(size)) + j < Volume(size)
    /\ Digits(Offset(count, Cum(size)) + j, size) = Along(count, j)

\* They do: pixel j of the row has the place of the first and j.
LEMMA PlaceAlong ==
    ASSUME NEW size \in [Dims -> Nat \ {0}], NEW count \in [Dims -> Nat], NEW j \in Nat,
           RowInBox(count, j, size)
    PROVE  RowPlaces(count, j, size)
<1>0. PICK d \in Dims : d = 0
  BY Numbers
<1> DEFINE v == Along(count, j)
<1>1. v[d] = count[d] + j /\ v \in [Dims -> Nat] /\ \A ii \in Dims : ii # d => v[ii] = count[ii]
  BY <1>0 DEF Along
<1> HIDE DEF v
<1>2. \A ii \in Dims : v[ii] < size[ii] /\ count[ii] < size[ii]
  BY <1>0, <1>1 DEF RowInBox
<1>3. v \in [Dims -> Int] /\ count \in [Dims -> Int] /\ size \in [Dims -> Int]
  BY <1>1
<1>4. Cum(size) \in [Dims -> Int] /\ Cum(size)[d] = 1
  BY <1>0, <1>3, CumDef, FirstStride
<1>5. Offset(count, Cum(size)) \in Nat
  BY <1>2, OffsetInside
<1>6. Offset(v, Cum(size)) = Offset(count, Cum(size)) + j
  <2>1. \A ii \in Dims : ii # d => v[ii] = count[ii]
    BY <1>1
  <2>2. Offset(v, Cum(size)) = Offset(count, Cum(size)) + (v[d] - count[d]) * Cum(size)[d]
    BY <1>3, <1>4, <2>1, OffsetChange
  <2> QED
    BY <1>1, <1>4, <2>2
<1>7. Offset(v, Cum(size)) < Volume(size) /\ Digits(Offset(v, Cum(size)), size) = v
  BY <1>1, <1>2, OffsetInside, PlaceHasDigits
<1> QED
  BY <1>0, <1>1, <1>2, <1>5, <1>6, <1>7 DEF v, RowPlaces

\* One of finitely many numbers is the largest.
LEMMA Largest ==
    ASSUME NEW ub \in [Dims -> Nat]
    PROVE  \E d \in Dims : \A ii \in Dims : ub[ii] <= ub[d]
<1>0. DataDims - 1 \in Nat /\ Dims = 0 .. DataDims - 1
  BY Numbers
<1> DEFINE T == {n \in Nat : \E d \in 0 .. n : \A ii \in 0 .. n : ub[ii] <= ub[d]}
<1>1. \A n \in 0 .. DataDims - 1 : n \in T
  <2>1. 0 \in T
    <3>1. 0 \in 0 .. 0 /\ \A ii \in 0 .. 0 : ub[ii] <= ub[0]
      BY <1>0
    <3> QED
      BY <3>1
  <2>2. ASSUME NEW n \in Nat, n < DataDims - 1, n \in T
        PROVE  n + 1 \in T
    <3>1. PICK d \in 0 .. n : \A ii \in 0 .. n : ub[ii] <= ub[d]
      BY <2>2
    <3>2. \A ii \in 0 .. n + 1 : ii \in Dims /\ ub[ii] \in Nat /\ (ii \in 0 .. n \/ ii = n + 1)
      BY <1>0, <2>2
    <3>3. CASE ub[n + 1] <= ub[d]
      <4>1. d \in 0 .. n + 1 /\ \A ii \in 0 .. n + 1 : ub[ii] <= ub[d]
        BY <3>1, <3>2, <3>3
      <4> QED
        BY <4>1
    <3>4. CASE ~ (ub[n + 1] <= ub[d])
      <4>1. n + 1 \in 0 .. n + 1 /\ d \in 0 .. n + 1
        OBVIOUS
      <4>2. \A ii \in 0 .. n + 1 : ub[ii] <= ub[n + 1]
        <5> TAKE ii \in 0 .. n + 1
        <5>1. CASE ii \in 0 .. n
          BY <3>1, <3>2, <3>4, <4>1, <5>1
        <5>2. CASE ii = n + 1
          BY <3>2, <4>1, <5>2
        <5> QED
          BY <3>2, <5>1, <5>2
      <4> QED
        BY <4>1, <4>2
    <3> QED
      BY <3>3, <3>4
  <2> HIDE DEF T
  <2> QED
    BY <1>0, <2>1, <2>2, InductionUpTo
<1>2. DataDims - 1 \in T
  <2> HIDE DEF T
  <2> QED
    BY <1>0, <1>1
<1> QED
  BY <1>0, <1>2

\* A box is the set of the voxels between its corners.
LEMMA BoxVoxels ==
    ASSUME NEW lb, NEW ub, \A ii \in Dims : ub[ii] \in Nat, NEW p \in Box(lb, ub)
    PROVE  /\ p \in [Dims -> Nat]
           /\ \A ii \in Dims : lb[ii] <= p[ii] /\ p[ii] <= ub[ii]
<1> DEFINE top == CHOOSE m \in {ub[ii] : ii \in Dims} : \A ii \in Dims : ub[ii] <= m
<1>1. PICK d \in Dims : \A ii \in Dims : ub[ii] <= ub[d]
  <2>1. PICK u \in [Dims -> Nat] : u = [ii \in Dims |-> ub[ii]]
    OBVIOUS
  <2>2. \E d \in Dims : \A ii \in Dims : u[ii] <= u[d]
    BY Largest
  <2> QED
    BY <2>1, <2>2
<1>2. top \in {ub[ii] : ii \in Dims}
  <2>1. \E m \in {ub[ii] : ii \in Dims} : \A ii \in Dims : ub[ii] <= m
    BY <1>1
  <2> QED
    BY <2>1
<1>3. top \in Nat
  BY <1>2
<1>4. p \in [Dims -> 0 .. top] /\ \A ii \in Dims : lb[ii] <= p[ii] /\ p[ii] <= ub[ii]
  BY DEF Box
<1> HIDE DEF top
<1> QED
  BY <1>3, <1>4

\* In three dimensions: the slice a voxel lies in, and its place in the slice.
LEMMA SliceOf ==
    ASSUME DataDims = 3, NEW size \in [Dims -> Nat \ {0}], NEW p \in [Dims -> Nat],
           \A ii \in Dims : p[ii] < size[ii]
    PROVE  /\ Offset(p, Cum(size)) \div (size[0] * size[1]) = p[2]
           /\ Offset(p, Cum(size)) - p[2] * (size[0] * size[1]) < size[0] * size[1]
           /\ p[2] < size[2]
<1>1. 0 \in Dims /\ 1 \in Dims /\ 2 \in Dims
  BY DEF Dims
<1>2. size \in [Dims -> Int] /\ p \in [Dims -> Int]
  OBVIOUS
<1>3. PICK m \in Nat \ {0} : m = size[0] * size[1]
  BY <1>1, Positive
<1>4. Cum(size) \in [Dims -> Int] /\ Cum(size)[1] = size[0] /\ Cum(size)[2] = m
  <2>1. Cum(size) \in [Dims -> Int] /\ Cum(size)[2] = Cum(size)[1] * size[1]
    BY <1>1, <1>2, CumDef
  <2> QED
    BY <1>2, <1>3, <2>1, FirstStride
<1>5. PICK r \in Nat : r = Sum(p, Cum(size))[1] /\ r < m
  <2>1. Sum(p, Cum(size))[1] \in Nat /\ Sum(p, Cum(size))[1] < Cum(size)[1] * size[1]
    BY <1>1, OffsetInside
  <2> QED
    BY <1>3, <1>4, <2>1
<1>6. PICK z \in Nat : z = p[2]
  BY <1>1
<1>7. Offset(p, Cum(size)) = r + z * m
  <2>1. /\ Offset(p, Cum(size)) = Sum(p, Cum(size))[2]
        /\ Sum(p, Cum(size))[2] = Sum(p, Cum(size))[1] + p[2] * Cum(size)[2]
    <3>1. 2 - 1 = 1 /\ DataDims - 1 = 2
      OBVIOUS
    <3>2. PICK c \in [Dims -> Int] : c = Cum(size)
      BY <1>4
    <3>3. /\ Offset(p, c) = Sum(p, c)[DataDims - 1]
          /\ \A ii \in Dims : Sum(p, c)[ii] = IF ii = 0 THEN p[0] * c[0] ELSE Sum(p, c)[ii - 1] + p[ii] * c[ii]
      BY <1>2, SumDef
    <3>4. Sum(p, c)[2] = Sum(p, c)[2 - 1] + p[2] * c[2]
      BY <1>1, <3>3
    <3> QED
      BY <3>1, <3>2, <3>3, <3>4
  <2> QED
    BY <1>4, <1>5, <1>6, <2>1
<1>8. PICK zm \in Nat : zm = z * m /\ zm = m * z
  OBVIOUS
<1>9. PICK o \in Nat : o = r + zm
  BY <1>8
<1>10. PICK q \in Nat, t \in Nat : q = o \div m /\ t < m /\ o = m * q + t
  BY Division
<1>11. m * z + r = m * q + t
  BY <1>8, <1>9, <1>10
<1>12. q = z
  BY <1>5, <1>10, <1>11, OneQuotient
<1> QED
  BY <1>1, <1>3, <1>5, <1>6, <1>7, <1>8, <1>9, <1>10, <1>12

-----------------------------------------------------------------------------
\* Block b: its first voxel, its size, and the place in the image of its pixel k.
FirstOf(b) == coordBlock(b, xyzct, blockSize)
SizeOf(b) == blockSizeAux(FirstOf(b), xyzct, blockSize)
PlaceOf(b, k) ==
    Offset([ii \in Dims |-> FirstOf(b)[ii] + Digits(k, SizeOf(b))[ii]], Cum(xyzct))

\* The arguments of a call of the writer.
CallInv ==
    /\ xyzct \in ImageSizes
    /\ blockSize \in [Dims -> Nat \ {0}]
    /\ slices \in BOOLEAN
    /\ slices => DataDims = 3

\* The block that is cut.
cutBlock == cutBlockId - 1

\* While a block is cut: the odometer and the two offsets that move with it.
CutRowInv ==
    /\ Odometer(cutBcount, cutAuxDim, cutPc = "carry", Zero, SizeOf(cutBlock))
    /\ cutOffsetBuffer = Offset(Plus(FirstOf(cutBlock), cutBcount), Cum(xyzct))
    /\ cutBufferInAux = Offset(cutBcount, Cum(SizeOf(cutBlock)))

\* The writer: each block is claimed once, and the last is claimed before the end.
CutInv ==
    /\ cutPc \in {"claim", "row", "carry", "compress", "done"}
    /\ cutBlockId \in 0 .. calculateNumBlocks(xyzct, blockSize)
    /\ cutPc \in {"row", "carry", "compress"} => cutBlockId # 0
    /\ cutPc = "done" => cutBlockId = calculateNumBlocks(xyzct, blockSize)
    /\ cutPc \in {"row", "carry"} => CutRowInv

\* The buffer for a block: up to bufferInAux it holds the voxels of the block, in
\* their order; when it is complete, all of them.
BlockInv ==
    /\ DOMAIN cutBufferIn = 0 .. Volume(blockSize) - 1
    /\ cutPc \in {"row", "carry"} =>
          \A k \in 0 .. cutBufferInAux - 1 : cutBufferIn[k] = PlaceOf(cutBlock, k)
    /\ cutPc = "compress" =>
          \A k \in 0 .. Volume(SizeOf(cutBlock)) - 1 : cutBufferIn[k] = PlaceOf(cutBlock, k)

\* The blocks that were compressed.
FileInv ==
    /\ DOMAIN compressed = 0 .. calculateNumBlocks(xyzct, blockSize) - 1
    /\ \A b \in DOMAIN compressed :
          (b < cutBlock \/ (b = cutBlock /\ cutPc \in {"claim", "done"}))
          => compressed[b] = [k \in 1 .. Volume(SizeOf(b)) |-> PlaceOf(b, k - 1)]

\* The block that is pasted, and the size of the region.
pasteBlock == blockId - 1
Out == getSizePixels(ROI)

\* The part of block b that lies in the region, counted from the start of the block.
Lower(b) == [ii \in Dims |-> LowerBound(FirstOf(b)[ii], ROI.LB[ii])]
Upper(b) == [ii \in Dims |-> UpperBound(FirstOf(b)[ii], SizeOf(b)[ii], ROI.UB[ii])]

\* Where the block's first pixel would be in the region.
Shift(b) == [ii \in Dims |-> FirstOf(b)[ii] - ROI.LB[ii]]
Meets(b) == \A ii \in Dims : Intersects(FirstOf(b)[ii], blockSize[ii], ROI.LB[ii], ROI.UB[ii])

\* The region begins in the image.
RegionInv ==
    /\ \A ii \in Dims : /\ ROI.LB[ii] \in Nat /\ ROI.UB[ii] \in Nat
                        /\ ROI.LB[ii] <= ROI.UB[ii] /\ ROI.LB[ii] < xyzct[ii]
    /\ full \in BOOLEAN
    /\ full => ROI = defineFullImage(xyzct)

\* While a block is pasted: the odometer goes through the part of the block that
\* lies in the region.
PasteRowInv ==
    /\ Meets(pasteBlock)
    /\ Odometer(bcount, auxDim, pc = "carry", Lower(pasteBlock), Upper(pasteBlock))
    /\ offsetBuffer = Offset(Plus(Shift(pasteBlock), bcount), Cum(Out))
    /\ offsetBufferBlock = Offset(bcount, Cum(SizeOf(pasteBlock)))
    /\ bufferInAux = offsetBufferBlock

\* The reader: it begins when the writer is done, and takes the blocks one by one.
PasteInv ==
    /\ pc \in {"claim", "intersect", "row", "carry", "done"}
    /\ blockId \in 0 .. calculateNumBlocks(xyzct, blockSize)
    /\ blockId # 0 \/ pc # "claim" => cutPc = "done"
    /\ pc \in {"intersect", "row", "carry"} => blockId # 0
    /\ pc = "done" => blockId = calculateNumBlocks(xyzct, blockSize)
    /\ pc \in {"row", "carry"} => PasteRowInv

\* The decompressed block is the block that was cut.
PixelsInv ==
    /\ DOMAIN bufferIn = 0 .. Volume(blockSize) - 1
    /\ pc \in {"row", "carry"} =>
          \A k \in 0 .. Volume(SizeOf(pasteBlock)) - 1 : bufferIn[k] = PlaceOf(pasteBlock, k)

\* The odometer has passed v.
Passed(v) ==
    \E d \in Rows : v[d] < bcount[d] /\ \A e \in Rows : e > d => v[e] = bcount[e]

\* The voxel that belongs at place k of the caller's buffer.
Voxel(k) == VoxelAt(k, ROI.LB, Out)

\* A voxel of the image that lies in the region.
IsWanted(p) ==
    /\ p \in [Dims -> Nat]
    /\ \A ii \in Dims : ROI.LB[ii] <= p[ii] /\ p[ii] <= ROI.UB[ii] /\ p[ii] < xyzct[ii]

\* Voxel p has arrived.
Filled(p) ==
    LET b == BlockOf(p, xyzct, blockSize)
    IN  \/ b < pasteBlock
        \/ b = pasteBlock /\ pc \in {"claim", "done"}
        \/ /\ b = pasteBlock /\ pc \in {"row", "carry"}
           /\ Passed([ii \in Dims |-> p[ii] - FirstOf(b)[ii]])

\* The caller's buffer holds the voxels that have arrived, and nothing else.
OutInv ==
    /\ DOMAIN bufferOut = 0 .. Volume(Out) - 1
    /\ \A k \in 0 .. Volume(Out) - 1 : \A p \in {Voxel(k)} :
          bufferOut[k] = IF IsWanted(p) /\ Filled(p) THEN Place(p, Zero, xyzct) ELSE -1

-----------------------------------------------------------------------------
\* Writer and reader are instances: they compute as BlockGeometry does.
LEMMA CutOperators ==
    /\ Cut!Dims = Dims
    /\ \A s : Cut!Cum(s) = Cum(s) /\ Cut!Volume(s) = Volume(s)
    /\ \A c, s : Cut!Offset(c, s) = Offset(c, s)
    /\ \A x, n : Cut!calculateNumBlocks(x, n) = calculateNumBlocks(x, n)
    /\ \A b, x, n : Cut!coordBlock(b, x, n) = coordBlock(b, x, n)
    /\ \A c, x, n : Cut!blockSizeAux(c, x, n) = blockSizeAux(c, x, n)
<1>1. Cut!Dims = Dims
  BY DEF Cut!Dims, Dims
<1>2. \A s : Cut!Cum(s) = Cum(s)
  BY DEF Cut!Dims, Dims, Cut!Cum, Cum
<1>3. \A s : Cut!Volume(s) = Volume(s)
  BY <1>2 DEF Cut!Volume, Volume
<1>4. \A c, s : Cut!Offset(c, s) = Offset(c, s)
  BY DEF Cut!Dims, Dims, Cut!Offset, Offset
<1>5. \A x, n : Cut!dimsBlock(x, n) = dimsBlock(x, n)
  BY <1>1 DEF Cut!dimsBlock, dimsBlock
<1>6. \A x, n : Cut!calculateNumBlocks(x, n) = calculateNumBlocks(x, n)
  BY <1>3, <1>5 DEF Cut!calculateNumBlocks, calculateNumBlocks
<1>7. \A b, x, n : Cut!coordBlock(b, x, n) = coordBlock(b, x, n)
  BY DEF Cut!coordBlock, coordBlock, Cut!dimsBlock, dimsBlock, Cut!Dims, Dims
<1>8. \A c, x, n : Cut!blockSizeAux(c, x, n) = blockSizeAux(c, x, n)
  BY <1>1 DEF Cut!blockSizeAux, blockSizeAux
<1> QED
  BY <1>1, <1>2, <1>3, <1>4, <1>6, <1>7, <1>8

\* So does the reader.
LEMMA PasteOperators ==
    /\ Paste!Dims = Dims
    /\ \A s : Paste!Cum(s) = Cum(s) /\ Paste!Volume(s) = Volume(s)
    /\ \A c, s : Paste!Offset(c, s) = Offset(c, s)
    /\ \A x, n : Paste!calculateNumBlocks(x, n) = calculateNumBlocks(x, n)
    /\ \A b, x, n : Paste!coordBlock(b, x, n) = coordBlock(b, x, n)
    /\ \A c, x, n : Paste!blockSizeAux(c, x, n) = blockSizeAux(c, x, n)
    /\ \A R : Paste!getSizePixels(R) = getSizePixels(R)
    /\ \A c, n, lb, ub : Paste!Intersects(c, n, lb, ub) = Intersects(c, n, lb, ub)
    /\ \A c, lb : Paste!LowerBound(c, lb) = LowerBound(c, lb)
    /\ \A c, s, ub : Paste!UpperBound(c, s, ub) = UpperBound(c, s, ub)
    /\ \A p, lb, s : Paste!Place(p, lb, s) = Place(p, lb, s)
    /\ \A k, lb, s : Paste!VoxelAt(k, lb, s) = VoxelAt(k, lb, s)
    /\ \A x : Paste!defineFullImage(x) = defineFullImage(x)
<1>1. Paste!Dims = Dims
  BY DEF Paste!Dims, Dims
<1>2. \A s : Paste!Cum(s) = Cum(s)
  BY DEF Paste!Dims, Dims, Paste!Cum, Cum
<1>3. \A s : Paste!Volume(s) = Volume(s)
  BY <1>2 DEF Paste!Volume, Volume
<1>4. \A c, s : Paste!Offset(c, s) = Offset(c, s)
  BY DEF Paste!Dims, Dims, Paste!Offset, Offset
<1>5. \A x, n : Paste!dimsBlock(x, n) = dimsBlock(x, n)
  BY <1>1 DEF Paste!dimsBlock, dimsBlock
<1>6. \A x, n : Paste!calculateNumBlocks(x, n) = calculateNumBlocks(x, n)
  BY <1>3, <1>5 DEF Paste!calculateNumBlocks, calculateNumBlocks
<1>7. \A b, x, n : Paste!coordBlock(b, x, n) = coordBlock(b, x, n)
  BY DEF Paste!coordBlock, coordBlock, Paste!dimsBlock, dimsBlock, Paste!Dims, Dims
<1>8. \A c, x, n : Paste!blockSizeAux(c, x, n) = blockSizeAux(c, x, n)
  BY <1>1 DEF Paste!blockSizeAux, blockSizeAux
<1>9. \A R : Paste!getSizePixels(R) = getSizePixels(R)
  BY <1>1 DEF Paste!getSizePixels, getSizePixels
<1>10. /\ \A c, n, lb, ub : Paste!Intersects(c, n, lb, ub) = Intersects(c, n, lb, ub)
       /\ \A c, lb : Paste!LowerBound(c, lb) = LowerBound(c, lb)
       /\ \A c, s, ub : Paste!UpperBound(c, s, ub) = UpperBound(c, s, ub)
  BY DEF Paste!Intersects, Intersects, Paste!LowerBound, LowerBound, Paste!UpperBound, UpperBound
<1>11. \A p, lb, s : Paste!Place(p, lb, s) = Place(p, lb, s)
  BY <1>1, <1>2, <1>4 DEF Paste!Place, Place
<1>12. \A k, lb, s : Paste!VoxelAt(k, lb, s) = VoxelAt(k, lb, s)
  BY <1>1, <1>2 DEF Paste!VoxelAt, VoxelAt
<1>13. \A x : Paste!defineFullImage(x) = defineFullImage(x)
  BY <1>1 DEF Paste!defineFullImage, defineFullImage
<1> QED
  BY <1>1, <1>2, <1>3, <1>4, <1>6, <1>7, <1>8, <1>9, <1>10, <1>11, <1>12, <1>13

\* Block b, any block of the image of the call.
LEMMA BlockFacts ==
    ASSUME CallInv, NEW b \in Nat
    PROVE  /\ xyzct \in [Dims -> Nat \ {0}]
           /\ Cum(xyzct) \in [Dims -> Int]
           /\ FirstOf(b) \in [Dims -> Nat] /\ FirstOf(b) \in [Dims -> Int]
           /\ SizeOf(b) \in [Dims -> Nat \ {0}] /\ SizeOf(b) \in [Dims -> Nat]
           /\ Cum(SizeOf(b)) \in [Dims -> Int]
           /\ \A ii \in Dims : /\ FirstOf(b)[ii] < xyzct[ii]
                               /\ FirstOf(b)[ii] + SizeOf(b)[ii] <= xyzct[ii]
                               /\ SizeOf(b)[ii] <= blockSize[ii]
                               /\ SizeOf(b)[ii] = BorderSize(FirstOf(b)[ii], blockSize[ii], xyzct[ii])
<1>1. PICK x \in [Dims -> Nat \ {0}], n \in [Dims -> Nat \ {0}] : x = xyzct /\ n = blockSize
  BY BlockGeometryAssumption DEF CallInv
<1> DEFINE f == coordBlock(b, x, n)
           s == blockSizeAux(f, x, n)
<1>2. /\ f \in [Dims -> Nat] /\ s \in [Dims -> Nat \ {0}]
      /\ \A ii \in Dims : /\ f[ii] < x[ii] /\ f[ii] + s[ii] <= x[ii] /\ s[ii] <= n[ii]
                          /\ s[ii] = BorderSize(f[ii], n[ii], x[ii])
  <2>1. Inside(f, s, x, n)
    BY BlockInside
  <2> QED
    BY <2>1 DEF Inside
<1>3. FirstOf(b) = f /\ SizeOf(b) = s
  <2>1. FirstOf(b) = f
    BY <1>1 DEF FirstOf
  <2> HIDE DEF f
  <2>2. SizeOf(b) = s
    BY <1>1, <2>1 DEF SizeOf
  <2> QED
    BY <2>1, <2>2
<1> HIDE DEF f, s
<1>4. f \in [Dims -> Int] /\ s \in [Dims -> Nat] /\ s \in [Dims -> Int] /\ x \in [Dims -> Int]
  BY <1>2
<1>5. Cum(s) \in [Dims -> Int] /\ Cum(x) \in [Dims -> Int]
  BY <1>4, CumDef
<1> QED
  BY <1>1, <1>2, <1>3, <1>4, <1>5

\* What the writer computes with.
LEMMA CutReadings ==
    /\ Cut!coord = FirstOf(cutBlock)
    /\ Cut!size = SizeOf(cutBlock)
    /\ Cut!NumBlocks = calculateNumBlocks(xyzct, blockSize)
    /\ Cut!xyzctCum = Cum(xyzct)
BY CutOperators DEF Cut!coord, Cut!size, Cut!NumBlocks, Cut!xyzctCum, FirstOf, SizeOf, cutBlock

\* Claiming a block sets the odometer and its offsets to its first row.
LEMMA CutInvClaim ==
    ASSUME CallInv, CutInv, Cut!ClaimBlock
    PROVE  CutInv'
<1>0. PICK x \in [Dims -> Nat \ {0}], n \in [Dims -> Nat \ {0}], num \in Nat \ {0} :
         x = xyzct /\ n = blockSize /\ num = calculateNumBlocks(x, n)
  BY BlockGeometryAssumption, BlockGrid DEF CallInv
<1>1. xyzct' = xyzct /\ blockSize' = blockSize
  BY DEF Cut!ClaimBlock, Cut!callVars
<1>2. cutBlockId \in Nat /\ cutBlockId <= num
  BY <1>0 DEF CutInv
<1>3. CASE cutBlockId < num
  <2>1. /\ cutBlockId' = cutBlockId + 1 /\ cutPc' = "row"
        /\ cutBcount' = Zero /\ cutAuxDim' = 1 /\ cutBufferInAux' = 0
        /\ cutOffsetBuffer' = Offset(FirstOf(cutBlockId), Cum(xyzct))
    BY <1>0, <1>3, CutReadings, CutOperators DEF Cut!ClaimBlock, Zero, FirstOf
  <2>2. cutBlock' = cutBlockId /\ cutBlock' \in Nat
    BY <1>2, <2>1 DEF cutBlock
  <2>3. FirstOf(cutBlock)' = FirstOf(cutBlockId) /\ SizeOf(cutBlock)' = SizeOf(cutBlockId)
    BY <1>1, <2>2 DEF FirstOf, SizeOf
  <2>4. PICK f \in [Dims -> Int], s \in [Dims -> Nat \ {0}] : f = FirstOf(cutBlockId) /\ s = SizeOf(cutBlockId)
    BY <1>2, BlockFacts
  <2>5. Odometer(Zero, 1, FALSE, Zero, s)
    <3>1. ASSUME NEW ii \in Rows
          PROVE  ii \in Dims /\ Zero[ii] = 0 /\ 0 < s[ii]
      <4>1. ii \in Dims
        BY Numbers
      <4> QED
        BY <4>1 DEF Zero
    <3>2. Zero \in [Dims -> Nat] /\ 1 \in Rows
      BY Numbers DEF Zero
    <3>3. 0 \in Dims
      BY Numbers
    <3> QED
      BY <3>1, <3>2, <3>3 DEF Odometer
  <2>6. Plus(f, Zero) = f
    BY PlusZero
  <2>7. Offset(Zero, Cum(s)) = 0
    BY OffsetOfZero
  <2>8. cutOffsetBuffer' = Offset(Plus(FirstOf(cutBlock)', cutBcount'), Cum(xyzct)')
    BY <1>1, <2>1, <2>3, <2>4, <2>6
  <2>9. cutBufferInAux' = Offset(cutBcount', Cum(SizeOf(cutBlock))')
    BY <2>1, <2>3, <2>4, <2>7
  <2>10. Odometer(cutBcount, cutAuxDim, FALSE, Zero, SizeOf(cutBlock))'
    BY <2>1, <2>3, <2>4, <2>5 DEF Odometer, Zero
  <2>11. cutBlockId' \in 0 .. calculateNumBlocks(xyzct, blockSize)' /\ cutBlockId' # 0
    BY <1>0, <1>1, <1>2, <1>3, <2>1
  <2> QED
    BY <2>1, <2>8, <2>9, <2>10, <2>11 DEF CutInv, CutRowInv, Plus, Odometer
<1>4. CASE ~ (cutBlockId < num)
  <2>1. cutBlockId' = cutBlockId /\ cutPc' = "done"
    BY <1>0, <1>4, CutReadings DEF Cut!ClaimBlock
  <2> QED
    BY <1>0, <1>1, <1>2, <1>4, <2>1 DEF CutInv
<1> QED
  BY <1>3, <1>4

\* A row moves them to the next row.
LEMMA CutInvRow ==
    ASSUME CallInv, CutInv, Cut!CopyRow
    PROVE  CutInv'
<1>1. /\ cutPc = "row" /\ cutPc' = "carry" /\ UNCHANGED <<xyzct, blockSize, cutBlockId>>
      /\ cutBcount' = [cutBcount EXCEPT ![1] = @ + 1] /\ cutAuxDim' = 1
      /\ cutOffsetBuffer' = cutOffsetBuffer + Cum(xyzct)[1]
      /\ cutBufferInAux' = cutBufferInAux + SizeOf(cutBlock)[0]
  BY CutReadings DEF Cut!CopyRow, Cut!callVars
<1>2. /\ cutBlockId \in 0 .. calculateNumBlocks(xyzct, blockSize) /\ cutBlockId # 0 /\ CutRowInv
  BY <1>1 DEF CutInv
<1>3. PICK b \in Nat : b = cutBlock
  BY <1>2 DEF cutBlock
<1>4. FirstOf(cutBlock)' = FirstOf(b) /\ SizeOf(cutBlock)' = SizeOf(b) /\ Cum(xyzct)' = Cum(xyzct)
  BY <1>1, <1>3 DEF FirstOf, SizeOf, cutBlock
<1>5. PICK f \in [Dims -> Int], s \in [Dims -> Nat], cum \in [Dims -> Int], cums \in [Dims -> Int],
           count \in [Dims -> Nat] :
         /\ f = FirstOf(b) /\ s = SizeOf(b) /\ cum = Cum(xyzct) /\ cums = Cum(s)
         /\ count = cutBcount
  BY <1>2, BlockFacts DEF CutRowInv, Odometer
<1> DEFINE c2 == NextRow(count)
<1>6. Odometer(c2, 1, TRUE, Zero, s)
  <2>1. Odometer(count, cutAuxDim, FALSE, Zero, s)
    BY <1>1, <1>2, <1>3, <1>5 DEF CutRowInv
  <2>2. PICK aux : aux = cutAuxDim
    OBVIOUS
  <2>3. Odometer(count, aux, FALSE, Zero, s)
    BY <2>1, <2>2
  <2> QED
    BY <2>3, PlusZero, OdometerRow
<1>7. count \in [Dims -> Int] /\ c2 \in [Dims -> Int] /\ Zero \in [Dims -> Int]
  BY <1>6, PlusZero DEF Odometer
<1>8. Offset(Plus(f, c2), cum) = Offset(Plus(f, count), cum) + cum[1]
  BY <1>7, OffsetOfRow
<1>9. Offset(c2, cums) = Offset(count, cums) + s[0]
  <2>1. Offset(Plus(Zero, c2), cums) = Offset(Plus(Zero, count), cums) + cums[1]
    <3>1. PICK z \in [Dims -> Int] : z = Zero
      BY <1>7
    <3>2. Offset(Plus(z, c2), cums) = Offset(Plus(z, count), cums) + cums[1]
      BY <1>7, OffsetOfRow
    <3> QED
      BY <3>1, <3>2
  <2>2. cums[1] = s[0]
    <3>1. s \in [Dims -> Int] /\ 1 \in Dims /\ 0 \in Dims
      BY Numbers
    <3>2. cums[1] = cums[0] * s[0] /\ cums[0] = 1
      BY <1>5, <3>1, CumDef
    <3> QED
      BY <3>1, <3>2
  <2> QED
    BY <1>7, <2>1, <2>2, PlusZero
<1> HIDE DEF c2
<1>10. cutBcount' = c2
  BY <1>1, <1>5 DEF c2, NextRow
<1>11. cutOffsetBuffer' = Offset(Plus(f, c2), cum)
  BY <1>1, <1>2, <1>3, <1>5, <1>8 DEF CutRowInv
<1>12. cutBufferInAux' = Offset(c2, cums)
  BY <1>1, <1>2, <1>3, <1>5, <1>9 DEF CutRowInv
<1>13. CutRowInv'
  BY <1>1, <1>4, <1>5, <1>6, <1>10, <1>11, <1>12 DEF CutRowInv, Odometer, Plus, Zero
<1> QED
  BY <1>1, <1>2, <1>13 DEF CutInv

\* A carry moves them to the next row of another plane.
LEMMA CutInvCarry ==
    ASSUME CallInv, CutInv, Cut!Carry
    PROVE  CutInv'
<1>0. Last \in Rows /\ \A ii \in Rows : ii \in Nat /\ (ii + 1 = DataDims <=> ii = Last)
  BY LastRow
<1>1. /\ cutPc = "carry" /\ UNCHANGED <<xyzct, blockSize, cutBlockId, cutBufferInAux>>
      /\ cutBcount[cutAuxDim] = SizeOf(cutBlock)[cutAuxDim]
      /\ cutAuxDim' = cutAuxDim + 1
  BY CutReadings DEF Cut!Carry, Cut!callVars
<1>2. cutBlockId \in 0 .. calculateNumBlocks(xyzct, blockSize) /\ cutBlockId # 0 /\ CutRowInv
  BY <1>1 DEF CutInv
<1>3. cutAuxDim \in Rows
  BY <1>2 DEF CutRowInv, Odometer
<1>4. CASE cutAuxDim = Last
  <2>1. cutPc' = "compress"
    BY <1>0, <1>1, <1>3, <1>4 DEF Cut!Carry
  <2> QED
    BY <1>1, <1>2, <2>1 DEF CutInv
<1>5. CASE cutAuxDim # Last
  <2>1. /\ cutPc' = "carry"
        /\ cutBcount' = [cutBcount EXCEPT ![cutAuxDim] = 0, ![cutAuxDim + 1] = @ + 1]
        /\ cutOffsetBuffer' = cutOffsetBuffer - cutBcount[cutAuxDim] * Cum(xyzct)[cutAuxDim]
                                + Cum(xyzct)[cutAuxDim + 1]
    BY <1>0, <1>1, <1>3, <1>5, CutReadings DEF Cut!Carry
  <2>3. PICK b \in Nat : b = cutBlock
    BY <1>2 DEF cutBlock
  <2>4. FirstOf(cutBlock)' = FirstOf(b) /\ SizeOf(cutBlock)' = SizeOf(b) /\ Cum(xyzct)' = Cum(xyzct)
    BY <1>1, <2>3 DEF FirstOf, SizeOf, cutBlock
  <2>5. PICK f \in [Dims -> Int], s \in [Dims -> Nat \ {0}], cum \in [Dims -> Int], cums \in [Dims -> Int],
             count \in [Dims -> Nat], d \in Rows :
           /\ f = FirstOf(b) /\ s = SizeOf(b) /\ cum = Cum(xyzct) /\ cums = Cum(s)
           /\ count = cutBcount /\ d = cutAuxDim
    BY <1>2, <1>3, BlockFacts DEF CutRowInv, Odometer
  <2>6. d \in Dims /\ d + 1 \in Dims /\ d \in Nat /\ d # 0 /\ d # Last /\ Zero[d] = 0
    BY <1>5, <2>5, Numbers DEF Zero
  <2>a. PICK low \in Nat : low = 0 /\ low \in Int
    OBVIOUS
  <2> DEFINE c2 == NextCarry(count, d, low)
  <2>7. Odometer(c2, d + 1, TRUE, Zero, s)
    <3>1. PICK z \in [Dims -> Nat] : z = Zero
      BY PlusZero
    <3>2. Odometer(count, d, TRUE, z, s)
      BY <1>1, <1>2, <2>3, <2>5, <3>1 DEF CutRowInv, Odometer
    <3>3. s \in [Dims -> Nat] /\ \A ii \in Dims : z[ii] < s[ii]
      BY <3>1 DEF Zero
    <3>4. count[d] = s[d]
      BY <1>1, <2>3, <2>5
    <3>5. Odometer(NextCarry(count, d, z[d]), d + 1, TRUE, z, s)
      BY <2>6, <3>2, <3>3, <3>4, OdometerCarry
    <3> QED
      BY <2>6, <2>a, <3>1, <3>5
  <2>8. count \in [Dims -> Int] /\ c2 \in [Dims -> Int] /\ Zero \in [Dims -> Int]
    BY <2>7, PlusZero DEF Odometer
  <2>10. Offset(Plus(f, c2), cum) = Offset(Plus(f, count), cum) - count[d] * cum[d] + cum[d + 1]
    <3>1. Offset(Plus(f, c2), cum) = OffsetCarried(Offset(Plus(f, count), cum), count, d, low, cum)
      BY <2>6, <2>8, <2>a, OffsetOfCarry
    <3>2. count[d] - low = count[d]
      BY <2>6, <2>8, <2>a
    <3> QED
      BY <3>1, <3>2 DEF OffsetCarried
  <2>11. Offset(c2, cums) = Offset(count, cums)
    <3>1. PICK z \in [Dims -> Int] : z = Zero
      BY <2>8
    <3>2. Offset(Plus(z, c2), cums) = OffsetCarried(Offset(Plus(z, count), cums), count, d, low, cums)
      BY <2>6, <2>8, <2>a, OffsetOfCarry
    <3>3. cums[d + 1] = cums[d] * s[d]
      <4>1. s \in [Dims -> Int] /\ (d + 1) - 1 = d /\ d + 1 # 0
        BY <2>6
      <4> QED
        BY <2>5, <2>6, <4>1, CumDef
    <3>4. (count[d] - low) * cums[d] = cums[d] * s[d] /\ cums[d] * s[d] \in Int
      <4>1. count[d] = s[d]
        BY <1>1, <2>3, <2>5
      <4>2. count[d] - low = s[d] /\ s[d] \in Int /\ cums[d] \in Int
        BY <2>6, <2>a, <4>1
      <4> QED
        BY <4>2
    <3>5. Offset(count, cums) \in Int
      BY <2>8, SumDef
    <3>6. Plus(z, c2) = c2 /\ Plus(z, count) = count
      <4> HIDE DEF c2
      <4> QED
        BY <2>8, <3>1, PlusZero
    <3> QED
      BY <3>2, <3>3, <3>4, <3>5, <3>6 DEF OffsetCarried
  <2> HIDE DEF c2
  <2>12. cutBcount' = c2
    BY <2>1, <2>5, <2>a DEF c2, NextCarry
  <2>13. cutOffsetBuffer' = Offset(Plus(f, c2), cum)
    BY <1>2, <2>1, <2>3, <2>5, <2>10 DEF CutRowInv
  <2>14. cutBufferInAux' = Offset(c2, cums)
    BY <1>1, <1>2, <2>3, <2>5, <2>11 DEF CutRowInv
  <2>15. CutRowInv'
    BY <1>1, <2>1, <2>4, <2>5, <2>7, <2>12, <2>13, <2>14 DEF CutRowInv, Odometer, Plus, Zero
  <2> QED
    BY <1>1, <1>2, <2>1, <2>15 DEF CutInv
<1> QED
  BY <1>4, <1>5

\* And the other steps leave them alone.
LEMMA CutInvOther ==
    ASSUME CallInv, CutInv, Cut!NoCarry \/ Cut!Compress \/ Cut!Done
    PROVE  CutInv'
<1>1. UNCHANGED <<xyzct, blockSize, cutBlockId, cutBcount, cutAuxDim, cutOffsetBuffer, cutBufferInAux>>
  BY DEF Cut!NoCarry, Cut!Compress, Cut!Done, Cut!callVars, Cut!loopVars, Cut!vars
<1>2. CASE Cut!NoCarry
  <2>1. cutPc = "carry" /\ cutPc' = "row" /\ cutBcount[cutAuxDim] # SizeOf(cutBlock)[cutAuxDim]
    BY <1>2, CutReadings DEF Cut!NoCarry
  <2> QED
    BY <1>1, <2>1 DEF CutInv, CutRowInv, Plus, Odometer, cutBlock, SizeOf, FirstOf, Zero
<1>3. CASE Cut!Compress
  <2>1. cutPc = "compress" /\ cutPc' = "claim"
    BY <1>3 DEF Cut!Compress
  <2> QED
    BY <1>1, <2>1 DEF CutInv
<1>4. CASE Cut!Done
  <2>1. cutPc = "done" /\ cutPc' = "done"
    BY <1>4 DEF Cut!Done, Cut!vars
  <2> QED
    BY <1>1, <2>1 DEF CutInv
<1> QED
  BY <1>2, <1>3, <1>4

\* Voxel q is pixel j of the row that is read.
IsVoxelOfRow(q, j) ==
    /\ \A ii \in Dims : q[ii] < xyzct[ii]
    /\ \A ii \in Dims : ii # 0 => q[ii] = FirstOf(cutBlock)[ii] + cutBcount[ii]
    /\ Offset(q, Cum(xyzct)) = cutOffsetBuffer + j

\* The first pixel of a row, and the pixels behind it, have the places the block
\* and the image give them.
LEMMA RowOfBlock ==
    ASSUME CallInv, CutInv, cutPc = "row", NEW j \in Nat, j < SizeOf(cutBlock)[0]
    PROVE  /\ cutBlock \in Nat
           /\ cutBufferInAux \in Nat
           /\ cutBufferInAux + j < Volume(SizeOf(cutBlock))
           /\ cutOffsetBuffer \in Nat
           /\ cutOffsetBuffer + j < Volume(xyzct)
           /\ PlaceOf(cutBlock, cutBufferInAux + j) = cutOffsetBuffer + j
           /\ \E q \in [Dims -> Nat] : IsVoxelOfRow(q, j)
<1>1. CutRowInv /\ cutBlockId \in 0 .. calculateNumBlocks(xyzct, blockSize) /\ cutBlockId # 0
  BY DEF CutInv
<1>2. PICK b \in Nat : b = cutBlock
  BY <1>1 DEF cutBlock
<1>3. PICK f \in [Dims -> Nat], s \in [Dims -> Nat \ {0}], x \in [Dims -> Nat \ {0}], count \in [Dims -> Nat] :
         /\ f = FirstOf(b) /\ s = SizeOf(b) /\ x = xyzct /\ count = cutBcount
         /\ \A ii \in Dims : f[ii] + s[ii] <= x[ii]
  BY <1>1, <1>2, BlockFacts DEF CutRowInv, Odometer
<1>4. \A ii \in Dims : count[ii] < s[ii]
  <2>1. \A ii \in Rows : count[ii] < s[ii]
    BY <1>1, <1>2, <1>3 DEF CutRowInv, Odometer
  <2>2. count[0] = 0 /\ 0 \in Dims
    BY <1>1, <1>3, Numbers DEF CutRowInv, Odometer, Zero
  <2> QED
    BY <2>1, <2>2 DEF Rows
<1>5. count[0] + j < s[0] /\ count[0] + 0 < s[0]
  <2>1. count[0] = 0 /\ 0 \in Dims
    BY <1>1, <1>3, Numbers DEF CutRowInv, Odometer, Zero
  <2> QED
    BY <1>2, <1>3, <2>1
<1>6. f \in [Dims -> Int] /\ x \in [Dims -> Int]
  OBVIOUS
<1>7. Cum(x) \in [Dims -> Int] /\ Cum(x)[0] = 1
  BY <1>6, CumDef, FirstStride
<1> DEFINE v == Along(count, j)
<1>8. /\ v \in [Dims -> Nat]
      /\ \A ii \in Dims : v[ii] < s[ii]
      /\ Offset(count, Cum(s)) \in Nat
      /\ Offset(count, Cum(s)) + j < Volume(s)
      /\ Digits(Offset(count, Cum(s)) + j, s) = v
      /\ Offset(Plus(f, v), Cum(x)) = Offset(Plus(f, count), Cum(x)) + j * Cum(x)[0]
  <2>1. RowPlaces(count, j, s)
    <3>1. RowInBox(count, j, s)
      BY <1>4, <1>5 DEF RowInBox
    <3> QED
      BY <3>1, PlaceAlong
  <2>2. PICK cum \in [Dims -> Int] : cum = Cum(x)
    BY <1>7
  <2>3. Offset(Plus(f, v), cum) = Offset(Plus(f, count), cum) + j * cum[0]
    <3>1. f \in [Dims -> Int] /\ count \in [Dims -> Int] /\ j \in Int
      OBVIOUS
    <3> QED
      BY <3>1, OffsetAlong
  <2> QED
    BY <2>1, <2>2, <2>3 DEF RowPlaces
<1> HIDE DEF v
<1>9. cutBufferInAux = Offset(count, Cum(s)) /\ cutOffsetBuffer = Offset(Plus(f, count), Cum(x))
  BY <1>1, <1>2, <1>3 DEF CutRowInv
<1>10. ASSUME NEW w \in [Dims -> Nat], \A ii \in Dims : w[ii] < s[ii]
       PROVE  /\ Offset(Plus(f, w), Cum(x)) \in Nat
              /\ Offset(Plus(f, w), Cum(x)) < Volume(x)
              /\ Plus(f, w) \in [Dims -> Nat]
              /\ \A ii \in Dims : Plus(f, w)[ii] < x[ii]
  <2>1. PICK q \in [Dims -> Nat] : q = Plus(f, w) /\ \A ii \in Dims : q[ii] < x[ii]
    <3>1. Plus(f, w) \in [Dims -> Nat]
      BY DEF Plus
    <3>2. ASSUME NEW ii \in Dims
          PROVE  Plus(f, w)[ii] < x[ii]
      <4>1. f[ii] + s[ii] <= x[ii] /\ w[ii] < s[ii] /\ f[ii] \in Nat /\ w[ii] \in Nat /\ s[ii] \in Nat /\ x[ii] \in Nat
        BY <1>3, <1>10
      <4> QED
        BY <4>1 DEF Plus
    <3> QED
      BY <3>1, <3>2
  <2> QED
    BY <2>1, OffsetInside
<1>11. Offset(Plus(f, v), Cum(x)) = cutOffsetBuffer + j
  BY <1>7, <1>8, <1>9
<1>12. PlaceOf(cutBlock, cutBufferInAux + j) = Offset(Plus(f, v), Cum(x))
  BY <1>2, <1>3, <1>8, <1>9 DEF PlaceOf, Plus
<1>13. \E q \in [Dims -> Nat] : IsVoxelOfRow(q, j)
  <2>1. PICK q \in [Dims -> Nat] : q = Plus(f, v) /\ \A ii \in Dims : q[ii] < x[ii]
    BY <1>8, <1>10
  <2>2. \A ii \in Dims : ii # 0 => q[ii] = f[ii] + count[ii]
    BY <2>1 DEF Plus, v, Along
  <2> QED
    BY <1>2, <1>3, <1>11, <2>1, <2>2 DEF IsVoxelOfRow
<1> QED
  BY <1>2, <1>3, <1>4, <1>8, <1>9, <1>10, <1>11, <1>12, <1>13

-----------------------------------------------------------------------------
\* Block b fits in the buffer for one.
LEMMA BlockFits ==
    ASSUME CallInv, NEW b \in Nat
    PROVE  /\ Volume(SizeOf(b)) \in Nat \ {0}
           /\ Volume(blockSize) \in Nat
           /\ Volume(SizeOf(b)) <= Volume(blockSize)
<1>1. PICK s \in [Dims -> Nat \ {0}], n \in [Dims -> Nat \ {0}] :
         /\ s = SizeOf(b) /\ n = blockSize
         /\ \A ii \in Dims : s[ii] <= n[ii]
  BY BlockFacts DEF CallInv
<1>2. Volume(s) \in Nat \ {0} /\ Volume(n) \in Nat \ {0} /\ Volume(s) <= Volume(n)
  BY <1>1, CumPositive, VolumeGrows
<1> QED
  BY <1>1, <1>2

\* Behind its last row a block is complete.
LEMMA BlockComplete ==
    ASSUME CallInv, CutInv, cutPc = "carry", cutAuxDim = Last, cutBcount[Last] = SizeOf(cutBlock)[Last]
    PROVE  cutBufferInAux = Volume(SizeOf(cutBlock))
<1>1. CutRowInv /\ cutBlockId \in 0 .. calculateNumBlocks(xyzct, blockSize) /\ cutBlockId # 0
  BY DEF CutInv
<1>2. PICK b \in Nat : b = cutBlock
  BY <1>1 DEF cutBlock
<1>3. PICK s \in [Dims -> Nat \ {0}], count \in [Dims -> Nat], d \in Dims :
         s = SizeOf(b) /\ count = cutBcount /\ d = Last
  BY <1>1, <1>2, BlockFacts, Numbers DEF CutRowInv, Odometer
<1>4. count[d] = s[d] /\ \A ii \in Dims : ii # d => count[ii] = 0
  <2>1. count[d] = s[d]
    BY <1>2, <1>3
  <2>2. ASSUME NEW ii \in Dims, ii # d
        PROVE  count[ii] = 0
    <3>1. ii = 0 \/ (ii \in Rows /\ ii < Last)
      BY <1>3, <2>2, Numbers DEF Rows
    <3> QED
      BY <1>1, <1>3, <2>2, <3>1 DEF CutRowInv, Odometer, Zero
  <2> QED
    BY <2>1, <2>2
<1>5. PICK z \in [Dims -> Int] : z = Zero /\ \A ii \in Dims : z[ii] = 0
  BY PlusZero DEF Zero
<1>6. Offset(z, Cum(s)) = 0
  BY <1>3, <1>5, OffsetOfZero
<1>7. PICK c \in [Dims -> Int], cum \in [Dims -> Int] : c = count /\ cum = Cum(s) /\ \A ii \in Dims : ii # d => c[ii] = z[ii]
  <2>1. s \in [Dims -> Int] /\ count \in [Dims -> Int]
    OBVIOUS
  <2>2. Cum(s) \in [Dims -> Int]
    BY <2>1, CumDef
  <2> QED
    BY <1>4, <1>5, <2>1, <2>2
<1>a. \A ii \in Dims : ii # d => c[ii] = z[ii]
  BY <1>7
<1>8. Offset(c, cum) = Offset(z, cum) + (c[d] - z[d]) * cum[d]
  BY <1>a, OffsetChange
<1>9. (c[d] - z[d]) * cum[d] = s[d] * cum[d] /\ s[d] * cum[d] \in Int /\ s[d] * cum[d] = cum[d] * s[d]
  <2>1. c[d] - z[d] = s[d] /\ s[d] \in Int /\ cum[d] \in Int
    BY <1>4, <1>5, <1>7
  <2> QED
    BY <2>1
<1>10. Offset(count, Cum(s)) = Volume(s)
  <2>1. Volume(s) = cum[d] * s[d]
    BY <1>3, <1>7 DEF Volume, Last
  <2> QED
    BY <1>6, <1>7, <1>8, <1>9, <2>1
<1> QED
  BY <1>1, <1>2, <1>3, <1>10 DEF CutRowInv

\* All of the writer.
WriterInv == CallInv /\ CutInv /\ BlockInv /\ FileInv

\* The arguments of a call stay as they are.
LEMMA CallStays ==
    ASSUME CallInv, Cut!Next
    PROVE  /\ xyzct' = xyzct /\ blockSize' = blockSize /\ slices' = slices
           /\ CallInv'
BY DEF CallInv, Cut!Next, Cut!ClaimBlock, Cut!CopyRow, Cut!Carry, Cut!NoCarry, Cut!Compress, Cut!Done,
       Cut!callVars, Cut!vars

\* A row appends its voxels to the block.
LEMMA BlockInvRow ==
    ASSUME CallInv, CutInv, BlockInv, Cut!CopyRow
    PROVE  BlockInv'
<1>1. /\ cutPc = "row" /\ cutPc' = "carry" /\ UNCHANGED <<xyzct, blockSize, cutBlockId>>
      /\ cutBufferInAux' = cutBufferInAux + SizeOf(cutBlock)[0]
      /\ cutBufferIn' = [k \in DOMAIN cutBufferIn |->
                            IF k \in cutBufferInAux .. cutBufferInAux + SizeOf(cutBlock)[0] - 1
                            THEN Cut!Pixel(k - cutBufferInAux) ELSE cutBufferIn[k]]
  BY CutReadings DEF Cut!CopyRow, Cut!callVars
<1>2. PICK b \in Nat : b = cutBlock
  BY <1>1 DEF CutInv, cutBlock
<1>3. PICK n \in Nat \ {0} : n = SizeOf(b)[0]
  BY <1>2, BlockFacts, Numbers
<1>4. PICK a \in Nat, o \in Nat : a = cutBufferInAux /\ o = cutOffsetBuffer
  <2>1. 0 < SizeOf(cutBlock)[0]
    BY <1>2, <1>3
  <2> QED
    BY <1>1, <2>1, RowOfBlock
<1>5. ASSUME NEW j \in Nat, j < n
      PROVE  a + j < Volume(SizeOf(b)) /\ PlaceOf(b, a + j) = o + j /\ Cut!Pixel(j) = o + j
  <2>1. a + j < Volume(SizeOf(b)) /\ PlaceOf(b, a + j) = o + j
    BY <1>1, <1>2, <1>3, <1>4, <1>5, RowOfBlock
  <2>2. PICK m \in Nat \ {0} : m = Cut!sliceSize
    <3>1. xyzct[0] \in Nat \ {0} /\ xyzct[1] \in Nat \ {0}
      BY <1>2, BlockFacts, Numbers
    <3> QED
      BY <3>1, Positive DEF Cut!sliceSize
  <2>3. PICK q \in Nat : q = o \div m
    BY Division
  <2>4. q * m \in Nat
    BY <2>3
  <2>5. Cut!Pixel(j) = IF slices THEN q * m + ((o - q * m) + j) ELSE o + j
    BY <1>4, <2>2, <2>3 DEF Cut!Pixel, Cut!offsetZ, Cut!offsetSlice
  <2> QED
    BY <2>1, <2>4, <2>5
<1>6. /\ Volume(SizeOf(b)) \in Nat /\ Volume(blockSize) \in Nat
      /\ Volume(SizeOf(b)) <= Volume(blockSize)
      /\ DOMAIN cutBufferIn = 0 .. Volume(blockSize) - 1
  BY BlockFits DEF BlockInv
<1>7. ASSUME NEW k \in 0 .. a + n - 1
      PROVE  cutBufferIn'[k] = PlaceOf(b, k)
  <2>1. CASE k < a
    <3>1. cutBufferIn[k] = PlaceOf(b, k) /\ k \in DOMAIN cutBufferIn
      <4>1. k \in 0 .. a - 1
        BY <2>1
      <4>2. a < Volume(SizeOf(b))
        BY <1>5
      <4> QED
        BY <1>1, <1>2, <1>4, <1>6, <4>1, <4>2 DEF BlockInv
    <3>2. ~ (k \in cutBufferInAux .. cutBufferInAux + SizeOf(cutBlock)[0] - 1)
      BY <1>2, <1>3, <1>4, <2>1
    <3> QED
      BY <1>1, <3>1, <3>2
  <2>2. CASE ~ (k < a)
    <3>1. PICK j \in Nat : j = k - a /\ j < n /\ k = a + j
      BY <2>2
    <3>2. k \in DOMAIN cutBufferIn
      <4>1. a + j < Volume(SizeOf(b))
        BY <1>5, <3>1
      <4> QED
        BY <1>6, <3>1, <4>1
    <3>3. k \in cutBufferInAux .. cutBufferInAux + SizeOf(cutBlock)[0] - 1
      BY <1>2, <1>3, <1>4, <3>1
    <3>4. cutBufferIn'[k] = Cut!Pixel(j)
      BY <1>1, <1>4, <3>1, <3>2, <3>3
    <3> QED
      BY <1>5, <3>1, <3>4
  <2> QED
    BY <2>1, <2>2
<1>8. cutBufferInAux' = a + n
  BY <1>1, <1>2, <1>3, <1>4
<1>9. \A k : PlaceOf(cutBlock, k)' = PlaceOf(b, k)
  BY <1>1, <1>2 DEF PlaceOf, FirstOf, SizeOf, cutBlock
<1>10. DOMAIN cutBufferIn' = 0 .. Volume(blockSize)' - 1
  <2>1. DOMAIN cutBufferIn' = DOMAIN cutBufferIn /\ Volume(blockSize)' = Volume(blockSize)
    BY <1>1
  <2> QED
    BY <1>6, <2>1
<1>11. \A k \in 0 .. cutBufferInAux' - 1 : cutBufferIn'[k] = PlaceOf(cutBlock, k)'
  BY <1>7, <1>8, <1>9
<1>12. cutPc' = "carry"
  BY <1>1
<1> QED
  BY <1>10, <1>11, <1>12 DEF BlockInv

\* The other steps append none; behind the last row the block is complete.
LEMMA BlockInvOther ==
    ASSUME CallInv, CutInv, BlockInv,
           Cut!ClaimBlock \/ Cut!Carry \/ Cut!NoCarry \/ Cut!Compress \/ Cut!Done
    PROVE  BlockInv'
<1>0. /\ UNCHANGED <<xyzct, blockSize, cutBufferIn>>
  BY DEF Cut!ClaimBlock, Cut!Carry, Cut!NoCarry, Cut!Compress, Cut!Done, Cut!callVars, Cut!vars
<1>1. CASE Cut!ClaimBlock
  <2>1. cutPc' = "done" \/ (cutPc' = "row" /\ cutBufferInAux' = 0)
    BY <1>1 DEF Cut!ClaimBlock
  <2> QED
    BY <1>0, <2>1 DEF BlockInv
<1>2. CASE Cut!Carry
  <2>1. /\ cutPc = "carry" /\ UNCHANGED <<cutBlockId, cutBufferInAux>>
        /\ cutPc' = "carry" \/ (cutPc' = "compress" /\ cutAuxDim = Last
                                /\ cutBcount[Last] = SizeOf(cutBlock)[Last])
    <3>1. cutAuxDim \in Nat /\ DataDims \in Nat
      <4>1. cutAuxDim \in Rows
        BY <1>2 DEF CutInv, CutRowInv, Odometer, Cut!Carry
      <4> QED
        BY <4>1, Numbers, BlockGeometryAssumption
    <3> QED
      BY <1>2, <3>1, CutReadings DEF Cut!Carry, Last
  <2>2. \A k : PlaceOf(cutBlock, k)' = PlaceOf(cutBlock, k)
    BY <1>0, <2>1 DEF PlaceOf, FirstOf, SizeOf, cutBlock
  <2>3. Volume(SizeOf(cutBlock))' = Volume(SizeOf(cutBlock))
    BY <1>0, <2>1 DEF FirstOf, SizeOf, cutBlock
  <2>4. CASE cutPc' = "carry"
    BY <1>0, <2>1, <2>2, <2>4 DEF BlockInv
  <2>5. CASE cutPc' # "carry"
    <3>1. cutBufferInAux = Volume(SizeOf(cutBlock))
      BY <2>1, <2>5, BlockComplete
    <3> QED
      BY <1>0, <2>1, <2>2, <2>3, <2>5, <3>1 DEF BlockInv
  <2> QED
    BY <2>4, <2>5
<1>3. CASE Cut!NoCarry
  <2>1. cutPc = "carry" /\ cutPc' = "row" /\ UNCHANGED <<cutBlockId, cutBufferInAux>>
    BY <1>3 DEF Cut!NoCarry, Cut!loopVars
  <2>2. \A k : PlaceOf(cutBlock, k)' = PlaceOf(cutBlock, k)
    BY <1>0, <2>1 DEF PlaceOf, FirstOf, SizeOf, cutBlock
  <2> QED
    BY <1>0, <2>1, <2>2 DEF BlockInv
<1>4. CASE Cut!Compress
  <2>1. cutPc' = "claim"
    BY <1>4 DEF Cut!Compress
  <2> QED
    BY <1>0, <2>1 DEF BlockInv
<1>5. CASE Cut!Done
  <2>1. cutPc' = "done"
    BY <1>5 DEF Cut!Done, Cut!vars
  <2> QED
    BY <1>0, <2>1 DEF BlockInv
<1> QED
  BY <1>1, <1>2, <1>3, <1>4, <1>5

\* The pixels of block b, as they are compressed.
PixelsOf(b) == [k \in 1 .. Volume(SizeOf(b)) |-> PlaceOf(b, k - 1)]

\* Block b is in the file.
IsCompressed(b) == b < cutBlock \/ (b = cutBlock /\ cutPc \in {"claim", "done"})

\* A block that is compressed is in the file, with its voxels.
LEMMA FileInvCompress ==
    ASSUME CallInv, CutInv, BlockInv, FileInv, Cut!Compress
    PROVE  FileInv'
<1>1. /\ cutPc = "compress" /\ cutPc' = "claim" /\ UNCHANGED <<xyzct, blockSize, cutBlockId>>
      /\ compressed' = [compressed EXCEPT ![cutBlock] =
                          [k \in 1 .. Volume(SizeOf(cutBlock)) |-> cutBufferIn[k - 1]]]
  BY CutReadings, CutOperators DEF Cut!Compress, Cut!callVars, cutBlock
<1>2. PICK num \in Nat : num = calculateNumBlocks(xyzct, blockSize)
  BY BlockGrid, BlockFacts DEF CallInv
<1>3. PICK c \in Nat : c = cutBlock /\ c < num
  BY <1>1, <1>2 DEF CutInv, cutBlock
<1>4. PICK n \in Nat : n = Volume(SizeOf(c))
  BY BlockFits
<1>5. \A k \in 1 .. n : cutBufferIn[k - 1] = PlaceOf(c, k - 1)
  <2> TAKE k \in 1 .. n
  <2>1. k - 1 \in 0 .. n - 1
    OBVIOUS
  <2> QED
    BY <1>1, <1>3, <1>4, <2>1 DEF BlockInv
<1>6. [k \in 1 .. n |-> cutBufferIn[k - 1]] = PixelsOf(c)
  BY <1>4, <1>5 DEF PixelsOf
<1>7. /\ DOMAIN compressed = 0 .. num - 1
      /\ compressed' = [compressed EXCEPT ![c] = PixelsOf(c)]
      /\ DOMAIN compressed' = 0 .. num - 1
  BY <1>1, <1>2, <1>3, <1>4, <1>6 DEF FileInv
<1>8. cutBlock' = c /\ \A b : PixelsOf(b)' = PixelsOf(b)
  BY <1>1, <1>3 DEF PixelsOf, PlaceOf, FirstOf, SizeOf, cutBlock
<1>9. \A b \in 0 .. num - 1 : b < c => compressed[b] = PixelsOf(b)
  BY <1>2, <1>3, <1>7 DEF FileInv, PixelsOf
<1>10. \A b \in 0 .. num - 1 : IsCompressed(b)' => compressed'[b] = PixelsOf(b)'
  <2> TAKE b \in 0 .. num - 1
  <2>1. CASE b = c
    BY <1>7, <1>8, <2>1
  <2>2. CASE b # c
    <3>1. IsCompressed(b)' => b < c
      BY <1>8, <2>2 DEF IsCompressed
    <3>2. compressed'[b] = compressed[b]
      BY <1>7, <2>2
    <3> QED
      BY <1>8, <1>9, <3>1, <3>2
  <2> QED
    BY <2>1, <2>2
<1>11. calculateNumBlocks(xyzct, blockSize)' = num
  BY <1>1, <1>2
<1> QED
  BY <1>7, <1>10, <1>11 DEF FileInv, IsCompressed, PixelsOf

\* Blocks that are in the file stay.
LEMMA FileInvOther ==
    ASSUME CallInv, CutInv, FileInv,
           Cut!ClaimBlock \/ Cut!CopyRow \/ Cut!Carry \/ Cut!NoCarry \/ Cut!Done
    PROVE  FileInv'
<1>1. UNCHANGED <<xyzct, blockSize, compressed>>
  BY DEF Cut!ClaimBlock, Cut!CopyRow, Cut!Carry, Cut!NoCarry, Cut!Done, Cut!callVars, Cut!vars
<1>2. cutBlockId \in Nat
  BY BlockGrid, BlockFacts DEF CutInv, CallInv
<1>3. ASSUME NEW b \in 0 .. calculateNumBlocks(xyzct, blockSize) - 1, IsCompressed(b)'
      PROVE  IsCompressed(b)
  <2>1. CASE Cut!ClaimBlock
    <3>1. cutPc = "claim" /\ ((cutPc' = "row" /\ cutBlockId' = cutBlockId + 1)
                              \/ (cutPc' = "done" /\ cutBlockId' = cutBlockId))
      BY <2>1 DEF Cut!ClaimBlock
    <3>2. b \in Int
      OBVIOUS
    <3> QED
      BY <1>2, <1>3, <3>1, <3>2 DEF IsCompressed, cutBlock
  <2>2. CASE Cut!CopyRow \/ Cut!Carry \/ Cut!NoCarry \/ Cut!Done
    <3>1. cutBlockId' = cutBlockId /\ (cutPc' \in {"claim", "done"} => cutPc = cutPc')
      BY <2>2 DEF Cut!CopyRow, Cut!Carry, Cut!NoCarry, Cut!Done, Cut!vars
    <3> QED
      BY <1>3, <3>1 DEF IsCompressed, cutBlock
  <2> QED
    BY <2>1, <2>2
<1>4. \A b : PixelsOf(b)' = PixelsOf(b)
  BY <1>1 DEF PixelsOf, PlaceOf, FirstOf, SizeOf
<1>5. \A b \in DOMAIN compressed : IsCompressed(b) => compressed[b] = PixelsOf(b)
  BY DEF FileInv, IsCompressed, PixelsOf
<1>6. /\ DOMAIN compressed' = DOMAIN compressed
      /\ DOMAIN compressed = 0 .. calculateNumBlocks(xyzct, blockSize) - 1
      /\ calculateNumBlocks(xyzct, blockSize)' = calculateNumBlocks(xyzct, blockSize)
  BY <1>1 DEF FileInv
<1>7. \A b \in DOMAIN compressed' : IsCompressed(b)' => compressed'[b] = PixelsOf(b)'
  BY <1>1, <1>3, <1>4, <1>5, <1>6
<1> QED
  BY <1>6, <1>7 DEF FileInv, IsCompressed, PixelsOf

\* It holds when a call begins,
LEMMA WriterInit ==
    ASSUME Cut!Init
    PROVE  WriterInv
<1>1. PICK n \in BlockSizes :
         blockSize = [ii \in Dims |-> IF n[ii] < xyzct[ii] THEN n[ii] ELSE xyzct[ii]]
  BY CutOperators DEF Cut!Init
<1>2. /\ xyzct \in ImageSizes /\ slices \in SliceModes /\ cutPc = "claim" /\ cutBlockId = 0
      /\ DOMAIN cutBufferIn = 0 .. Volume(blockSize) - 1
      /\ compressed = [b \in 0 .. calculateNumBlocks(xyzct, blockSize) - 1 |-> <<>>]
  BY CutOperators, CutReadings DEF Cut!Init
<1>3. CallInv
  <2>1. xyzct \in [Dims -> Nat \ {0}] /\ n \in [Dims -> Nat \ {0}]
    BY <1>2, BlockGeometryAssumption
  <2>2. blockSize \in [Dims -> Nat \ {0}]
    BY <1>1, <2>1
  <2> QED
    BY <1>2, <2>2, RoundTripAssumption DEF CallInv
<1>4. CutInv
  <2>1. calculateNumBlocks(xyzct, blockSize) \in Nat
    BY <1>3, BlockFacts, BlockGrid DEF CallInv
  <2> QED
    BY <1>2, <2>1 DEF CutInv
<1>5. BlockInv
  BY <1>2 DEF BlockInv
<1>6. FileInv
  <2>1. ASSUME NEW b \in DOMAIN compressed
        PROVE  ~ (b < cutBlock \/ b = cutBlock)
    <3>1. b \in Nat /\ cutBlock = -1
      BY <1>2 DEF cutBlock
    <3> QED
      BY <3>1
  <2> QED
    BY <1>2, <2>1 DEF FileInv
<1> QED
  BY <1>3, <1>4, <1>5, <1>6 DEF WriterInv

\* and after each step of the writer.
LEMMA WriterStep ==
    ASSUME WriterInv, Cut!Next
    PROVE  WriterInv'
<1>1. CallInv /\ CutInv /\ BlockInv /\ FileInv
  BY DEF WriterInv
<1>2. CallInv'
  BY <1>1, CallStays
<1>3. CutInv'
  BY <1>1, CutInvClaim, CutInvRow, CutInvCarry, CutInvOther DEF Cut!Next
<1>4. BlockInv'
  BY <1>1, BlockInvRow, BlockInvOther DEF Cut!Next
<1>5. FileInv'
  BY <1>1, FileInvCompress, FileInvOther DEF Cut!Next
<1> QED
  BY <1>2, <1>3, <1>4, <1>5 DEF WriterInv

\* The definitions of what a block should hold are those of BlockGeometry, too.
LEMMA CutBoxOperators ==
    /\ \A lb, ub : Cut!Box(lb, ub) = Box(lb, ub)
    /\ \A p, x, n : Cut!BlockOf(p, x, n) = BlockOf(p, x, n)
    /\ \A p, n : Cut!FirstVoxel(p, n) = FirstVoxel(p, n)
    /\ \A p, lb, s : Cut!Place(p, lb, s) = Place(p, lb, s)
<1>1. \A x, n : Cut!dimsBlock(x, n) = dimsBlock(x, n)
  BY CutOperators DEF Cut!dimsBlock, dimsBlock
<1>2. \A lb, ub : Cut!Box(lb, ub) = Box(lb, ub)
  BY CutOperators DEF Cut!Box, Box
<1>3. \A p, x, n : Cut!BlockOf(p, x, n) = BlockOf(p, x, n)
  BY <1>1, CutOperators DEF Cut!BlockOf, BlockOf
<1>4. \A p, n : Cut!FirstVoxel(p, n) = FirstVoxel(p, n)
  BY CutOperators DEF Cut!FirstVoxel, FirstVoxel
<1>5. \A p, lb, s : Cut!Place(p, lb, s) = Place(p, lb, s)
  BY CutOperators DEF Cut!Place, Place
<1> QED
  BY <1>2, <1>3, <1>4, <1>5

\* What the writer leaves in the file, block by block.
LEMMA FileComplete ==
    ASSUME WriterInv, cutPc = "done", NEW b \in 0 .. calculateNumBlocks(xyzct, blockSize) - 1
    PROVE  compressed[b] = PixelsOf(b)
<1>1. PICK num \in Nat : num = calculateNumBlocks(xyzct, blockSize) /\ cutBlockId = num
  <2>1. calculateNumBlocks(xyzct, blockSize) \in Nat
    BY BlockFacts, BlockGrid DEF WriterInv, CallInv
  <2> QED
    BY <2>1 DEF WriterInv, CutInv
<1>2. b < cutBlock \/ b = cutBlock
  BY <1>1 DEF cutBlock
<1> QED
  BY <1>2 DEF WriterInv, FileInv, PixelsOf

\* Where voxel p is, in its block.
LEMMA VoxelInBlock ==
    ASSUME CallInv, NEW p \in [Dims -> Nat], \A ii \in Dims : p[ii] < xyzct[ii]
    PROVE  LET b == BlockOf(p, xyzct, blockSize)
               v == [ii \in Dims |-> p[ii] - FirstOf(b)[ii]]
           IN  /\ b \in 0 .. calculateNumBlocks(xyzct, blockSize) - 1
               /\ FirstOf(b) = FirstVoxel(p, blockSize)
               /\ SizeOf(b) = blockSizeAux(FirstVoxel(p, blockSize), xyzct, blockSize)
               /\ v \in [Dims -> Nat]
               /\ \A ii \in Dims : /\ v[ii] < SizeOf(b)[ii]
                                   /\ p[ii] = FirstOf(b)[ii] + v[ii]
               /\ Offset(v, Cum(SizeOf(b))) \in Nat
               /\ Offset(v, Cum(SizeOf(b))) < Volume(SizeOf(b))
               /\ PlaceOf(b, Offset(v, Cum(SizeOf(b)))) = Offset(p, Cum(xyzct))
<1>1. PICK x \in [Dims -> Nat \ {0}], n \in [Dims -> Nat \ {0}] : x = xyzct /\ n = blockSize
  BY BlockGeometryAssumption DEF CallInv
<1> DEFINE b == BlockOf(p, xyzct, blockSize)
           v == [ii \in Dims |-> p[ii] - FirstOf(b)[ii]]
<1>2. /\ b \in 0 .. calculateNumBlocks(x, n) - 1
      /\ coordBlock(b, x, n) = FirstVoxel(p, n)
      /\ \A ii \in Dims : /\ FirstVoxel(p, n)[ii] <= p[ii]
                          /\ p[ii] < FirstVoxel(p, n)[ii] + blockSizeAux(FirstVoxel(p, n), x, n)[ii]
  BY <1>1, BlockOfVoxel
<1> HIDE DEF b
<1>3. FirstOf(b) = FirstVoxel(p, n) /\ SizeOf(b) = blockSizeAux(FirstVoxel(p, n), x, n)
  BY <1>1, <1>2 DEF FirstOf, SizeOf
<1>4. b \in Nat
  BY <1>2
<1>5. PICK f \in [Dims -> Nat], s \in [Dims -> Nat \ {0}] : f = FirstOf(b) /\ s = SizeOf(b)
  BY <1>4, BlockFacts
<1>6. ASSUME NEW ii \in Dims
      PROVE  v[ii] \in Nat /\ v[ii] < s[ii] /\ p[ii] = f[ii] + v[ii]
  <2>1. f[ii] <= p[ii] /\ p[ii] < f[ii] + s[ii]
    BY <1>2, <1>3, <1>5
  <2> QED
    BY <1>5, <2>1
<1>7. v \in [Dims -> Nat]
  BY <1>6
<1> HIDE DEF v
<1>8. Offset(v, Cum(s)) \in Nat /\ Offset(v, Cum(s)) < Volume(s) /\ Digits(Offset(v, Cum(s)), s) = v
  BY <1>6, <1>7, OffsetInside, PlaceHasDigits
<1>9. [ii \in Dims |-> f[ii] + v[ii]] = p
  BY <1>6
<1>10. PlaceOf(b, Offset(v, Cum(s))) = Offset(p, Cum(xyzct))
  BY <1>5, <1>8, <1>9 DEF PlaceOf
<1> QED
  BY <1>1, <1>2, <1>3, <1>5, <1>6, <1>7, <1>8, <1>10 DEF b, v

\* The file holds each voxel in the place where the definition of a block puts it.
LEMMA PartitionHolds ==
    ASSUME WriterInv
    PROVE  Cut!BlocksPartitionImage
<1> DEFINE last == [ii \in Dims |-> xyzct[ii] - 1]
<1> SUFFICES ASSUME cutPc = "done", NEW p \in Box(Zero, last)
             PROVE  LET b     == BlockOf(p, xyzct, blockSize)
                        first == FirstVoxel(p, blockSize)
                        n     == blockSizeAux(first, xyzct, blockSize)
                    IN  /\ Len(compressed[b]) = Volume(n)
                        /\ compressed[b][Place(p, first, n) + 1] = Place(p, Zero, xyzct)
  BY CutOperators, CutBoxOperators DEF Cut!BlocksPartitionImage, Zero
<1>1. CallInv
  BY DEF WriterInv
<1>2. \A ii \in Dims : xyzct[ii] \in Nat \ {0}
  BY <1>1, BlockFacts
<1>3. p \in [Dims -> Nat] /\ \A ii \in Dims : p[ii] < xyzct[ii]
  <2>1. \A ii \in Dims : last[ii] \in Nat
    BY <1>2
  <2>2. p \in [Dims -> Nat] /\ \A ii \in Dims : Zero[ii] <= p[ii] /\ p[ii] <= last[ii]
    BY <2>1, BoxVoxels
  <2> QED
    BY <1>2, <2>2
<1> DEFINE b == BlockOf(p, xyzct, blockSize)
           v == [ii \in Dims |-> p[ii] - FirstOf(b)[ii]]
           k == Offset(v, Cum(SizeOf(b)))
<1>4. /\ b \in 0 .. calculateNumBlocks(xyzct, blockSize) - 1
      /\ FirstOf(b) = FirstVoxel(p, blockSize)
      /\ SizeOf(b) = blockSizeAux(FirstVoxel(p, blockSize), xyzct, blockSize)
      /\ k \in Nat /\ k < Volume(SizeOf(b))
      /\ PlaceOf(b, k) = Offset(p, Cum(xyzct))
  BY <1>1, <1>3, VoxelInBlock
<1>5. Place(p, FirstOf(b), SizeOf(b)) = k
  BY DEF Place
<1> HIDE DEF b, v, k
<1>6. compressed[b] = PixelsOf(b)
  BY <1>4, FileComplete
<1>7. Volume(SizeOf(b)) \in Nat
  BY <1>1, <1>4, BlockFits
<1>8. Len(PixelsOf(b)) = Volume(SizeOf(b)) /\ PixelsOf(b)[k + 1] = PlaceOf(b, k)
  <2>1. PICK n \in Nat : n = Volume(SizeOf(b))
    BY <1>7
  <2>2. k + 1 \in 1 .. n /\ (k + 1) - 1 = k
    BY <1>4, <2>1
  <2> QED
    BY <2>1, <2>2 DEF PixelsOf
<1>9. Place(p, Zero, xyzct) = Offset(p, Cum(xyzct))
  <2>1. [ii \in Dims |-> p[ii] - Zero[ii]] = p
    BY <1>3 DEF Zero
  <2> QED
    BY <2>1 DEF Place
<1> QED
  BY <1>4, <1>5, <1>6, <1>8, <1>9 DEF b

\* No row that is read leaves the image, its slice or the buffer for a block.
LEMMA CutRowsHold ==
    ASSUME WriterInv
    PROVE  Cut!RowsInBounds
<1>1. CallInv /\ CutInv
  BY DEF WriterInv
<1> SUFFICES ASSUME cutPc = "row"
             PROVE  /\ cutOffsetBuffer + SizeOf(cutBlock)[0] <= Volume(xyzct)
                    /\ slices => /\ Cut!offsetZ < xyzct[2]
                                 /\ Cut!offsetSlice + SizeOf(cutBlock)[0] <= Cut!sliceSize
                    /\ cutBufferInAux + SizeOf(cutBlock)[0] <= Volume(blockSize)
  BY CutReadings, CutOperators DEF Cut!RowsInBounds
<1>2. PICK b \in Nat : b = cutBlock
  BY <1>1 DEF CutInv, cutBlock
<1>3. PICK n \in Nat \ {0}, x \in [Dims -> Nat \ {0}] : n = SizeOf(b)[0] /\ x = xyzct
  BY <1>1, <1>2, BlockFacts, Numbers
<1>4. PICK j \in Nat : j = n - 1 /\ j < n /\ 0 < n
  OBVIOUS
<1>5. PICK o \in Nat, a \in Nat : o = cutOffsetBuffer /\ a = cutBufferInAux
  BY <1>1, <1>2, <1>3, <1>4, RowOfBlock
<1>6. o + j < Volume(x) /\ a + j < Volume(SizeOf(b))
  BY <1>1, <1>2, <1>3, <1>4, <1>5, RowOfBlock
<1>7. Volume(x) \in Nat \ {0}
  BY CumPositive
<1>8. o + n <= Volume(x)
  BY <1>4, <1>6, <1>7
<1>9. a + n <= Volume(blockSize)
  <2>1. Volume(SizeOf(b)) \in Nat \ {0} /\ Volume(blockSize) \in Nat /\ Volume(SizeOf(b)) <= Volume(blockSize)
    BY <1>1, BlockFits
  <2> QED
    BY <1>4, <1>6, <2>1
<1>10. ASSUME slices
       PROVE  Cut!offsetZ < x[2] /\ Cut!offsetSlice + n <= Cut!sliceSize
  <2>1. DataDims = 3
    BY <1>1, <1>10 DEF CallInv
  <2>2. 0 \in Dims /\ 1 \in Dims /\ 2 \in Dims
    BY <2>1 DEF Dims
  <2>3. PICK q0 \in [Dims -> Nat] : IsVoxelOfRow(q0, 0)
    BY <1>1, <1>2, <1>3, RowOfBlock
  <2>4. PICK q \in [Dims -> Nat] : IsVoxelOfRow(q, j)
    BY <1>1, <1>2, <1>3, <1>4, RowOfBlock
  <2>5. PICK m \in Nat \ {0} : m = x[0] * x[1]
    BY <2>2, Positive
  <2>6. PICK z \in Nat : z = q0[2]
    BY <2>2
  <2>7. q[2] = z
    BY <2>2, <2>3, <2>4, <2>6 DEF IsVoxelOfRow
  <2>8. o \div m = z /\ z < x[2]
    <3>1. Offset(q0, Cum(x)) = o
      BY <1>3, <1>5, <2>3 DEF IsVoxelOfRow
    <3>2. \A ii \in Dims : q0[ii] < x[ii]
      BY <1>3, <2>3 DEF IsVoxelOfRow
    <3> QED
      BY <2>1, <2>5, <2>6, <3>1, <3>2, SliceOf
  <2>9. o + j - z * m < m
    <3>1. Offset(q, Cum(x)) = o + j
      BY <1>3, <1>5, <2>4 DEF IsVoxelOfRow
    <3>2. \A ii \in Dims : q[ii] < x[ii]
      BY <1>3, <2>4 DEF IsVoxelOfRow
    <3> QED
      BY <2>1, <2>5, <2>7, <3>1, <3>2, SliceOf
  <2>10. Cut!sliceSize = m /\ Cut!offsetZ = z /\ Cut!offsetSlice = o - z * m
    BY <1>3, <1>5, <2>5, <2>8 DEF Cut!sliceSize, Cut!offsetZ, Cut!offsetSlice
  <2>11. z * m \in Nat
    OBVIOUS
  <2> QED
    BY <1>4, <2>8, <2>9, <2>10, <2>11
<1> QED
  BY <1>2, <1>3, <1>5, <1>8, <1>9, <1>10

-----------------------------------------------------------------------------
\* What the reader computes with.
LEMMA PasteReadings ==
    /\ Paste!coord = FirstOf(pasteBlock)
    /\ Paste!size = SizeOf(pasteBlock)
    /\ Paste!bLB = Lower(pasteBlock)
    /\ Paste!bUB = Upper(pasteBlock)
    /\ Paste!NumBlocks = calculateNumBlocks(xyzct, blockSize)
    /\ Paste!OutSize = Out
    /\ Paste!xyzctCum = Cum(Out)
    /\ Paste!blockSizeAuxCum = Cum(SizeOf(pasteBlock))
    /\ Paste!copySize = [ii \in Dims |-> Upper(pasteBlock)[ii] - Lower(pasteBlock)[ii]]
    /\ Paste!intersect <=> (full \/ Meets(pasteBlock))
    /\ Paste!Origin = Zero
<1>1. Paste!coord = FirstOf(pasteBlock)
  BY PasteOperators DEF Paste!coord, FirstOf, pasteBlock
<1>2. Paste!size = SizeOf(pasteBlock)
  BY <1>1, PasteOperators DEF Paste!size, SizeOf
<1>3. Paste!bLB = Lower(pasteBlock)
  BY <1>1, PasteOperators DEF Paste!bLB, Lower
<1>4. Paste!bUB = Upper(pasteBlock)
  BY <1>1, <1>2, PasteOperators DEF Paste!bUB, Upper
<1>5. Paste!OutSize = Out
  BY PasteOperators DEF Paste!OutSize, Out
<1>6. Paste!NumBlocks = calculateNumBlocks(xyzct, blockSize)
  BY PasteOperators DEF Paste!NumBlocks
<1>7. Paste!xyzctCum = Cum(Out)
  BY <1>5, PasteOperators DEF Paste!xyzctCum
<1>8. Paste!blockSizeAuxCum = Cum(SizeOf(pasteBlock))
  BY <1>2, PasteOperators DEF Paste!blockSizeAuxCum
<1>9. Paste!copySize = [ii \in Dims |-> Upper(pasteBlock)[ii] - Lower(pasteBlock)[ii]]
  BY <1>3, <1>4, PasteOperators DEF Paste!copySize
<1>10. Paste!intersect <=> (full \/ Meets(pasteBlock))
  BY <1>1, PasteOperators DEF Paste!intersect, Meets
<1>11. Paste!Origin = Zero
  BY PasteOperators DEF Paste!Origin, Zero
<1> QED
  BY <1>1, <1>2, <1>3, <1>4, <1>5, <1>6, <1>7, <1>8, <1>9, <1>10, <1>11

\* A region holds at least one voxel.
LEMMA RegionFacts ==
    ASSUME RegionInv
    PROVE  /\ Out \in [Dims -> Nat \ {0}]
           /\ Cum(Out) \in [Dims -> Int]
           /\ Volume(Out) \in Nat \ {0}
           /\ \A ii \in Dims : Out[ii] = ROI.UB[ii] - ROI.LB[ii] + 1
<1>1. Out = [ii \in Dims |-> ROI.UB[ii] - ROI.LB[ii] + 1]
  BY DEF Out, getSizePixels
<1>2. ASSUME NEW ii \in Dims
      PROVE  ROI.UB[ii] - ROI.LB[ii] + 1 \in Nat \ {0}
  BY DEF RegionInv
<1>3. PICK o \in [Dims -> Nat \ {0}] : o = Out
  BY <1>1, <1>2
<1>4. Cum(o) \in [Dims -> Nat \ {0}] /\ Volume(o) \in Nat \ {0}
  BY CumPositive
<1>5. Cum(o) \in [Dims -> Int]
  BY <1>4
<1> QED
  BY <1>1, <1>3, <1>4, <1>5

\* One dimension of a block that meets the region.
LEMMA Situated ==
    ASSUME CallInv, RegionInv, NEW b \in Nat, NEW ii \in Dims
    PROVE  /\ Situation(FirstOf(b)[ii], blockSize[ii], xyzct[ii], ROI.LB[ii], ROI.UB[ii])
           /\ SizeOf(b)[ii] = BorderSize(FirstOf(b)[ii], blockSize[ii], xyzct[ii])
           /\ FirstOf(b)[ii] \in Nat /\ SizeOf(b)[ii] \in Nat \ {0}
<1>1. /\ FirstOf(b)[ii] \in Nat /\ SizeOf(b)[ii] \in Nat \ {0} /\ xyzct[ii] \in Nat
      /\ FirstOf(b)[ii] < xyzct[ii]
      /\ SizeOf(b)[ii] = BorderSize(FirstOf(b)[ii], blockSize[ii], xyzct[ii])
  BY BlockFacts
<1>2. blockSize[ii] \in Nat \ {0}
  BY DEF CallInv
<1>3. ROI.LB[ii] \in Nat /\ ROI.UB[ii] \in Nat /\ ROI.LB[ii] <= ROI.UB[ii] /\ ROI.LB[ii] < xyzct[ii]
  BY DEF RegionInv
<1> QED
  BY <1>1, <1>2, <1>3 DEF Situation

\* The part of a block that lies in the region.
LEMMA PartOfBlock ==
    ASSUME CallInv, RegionInv, NEW b \in Nat, Meets(b)
    PROVE  /\ Lower(b) \in [Dims -> Nat] /\ Upper(b) \in [Dims -> Nat]
           /\ Shift(b) \in [Dims -> Int]
           /\ \A ii \in Dims : Lower(b)[ii] < Upper(b)[ii] /\ Upper(b)[ii] <= SizeOf(b)[ii]
           /\ \A ii \in Dims : \A v \in Nat :
                 v < SizeOf(b)[ii] =>
                    (Lower(b)[ii] <= v /\ v < Upper(b)[ii]
                     <=> ROI.LB[ii] <= FirstOf(b)[ii] + v /\ FirstOf(b)[ii] + v <= ROI.UB[ii])
<1>1. ASSUME NEW ii \in Dims
      PROVE  /\ Lower(b)[ii] \in Nat /\ Upper(b)[ii] \in Nat
             /\ Lower(b)[ii] < Upper(b)[ii] /\ Upper(b)[ii] <= SizeOf(b)[ii]
             /\ Shift(b)[ii] \in Int
             /\ \A v \in Nat :
                   v < SizeOf(b)[ii] =>
                      (Lower(b)[ii] <= v /\ v < Upper(b)[ii]
                       <=> ROI.LB[ii] <= FirstOf(b)[ii] + v /\ FirstOf(b)[ii] + v <= ROI.UB[ii])
  <2>1. PICK c, s, n, total, lb, ub :
           /\ c \in Nat /\ s \in Nat \ {0}
           /\ c = FirstOf(b)[ii] /\ s = SizeOf(b)[ii] /\ n = blockSize[ii] /\ total = xyzct[ii]
           /\ lb = ROI.LB[ii] /\ ub = ROI.UB[ii]
           /\ Situation(c, n, total, lb, ub)
           /\ s = BorderSize(c, n, total)
    BY Situated
  <2>2. Intersects(c, n, lb, ub)
    BY <2>1 DEF Meets
  <2>3. PICK low, up :
           /\ low = LowerBound(c, lb) /\ up = UpperBound(c, s, ub)
           /\ low \in Nat /\ up \in Nat /\ low < up /\ up <= s
           /\ \A x \in Int : (c + low <= x /\ x < c + up)
                             <=> (c <= x /\ x < c + s /\ lb <= x /\ x <= ub)
    BY <2>1, <2>2, IntersectionBounds
  <2>4. Lower(b)[ii] = low /\ Upper(b)[ii] = up
    BY <2>1, <2>3 DEF Lower, Upper
  <2>5. ASSUME NEW v \in Nat, v < s
        PROVE  low <= v /\ v < up <=> lb <= c + v /\ c + v <= ub
    <3>1. c + v \in Int /\ (c + low <= c + v <=> low <= v) /\ (c + v < c + up <=> v < up)
          /\ c <= c + v /\ c + v < c + s
      BY <2>1, <2>3, <2>5
    <3> QED
      BY <2>1, <2>3, <3>1
  <2>6. Shift(b)[ii] \in Int
    BY <2>1 DEF Shift, Situation
  <2> QED
    BY <2>1, <2>3, <2>4, <2>5, <2>6
<1>2. Lower(b) \in [Dims -> Nat] /\ Upper(b) \in [Dims -> Nat] /\ Shift(b) \in [Dims -> Int]
  <2>1. /\ Lower(b) = [ii \in Dims |-> Lower(b)[ii]]
        /\ Upper(b) = [ii \in Dims |-> Upper(b)[ii]]
        /\ Shift(b) = [ii \in Dims |-> Shift(b)[ii]]
    BY DEF Lower, Upper, Shift
  <2> QED
    BY <1>1, <2>1
<1> QED
  BY <1>1, <1>2

\* A block that holds a voxel of the region meets it.
LEMMA VoxelMeets ==
    ASSUME CallInv, RegionInv, NEW b \in Nat, NEW p \in [Dims -> Nat],
           \A ii \in Dims : /\ FirstOf(b)[ii] <= p[ii] /\ p[ii] < FirstOf(b)[ii] + SizeOf(b)[ii]
                            /\ ROI.LB[ii] <= p[ii] /\ p[ii] <= ROI.UB[ii]
    PROVE  Meets(b)
<1>1. ASSUME NEW ii \in Dims
      PROVE  Intersects(FirstOf(b)[ii], blockSize[ii], ROI.LB[ii], ROI.UB[ii])
  <2>1. PICK c, s, n, total, lb, ub :
           /\ c = FirstOf(b)[ii] /\ s = SizeOf(b)[ii] /\ n = blockSize[ii] /\ total = xyzct[ii]
           /\ lb = ROI.LB[ii] /\ ub = ROI.UB[ii]
           /\ Situation(c, n, total, lb, ub)
           /\ s = BorderSize(c, n, total)
    BY Situated
  <2>2. p[ii] \in Int /\ c <= p[ii] /\ p[ii] < c + BorderSize(c, n, total) /\ lb <= p[ii] /\ p[ii] <= ub
    <3>1. c <= p[ii] /\ p[ii] < c + s /\ lb <= p[ii] /\ p[ii] <= ub
      <4>1. /\ FirstOf(b)[ii] <= p[ii] /\ p[ii] < FirstOf(b)[ii] + SizeOf(b)[ii]
            /\ ROI.LB[ii] <= p[ii] /\ p[ii] <= ROI.UB[ii]
        OBVIOUS
      <4> QED
        BY <2>1, <4>1
    <3> QED
      BY <2>1, <3>1
  <2>3. Intersects(c, n, lb, ub)
    <3>1. \E x \in Int : c <= x /\ x < c + BorderSize(c, n, total) /\ lb <= x /\ x <= ub
      BY <2>2
    <3> QED
      BY <2>1, <3>1, IntersectionTest
  <2> QED
    BY <2>1, <2>3
<1> QED
  BY <1>1 DEF Meets

\* The voxel at place k of the caller's buffer.
LEMMA VoxelOfRegion ==
    ASSUME RegionInv, NEW k \in 0 .. Volume(Out) - 1
    PROVE  /\ Voxel(k) \in [Dims -> Nat]
           /\ \A ii \in Dims : ROI.LB[ii] <= Voxel(k)[ii] /\ Voxel(k)[ii] <= ROI.UB[ii]
           /\ Place(Voxel(k), ROI.LB, Out) = k
<1>1. PICK o \in [Dims -> Nat \ {0}] :
         /\ o = Out /\ Volume(o) \in Nat \ {0}
         /\ \A ii \in Dims : o[ii] = ROI.UB[ii] - ROI.LB[ii] + 1
  BY RegionFacts
<1>2. k \in Nat /\ k < Volume(o)
  BY <1>1
<1>3. PICK v \in [Dims -> Nat] : v = Digits(k, o) /\ \A ii \in Dims : v[ii] < o[ii]
  BY <1>2, DigitsAreInside
<1>4. Voxel(k) = [ii \in Dims |-> ROI.LB[ii] + v[ii]]
  BY <1>1, <1>3 DEF Voxel, VoxelAt, Digits
<1>5. ASSUME NEW ii \in Dims
      PROVE  /\ Voxel(k)[ii] \in Nat
             /\ ROI.LB[ii] <= Voxel(k)[ii] /\ Voxel(k)[ii] <= ROI.UB[ii]
             /\ Voxel(k)[ii] - ROI.LB[ii] = v[ii]
  <2>1. Voxel(k)[ii] = ROI.LB[ii] + v[ii]
    BY <1>4
  <2>2. v[ii] \in Nat /\ v[ii] < o[ii] /\ o[ii] = ROI.UB[ii] - ROI.LB[ii] + 1
    BY <1>1, <1>3
  <2> QED
    BY <2>1, <2>2 DEF RegionInv
<1>6. Voxel(k) \in [Dims -> Nat]
  BY <1>4, <1>5
<1>7. [ii \in Dims |-> Voxel(k)[ii] - ROI.LB[ii]] = v
  BY <1>5
<1>8. Place(Voxel(k), ROI.LB, Out) = k
  BY <1>1, <1>2, <1>3, <1>7, DigitsHavePlace DEF Place
<1> QED
  BY <1>5, <1>6, <1>8

\* And the place of a voxel of the region.
LEMMA PlaceInRegion ==
    ASSUME RegionInv, NEW p \in [Dims -> Nat],
           \A ii \in Dims : ROI.LB[ii] <= p[ii] /\ p[ii] <= ROI.UB[ii]
    PROVE  /\ Place(p, ROI.LB, Out) \in 0 .. Volume(Out) - 1
           /\ Voxel(Place(p, ROI.LB, Out)) = p
<1>1. PICK o \in [Dims -> Nat \ {0}] :
         /\ o = Out /\ Volume(o) \in Nat \ {0}
         /\ \A ii \in Dims : o[ii] = ROI.UB[ii] - ROI.LB[ii] + 1
  BY RegionFacts
<1> DEFINE w == [ii \in Dims |-> p[ii] - ROI.LB[ii]]
<1>a. ASSUME NEW ii \in Dims
      PROVE  w[ii] \in Nat /\ w[ii] < o[ii]
  BY <1>1 DEF RegionInv
<1>2. PICK v \in [Dims -> Nat] : v = w /\ \A ii \in Dims : v[ii] < o[ii]
  BY <1>a
<1>3. PICK k \in Nat : k = Offset(v, Cum(o)) /\ k < Volume(o) /\ Digits(k, o) = v
  BY <1>2, OffsetInside, PlaceHasDigits
<1>4. Place(p, ROI.LB, Out) = k
  BY <1>1, <1>2, <1>3 DEF Place
<1>5. Voxel(k) = [ii \in Dims |-> ROI.LB[ii] + v[ii]]
  BY <1>1, <1>3 DEF Voxel, VoxelAt, Digits
<1>6. Voxel(k) = p
  BY <1>2, <1>5 DEF RegionInv
<1> QED
  BY <1>1, <1>3, <1>4, <1>6

\* Every block meets the region that is the whole image, with all its pixels.
LEMMA FullMeets ==
    ASSUME CallInv, RegionInv, full, NEW b \in Nat
    PROVE  Meets(b) /\ \A ii \in Dims : Lower(b)[ii] = 0 /\ Upper(b)[ii] = SizeOf(b)[ii]
<1>1. ROI = defineFullImage(xyzct)
  BY DEF RegionInv
<1>2. ASSUME NEW ii \in Dims
      PROVE  /\ Intersects(FirstOf(b)[ii], blockSize[ii], ROI.LB[ii], ROI.UB[ii])
             /\ Lower(b)[ii] = 0 /\ Upper(b)[ii] = SizeOf(b)[ii]
  <2>1. ROI.LB[ii] = 0 /\ ROI.UB[ii] = xyzct[ii] - 1
    BY <1>1 DEF defineFullImage
  <2>2. PICK c \in Nat, s \in Nat \ {0}, x \in Nat \ {0}, n \in Nat \ {0} :
           /\ c = FirstOf(b)[ii] /\ s = SizeOf(b)[ii] /\ x = xyzct[ii] /\ n = blockSize[ii]
           /\ c < x /\ c + s <= x
    <3>1. blockSize[ii] \in Nat \ {0}
      BY DEF CallInv
    <3>2. /\ FirstOf(b)[ii] \in Nat /\ SizeOf(b)[ii] \in Nat \ {0} /\ xyzct[ii] \in Nat \ {0}
          /\ FirstOf(b)[ii] < xyzct[ii] /\ FirstOf(b)[ii] + SizeOf(b)[ii] <= xyzct[ii]
      BY BlockFacts
    <3> QED
      BY <3>1, <3>2
  <2>3. Intersects(c, n, 0, x - 1) /\ LowerBound(c, 0) = 0 /\ UpperBound(c, s, x - 1) = s
    BY <2>2 DEF Intersects, LowerBound, UpperBound
  <2> QED
    BY <2>1, <2>2, <2>3 DEF Lower, Upper
<1> QED
  BY <1>2 DEF Meets

\* Claiming a block keeps the order of the reader.
LEMMA PasteInvClaim ==
    ASSUME CallInv, PasteInv, cutPc = "done", Paste!ClaimBlock,
           UNCHANGED <<xyzct, blockSize, cutPc>>
    PROVE  PasteInv'
<1>1. PICK num \in Nat : num = calculateNumBlocks(xyzct, blockSize)
  BY BlockFacts, BlockGrid DEF CallInv
<1>2. blockId \in Nat /\ blockId <= num
  BY <1>1 DEF PasteInv
<1>3. \/ blockId < num /\ blockId' = blockId + 1 /\ pc' = "intersect"
      \/ ~ (blockId < num) /\ blockId' = blockId /\ pc' = "done"
  BY <1>1, PasteReadings DEF Paste!ClaimBlock
<1> QED
  BY <1>1, <1>2, <1>3 DEF PasteInv

\* A block that meets the region: the odometer is set to the first row of its part of
\* the region, and the three offsets to that row.
LEMMA PasteInvUncompress ==
    ASSUME CallInv, RegionInv, PasteInv, Paste!Uncompress,
           UNCHANGED <<xyzct, blockSize, cutPc>>
    PROVE  PasteInv'
<1>1. /\ pc = "intersect" /\ pc' = "row" /\ UNCHANGED <<blockId, ROI, full>>
      /\ full \/ Meets(pasteBlock)
      /\ bcount' = Lower(pasteBlock) /\ auxDim' = 1
      /\ offsetBuffer' = Offset([ii \in Dims |-> FirstOf(pasteBlock)[ii] + Lower(pasteBlock)[ii] - ROI.LB[ii]],
                                Cum(Out))
      /\ offsetBufferBlock' = Offset(Lower(pasteBlock), Cum(SizeOf(pasteBlock)))
      /\ bufferInAux' = offsetBufferBlock'
  BY PasteReadings, PasteOperators DEF Paste!Uncompress, Paste!callVars
<1>2. PICK b \in Nat : b = pasteBlock
  BY <1>1 DEF PasteInv, pasteBlock
<1>3. Meets(b)
  BY <1>1, <1>2, FullMeets
<1>4. /\ Lower(b) \in [Dims -> Nat] /\ Upper(b) \in [Dims -> Nat]
      /\ \A ii \in Dims : Lower(b)[ii] < Upper(b)[ii]
  BY <1>3, PartOfBlock
<1>5. /\ pasteBlock' = b /\ Meets(b)' = Meets(b) /\ FirstOf(b)' = FirstOf(b) /\ SizeOf(b)' = SizeOf(b)
      /\ Lower(b)' = Lower(b) /\ Upper(b)' = Upper(b) /\ Shift(b)' = Shift(b) /\ Out' = Out
  BY <1>1, <1>2 DEF pasteBlock, Meets, Lower, Upper, Shift, FirstOf, SizeOf, Out
<1>6. Odometer(Lower(b), 1, FALSE, Lower(b), Upper(b))
  <2>1. \A ii \in Rows : ii \in Dims
    BY Numbers
  <2>2. \A ii \in Rows : Lower(b)[ii] <= Lower(b)[ii] /\ Lower(b)[ii] < Upper(b)[ii]
    BY <1>4, <2>1
  <2> QED
    BY <1>4, <2>2, Numbers DEF Odometer
<1>7. [ii \in Dims |-> FirstOf(b)[ii] + Lower(b)[ii] - ROI.LB[ii]] = Plus(Shift(b), Lower(b))
  <2>1. ASSUME NEW ii \in Dims
        PROVE  FirstOf(b)[ii] + Lower(b)[ii] - ROI.LB[ii] = Shift(b)[ii] + Lower(b)[ii]
    <3>1. FirstOf(b)[ii] \in Int /\ Lower(b)[ii] \in Int /\ ROI.LB[ii] \in Int
      BY <1>4, BlockFacts DEF RegionInv
    <3> QED
      BY <3>1 DEF Shift
  <2> QED
    BY <2>1 DEF Plus
<1>8. PasteRowInv'
  <2>1. Odometer(bcount, auxDim, pc = "carry", Lower(pasteBlock), Upper(pasteBlock))'
    BY <1>1, <1>2, <1>5, <1>6 DEF Odometer
  <2>2. (offsetBuffer = Offset(Plus(Shift(pasteBlock), bcount), Cum(Out)))'
    BY <1>1, <1>2, <1>5, <1>7
  <2>3. (offsetBufferBlock = Offset(bcount, Cum(SizeOf(pasteBlock))))'
    BY <1>1, <1>2, <1>5
  <2> QED
    BY <1>1, <1>2, <1>3, <1>5, <2>1, <2>2, <2>3 DEF PasteRowInv
<1> QED
  BY <1>1, <1>8 DEF PasteInv

\* The numbers of the block that is being pasted.
LEMMA PasteFacts ==
    ASSUME CallInv, RegionInv, PasteInv, pc \in {"row", "carry"}
    PROVE  /\ pasteBlock \in Nat /\ PasteRowInv /\ Meets(pasteBlock)
           /\ bcount \in [Dims -> Nat]
           /\ SizeOf(pasteBlock) \in [Dims -> Nat \ {0}]
           /\ Cum(SizeOf(pasteBlock)) \in [Dims -> Int]
           /\ Cum(Out) \in [Dims -> Int]
           /\ Shift(pasteBlock) \in [Dims -> Int]
           /\ Lower(pasteBlock) \in [Dims -> Nat] /\ Upper(pasteBlock) \in [Dims -> Nat]
           /\ \A ii \in Dims : /\ Lower(pasteBlock)[ii] < Upper(pasteBlock)[ii]
                               /\ Upper(pasteBlock)[ii] <= SizeOf(pasteBlock)[ii]
<1>1. PasteRowInv /\ blockId # 0 /\ blockId \in 0 .. calculateNumBlocks(xyzct, blockSize)
  BY DEF PasteInv
<1>2. PICK b \in Nat : b = pasteBlock
  BY <1>1 DEF pasteBlock
<1>3. Meets(b) /\ bcount \in [Dims -> Nat]
  BY <1>1, <1>2 DEF PasteRowInv, Odometer
<1>4. /\ Lower(b) \in [Dims -> Nat] /\ Upper(b) \in [Dims -> Nat] /\ Shift(b) \in [Dims -> Int]
      /\ \A ii \in Dims : Lower(b)[ii] < Upper(b)[ii] /\ Upper(b)[ii] <= SizeOf(b)[ii]
  BY <1>3, PartOfBlock
<1>5. SizeOf(b) \in [Dims -> Nat \ {0}] /\ Cum(SizeOf(b)) \in [Dims -> Int] /\ Cum(Out) \in [Dims -> Int]
  BY BlockFacts, RegionFacts
<1> QED
  BY <1>1, <1>2, <1>3, <1>4, <1>5

\* While a block is pasted, it and the region stay what they are.
LEMMA PasteStays ==
    ASSUME UNCHANGED <<xyzct, blockSize, ROI, full, blockId>>
    PROVE  /\ pasteBlock' = pasteBlock
           /\ Meets(pasteBlock)' = Meets(pasteBlock)
           /\ FirstOf(pasteBlock)' = FirstOf(pasteBlock) /\ SizeOf(pasteBlock)' = SizeOf(pasteBlock)
           /\ Lower(pasteBlock)' = Lower(pasteBlock) /\ Upper(pasteBlock)' = Upper(pasteBlock)
           /\ Shift(pasteBlock)' = Shift(pasteBlock) /\ Out' = Out
           /\ calculateNumBlocks(xyzct, blockSize)' = calculateNumBlocks(xyzct, blockSize)
           /\ \A k : PlaceOf(pasteBlock, k)' = PlaceOf(pasteBlock, k)
BY DEF pasteBlock, Meets, Lower, Upper, Shift, FirstOf, SizeOf, Out, PlaceOf

\* A row moves the odometer and the three offsets to the next row; bufferInAux goes
\* on by a row of the block where the offset in the block takes the stride.
LEMMA PasteInvRow ==
    ASSUME CallInv, RegionInv, PasteInv, Paste!CopyRow, UNCHANGED <<xyzct, blockSize, cutPc>>
    PROVE  PasteInv'
<1>1. /\ pc = "row" /\ pc' = "carry" /\ UNCHANGED <<blockId, ROI, full>>
      /\ bufferInAux' = bufferInAux + SizeOf(pasteBlock)[0]
      /\ bcount' = [bcount EXCEPT ![1] = @ + 1] /\ auxDim' = 1
      /\ offsetBuffer' = offsetBuffer + Cum(Out)[1]
      /\ offsetBufferBlock' = offsetBufferBlock + Cum(SizeOf(pasteBlock))[1]
  BY PasteReadings DEF Paste!CopyRow, Paste!callVars
<1>2. PICK b \in Nat : b = pasteBlock
  BY <1>1, PasteFacts
<1>3. PICK f \in [Dims -> Int], s \in [Dims -> Nat], cum \in [Dims -> Int], cums \in [Dims -> Int],
           low \in [Dims -> Nat], up \in [Dims -> Nat], count \in [Dims -> Nat], aux \in {auxDim} :
         /\ f = Shift(b) /\ s = SizeOf(b) /\ cum = Cum(Out) /\ cums = Cum(s)
         /\ low = Lower(b) /\ up = Upper(b) /\ count = bcount
  <2>1. SizeOf(b) \in [Dims -> Nat]
    BY <1>2, BlockFacts
  <2> QED
    BY <1>1, <1>2, <2>1, PasteFacts
<1>4. PasteRowInv
  BY <1>1, PasteFacts
<1> DEFINE c2 == NextRow(count)
<1>5. Odometer(c2, 1, TRUE, low, up)
  <2>1. Odometer(count, aux, FALSE, low, up)
    BY <1>1, <1>2, <1>3, <1>4 DEF PasteRowInv
  <2> QED
    BY <2>1, OdometerRow
<1>6. count \in [Dims -> Int] /\ c2 \in [Dims -> Int]
  BY <1>5 DEF Odometer
<1>7. Offset(Plus(f, c2), cum) = Offset(Plus(f, count), cum) + cum[1]
  BY <1>6, OffsetOfRow
<1>8. Offset(c2, cums) = Offset(count, cums) + cums[1]
  <2>1. PICK z \in [Dims -> Int] : z = Zero
    BY PlusZero
  <2>2. Offset(Plus(z, c2), cums) = Offset(Plus(z, count), cums) + cums[1]
    BY <1>6, OffsetOfRow
  <2>3. Plus(z, c2) = c2 /\ Plus(z, count) = count
    <3> HIDE DEF c2
    <3> QED
      BY <1>6, <2>1, PlusZero
  <2> QED
    BY <2>2, <2>3
<1>9. cums[1] = s[0]
  <2>1. s \in [Dims -> Int]
    OBVIOUS
  <2> QED
    BY <1>3, <2>1, FirstStride
<1> HIDE DEF c2
<1>10. bcount' = c2
  BY <1>1, <1>3 DEF c2, NextRow
<1>11. /\ offsetBuffer' = Offset(Plus(f, c2), cum)
       /\ offsetBufferBlock' = Offset(c2, cums)
       /\ bufferInAux' = offsetBufferBlock'
  BY <1>1, <1>2, <1>3, <1>4, <1>7, <1>8, <1>9 DEF PasteRowInv
<1>12. PasteRowInv'
  <2>1. Odometer(bcount, auxDim, pc = "carry", Lower(pasteBlock), Upper(pasteBlock))'
    BY <1>1, <1>2, <1>3, <1>5, <1>10, PasteStays DEF Odometer
  <2>2. Meets(pasteBlock)'
    BY <1>1, <1>4, PasteStays DEF PasteRowInv
  <2>3. (offsetBuffer = Offset(Plus(Shift(pasteBlock), bcount), Cum(Out)))'
    BY <1>1, <1>2, <1>3, <1>10, <1>11, PasteStays
  <2>4. (offsetBufferBlock = Offset(bcount, Cum(SizeOf(pasteBlock))))'
    BY <1>1, <1>2, <1>3, <1>10, <1>11, PasteStays
  <2> QED
    BY <1>11, <2>1, <2>2, <2>3, <2>4 DEF PasteRowInv
<1> QED
  BY <1>1, <1>12 DEF PasteInv

\* A carry moves the odometer, and both offsets with it.  Where bufferInAux stays,
\* because the whole image is read, the block has no pixels outside of the region.
LEMMA PasteInvCarry ==
    ASSUME CallInv, RegionInv, PasteInv, Paste!Carry, UNCHANGED <<xyzct, blockSize, cutPc>>
    PROVE  PasteInv'
<1>0. Last \in Rows /\ \A ii \in Rows : ii \in Nat /\ (ii + 1 = DataDims <=> ii = Last)
  BY LastRow
<1>1. /\ pc = "carry" /\ UNCHANGED <<blockId, ROI, full>>
      /\ bcount[auxDim] = Upper(pasteBlock)[auxDim]
      /\ auxDim' = auxDim + 1
  BY PasteReadings DEF Paste!Carry, Paste!callVars
<1>2. PasteRowInv /\ auxDim \in Rows
  BY <1>1, PasteFacts DEF PasteRowInv, Odometer
<1>3. CASE auxDim = Last
  <2>1. pc' = "claim"
    BY <1>0, <1>1, <1>2, <1>3 DEF Paste!Carry
  <2> QED
    BY <1>1, <2>1 DEF PasteInv
<1>4. CASE auxDim # Last
  <2>1. PICK b \in Nat : b = pasteBlock
    BY <1>1, PasteFacts
  <2>2. PICK f \in [Dims -> Int], s \in [Dims -> Nat \ {0}], cum \in [Dims -> Int], cums \in [Dims -> Int],
             start \in [Dims -> Nat], up \in [Dims -> Nat], count \in [Dims -> Nat], d \in Rows :
           /\ f = Shift(b) /\ s = SizeOf(b) /\ cum = Cum(Out) /\ cums = Cum(s)
           /\ start = Lower(b) /\ up = Upper(b) /\ count = bcount /\ d = auxDim
           /\ \A ii \in Dims : start[ii] < up[ii]
    BY <1>1, <1>2, <2>1, PasteFacts
  <2>3. d \in Dims /\ d + 1 \in Dims /\ d \in Nat /\ d # 0 /\ d # Last
    BY <1>4, <2>2, Numbers
  <2>4. PICK low \in Nat : low = start[d] /\ low \in Int
    BY <2>3
  <2>5. /\ pc' = "carry"
        /\ bcount' = NextCarry(count, d, low)
        /\ offsetBuffer' = OffsetCarried(offsetBuffer, count, d, low, cum)
        /\ offsetBufferBlock' = OffsetCarried(offsetBufferBlock, count, d, low, cums)
        /\ bufferInAux' = IF full THEN bufferInAux ELSE offsetBufferBlock'
    <3>1. Paste!copySize[d] = count[d] - low
      BY <1>1, <2>1, <2>2, <2>3, <2>4, PasteReadings
    <3> QED
      BY <1>0, <1>1, <1>4, <2>1, <2>2, <2>3, <2>4, <3>1, PasteReadings
      DEF Paste!Carry, NextCarry, OffsetCarried
  <2>6. count[d] = up[d]
    BY <1>1, <2>1, <2>2
  <2> DEFINE c2 == NextCarry(count, d, low)
  <2>7. Odometer(c2, d + 1, TRUE, start, up)
    <3>1. Odometer(count, d, TRUE, start, up)
      BY <1>1, <1>2, <2>1, <2>2 DEF PasteRowInv, Odometer
    <3> QED
      BY <2>2, <2>3, <2>4, <2>6, <3>1, OdometerCarry
  <2>8. count \in [Dims -> Int] /\ c2 \in [Dims -> Int]
    BY <2>7 DEF Odometer
  <2>9. Offset(Plus(f, c2), cum) = OffsetCarried(Offset(Plus(f, count), cum), count, d, low, cum)
    BY <2>3, <2>4, <2>8, OffsetOfCarry
  <2>10. Offset(c2, cums) = OffsetCarried(Offset(count, cums), count, d, low, cums)
    <3>1. PICK z \in [Dims -> Int] : z = Zero
      BY PlusZero
    <3>2. Offset(Plus(z, c2), cums) = OffsetCarried(Offset(Plus(z, count), cums), count, d, low, cums)
      BY <2>3, <2>4, <2>8, OffsetOfCarry
    <3>3. Plus(z, c2) = c2 /\ Plus(z, count) = count
      <4> HIDE DEF c2
      <4> QED
        BY <2>8, <3>1, PlusZero
    <3> QED
      BY <3>2, <3>3
  <2> HIDE DEF c2
  <2>11. bcount' = c2
    BY <2>5 DEF c2
  <2>12. /\ offsetBuffer' = Offset(Plus(f, c2), cum)
         /\ offsetBufferBlock' = Offset(c2, cums)
    BY <1>2, <2>1, <2>2, <2>5, <2>9, <2>10 DEF PasteRowInv
  <2>13. bufferInAux' = offsetBufferBlock'
    <3>1. CASE full
      <4>1. low = 0 /\ up[d] = s[d]
        BY <2>1, <2>2, <2>3, <2>4, <3>1, FullMeets
      <4>2. cums[d + 1] = cums[d] * s[d]
        <5>1. s \in [Dims -> Int] /\ (d + 1) - 1 = d /\ d + 1 # 0
          BY <2>3
        <5> QED
          BY <2>2, <2>3, <5>1, CumDef
      <4>3. count[d] - low = s[d] /\ s[d] \in Int /\ cums[d] \in Int
        BY <2>3, <2>6, <4>1
      <4>4. (count[d] - low) * cums[d] = cums[d + 1] /\ cums[d + 1] \in Int
        BY <2>3, <4>2, <4>3
      <4>5. Offset(count, cums) \in Int
        BY <2>8, SumDef
      <4>6. OffsetCarried(Offset(count, cums), count, d, low, cums) = Offset(count, cums)
        BY <4>4, <4>5 DEF OffsetCarried
      <4> QED
        BY <1>2, <2>1, <2>2, <2>5, <3>1, <4>6 DEF PasteRowInv
    <3>2. CASE ~ full
      BY <2>5, <3>2
    <3> QED
      BY <3>1, <3>2
  <2>14. PasteRowInv'
    <3>1. Odometer(bcount, auxDim, pc = "carry", Lower(pasteBlock), Upper(pasteBlock))'
      BY <1>1, <2>1, <2>2, <2>5, <2>7, <2>11, PasteStays DEF Odometer
    <3>2. Meets(pasteBlock)'
      BY <1>1, <1>2, PasteStays DEF PasteRowInv
    <3>3. (offsetBuffer = Offset(Plus(Shift(pasteBlock), bcount), Cum(Out)))'
      BY <1>1, <2>1, <2>2, <2>11, <2>12, PasteStays
    <3>4. (offsetBufferBlock = Offset(bcount, Cum(SizeOf(pasteBlock))))'
      BY <1>1, <2>1, <2>2, <2>11, <2>12, PasteStays
    <3> QED
      BY <2>13, <3>1, <3>2, <3>3, <3>4 DEF PasteRowInv
  <2> QED
    BY <1>1, <2>5, <2>14 DEF PasteInv
<1> QED
  BY <1>3, <1>4

\* The other steps leave them alone.
LEMMA PasteInvOther ==
    ASSUME CallInv, PasteInv, Paste!SkipBlock \/ Paste!NoCarry \/ Paste!Done,
           UNCHANGED <<xyzct, blockSize, cutPc>>
    PROVE  PasteInv'
<1>1. UNCHANGED <<blockId, ROI, full, bcount, auxDim, offsetBuffer, offsetBufferBlock, bufferInAux>>
  BY DEF Paste!SkipBlock, Paste!NoCarry, Paste!Done, Paste!callVars, Paste!loopVars, Paste!vars
<1>2. CASE Paste!SkipBlock
  <2>1. pc = "intersect" /\ pc' = "claim"
    BY <1>2 DEF Paste!SkipBlock
  <2> QED
    BY <1>1, <2>1 DEF PasteInv
<1>3. CASE Paste!NoCarry
  <2>1. pc = "carry" /\ pc' = "row" /\ bcount[auxDim] # Upper(pasteBlock)[auxDim]
    BY <1>3, PasteReadings DEF Paste!NoCarry
  <2>2. PasteRowInv
    BY <2>1 DEF PasteInv
  <2>3. PasteRowInv'
    BY <1>1, <2>1, <2>2, PasteStays DEF PasteRowInv, Odometer
  <2> QED
    BY <1>1, <2>1, <2>3 DEF PasteInv
<1>4. CASE Paste!Done
  <2>1. pc = "done" /\ pc' = "done"
    BY <1>4 DEF Paste!Done, Paste!vars
  <2> QED
    BY <1>1, <2>1 DEF PasteInv
<1> QED
  BY <1>2, <1>3, <1>4

\* Decompressing gives the block that was cut.
LEMMA PixelsInvUncompress ==
    ASSUME WriterInv, PasteInv, PixelsInv, Paste!Uncompress, UNCHANGED <<xyzct, blockSize>>
    PROVE  PixelsInv'
<1>1. /\ pc = "intersect" /\ UNCHANGED <<blockId, ROI, full>>
      /\ bufferIn' = [k \in DOMAIN bufferIn |->
                        IF k < Volume(SizeOf(pasteBlock)) THEN compressed[pasteBlock][k + 1] ELSE bufferIn[k]]
  BY PasteReadings, PasteOperators DEF Paste!Uncompress, Paste!callVars, Paste!BlockPixel, pasteBlock
<1>2. cutPc = "done" /\ blockId # 0 /\ blockId \in 0 .. calculateNumBlocks(xyzct, blockSize) /\ CallInv
  BY <1>1 DEF PasteInv, WriterInv
<1>3. PICK b \in Nat : b = pasteBlock /\ b \in 0 .. calculateNumBlocks(xyzct, blockSize) - 1
  <2>1. calculateNumBlocks(xyzct, blockSize) \in Nat
    BY <1>2, BlockFacts, BlockGrid DEF CallInv
  <2> QED
    BY <1>2, <2>1 DEF pasteBlock
<1>4. compressed[b] = PixelsOf(b)
  BY <1>2, <1>3, FileComplete
<1>5. /\ Volume(SizeOf(b)) \in Nat /\ Volume(blockSize) \in Nat
      /\ Volume(SizeOf(b)) <= Volume(blockSize)
      /\ DOMAIN bufferIn = 0 .. Volume(blockSize) - 1
  BY <1>2, BlockFits DEF PixelsInv
<1>6. ASSUME NEW k \in 0 .. Volume(SizeOf(b)) - 1
      PROVE  bufferIn'[k] = PlaceOf(b, k)
  <2>1. PICK n \in Nat : n = Volume(SizeOf(b))
    BY <1>5
  <2>2. k \in DOMAIN bufferIn /\ k < n /\ k + 1 \in 1 .. n /\ (k + 1) - 1 = k
    BY <1>5, <2>1
  <2>3. bufferIn'[k] = compressed[b][k + 1]
    BY <1>1, <1>3, <2>1, <2>2
  <2>4. PixelsOf(b)[k + 1] = PlaceOf(b, k)
    BY <2>1, <2>2 DEF PixelsOf
  <2> QED
    BY <1>4, <2>3, <2>4
<1>7. DOMAIN bufferIn' = 0 .. Volume(blockSize)' - 1
  <2>1. DOMAIN bufferIn' = DOMAIN bufferIn
    BY <1>1
  <2> QED
    BY <1>5, <2>1
<1>8. \A k \in 0 .. Volume(SizeOf(pasteBlock))' - 1 : bufferIn'[k] = PlaceOf(pasteBlock, k)'
  BY <1>1, <1>3, <1>6, PasteStays
<1> QED
  BY <1>7, <1>8 DEF PixelsInv

\* It stays while it is pasted.
LEMMA PixelsInvOther ==
    ASSUME PixelsInv, UNCHANGED <<xyzct, blockSize>>,
           Paste!ClaimBlock \/ Paste!SkipBlock \/ Paste!CopyRow \/ Paste!Carry \/ Paste!NoCarry \/ Paste!Done
    PROVE  PixelsInv'
<1>1. bufferIn' = bufferIn /\ Volume(blockSize)' = Volume(blockSize)
  BY DEF Paste!ClaimBlock, Paste!SkipBlock, Paste!CopyRow, Paste!Carry, Paste!NoCarry, Paste!Done, Paste!vars
<1>2. \/ pc' \in {"intersect", "claim", "done"}
      \/ pc \in {"row", "carry"} /\ UNCHANGED <<blockId, ROI, full>>
  BY DEF Paste!ClaimBlock, Paste!SkipBlock, Paste!CopyRow, Paste!Carry, Paste!NoCarry, Paste!Done,
         Paste!vars, Paste!callVars
<1>3. CASE pc' \in {"intersect", "claim", "done"}
  BY <1>1, <1>3 DEF PixelsInv
<1>4. CASE pc \in {"row", "carry"} /\ UNCHANGED <<blockId, ROI, full>>
  <2>1. \A k \in 0 .. Volume(SizeOf(pasteBlock)) - 1 : bufferIn[k] = PlaceOf(pasteBlock, k)
    BY <1>4 DEF PixelsInv
  <2>2. \A k \in 0 .. Volume(SizeOf(pasteBlock))' - 1 : bufferIn'[k] = PlaceOf(pasteBlock, k)'
    BY <1>1, <1>4, <2>1, PasteStays
  <2> QED
    BY <1>1, <2>2 DEF PixelsInv
<1> QED
  BY <1>2, <1>3, <1>4

\* A pixel of the part of block b that lies in the region: which voxel it is, and
\* where it goes to.
LEMMA PartVoxel ==
    ASSUME CallInv, RegionInv, NEW b \in Nat, Meets(b), NEW v \in [Dims -> Nat],
           \A ii \in Dims : Lower(b)[ii] <= v[ii] /\ v[ii] < Upper(b)[ii]
    PROVE  LET p == Plus(FirstOf(b), v)
           IN  /\ p \in [Dims -> Nat]
               /\ \A ii \in Dims : /\ p[ii] < xyzct[ii] /\ v[ii] < SizeOf(b)[ii]
                                   /\ ROI.LB[ii] <= p[ii] /\ p[ii] <= ROI.UB[ii]
               /\ Place(p, ROI.LB, Out) = Offset(Plus(Shift(b), v), Cum(Out))
               /\ Offset(Plus(Shift(b), v), Cum(Out)) \in Nat
               /\ Offset(Plus(Shift(b), v), Cum(Out)) < Volume(Out)
<1>1. PICK f \in [Dims -> Nat], s \in [Dims -> Nat \ {0}], x \in [Dims -> Nat \ {0}],
           low \in [Dims -> Nat], up \in [Dims -> Nat], o \in [Dims -> Nat \ {0}], shift \in [Dims -> Int] :
         /\ f = FirstOf(b) /\ s = SizeOf(b) /\ x = xyzct
         /\ low = Lower(b) /\ up = Upper(b) /\ o = Out /\ shift = Shift(b)
         /\ \A ii \in Dims : f[ii] + s[ii] <= x[ii]
         /\ \A ii \in Dims : up[ii] <= s[ii]
  <2>1. /\ FirstOf(b) \in [Dims -> Nat] /\ SizeOf(b) \in [Dims -> Nat \ {0}]
        /\ xyzct \in [Dims -> Nat \ {0}]
        /\ \A ii \in Dims : FirstOf(b)[ii] + SizeOf(b)[ii] <= xyzct[ii]
    BY BlockFacts
  <2>2. /\ Lower(b) \in [Dims -> Nat] /\ Upper(b) \in [Dims -> Nat] /\ Shift(b) \in [Dims -> Int]
        /\ \A ii \in Dims : Upper(b)[ii] <= SizeOf(b)[ii]
    BY PartOfBlock
  <2>3. Out \in [Dims -> Nat \ {0}]
    BY RegionFacts
  <2> QED
    BY <2>1, <2>2, <2>3
<1> DEFINE p == Plus(f, v)
<1>2. ASSUME NEW ii \in Dims
      PROVE  /\ p[ii] \in Nat /\ p[ii] < x[ii] /\ v[ii] < s[ii]
             /\ ROI.LB[ii] <= p[ii] /\ p[ii] <= ROI.UB[ii]
             /\ p[ii] - ROI.LB[ii] = shift[ii] + v[ii]
             /\ shift[ii] + v[ii] \in Nat /\ shift[ii] + v[ii] < o[ii]
  <2>1. low[ii] <= v[ii] /\ v[ii] < up[ii]
    BY <1>1
  <2>2. v[ii] \in Nat /\ v[ii] < s[ii] /\ p[ii] = f[ii] + v[ii]
    <3>1. low[ii] \in Nat /\ up[ii] \in Nat /\ s[ii] \in Nat /\ v[ii] \in Nat /\ up[ii] <= s[ii]
      BY <1>1
    <3> QED
      BY <2>1, <3>1 DEF Plus
  <2>3. ROI.LB[ii] <= f[ii] + v[ii] /\ f[ii] + v[ii] <= ROI.UB[ii]
    BY <1>1, <2>1, <2>2, PartOfBlock
  <2>4. shift[ii] = f[ii] - ROI.LB[ii] /\ o[ii] = ROI.UB[ii] - ROI.LB[ii] + 1
    BY <1>1, RegionFacts DEF Shift
  <2>5. /\ ROI.LB[ii] \in Nat /\ ROI.UB[ii] \in Nat /\ f[ii] \in Nat /\ s[ii] \in Nat /\ x[ii] \in Nat
        /\ f[ii] + s[ii] <= x[ii]
    BY <1>1 DEF RegionInv
  <2> QED
    BY <2>2, <2>3, <2>4, <2>5
<1>3. p \in [Dims -> Nat]
  <2>1. p = [ii \in Dims |-> p[ii]]
    BY DEF Plus
  <2> QED
    BY <1>2, <2>1
<1>4. PICK w \in [Dims -> Nat] : w = Plus(shift, v) /\ \A ii \in Dims : w[ii] < o[ii]
  <2>1. ASSUME NEW ii \in Dims
        PROVE  Plus(shift, v)[ii] \in Nat /\ Plus(shift, v)[ii] < o[ii]
    BY <1>2 DEF Plus
  <2>2. Plus(shift, v) \in [Dims -> Nat]
    <3>1. Plus(shift, v) = [ii \in Dims |-> Plus(shift, v)[ii]]
      BY DEF Plus
    <3> QED
      BY <2>1, <3>1
  <2> QED
    BY <2>1, <2>2
<1>5. Offset(w, Cum(o)) \in Nat /\ Offset(w, Cum(o)) < Volume(o)
  BY <1>4, OffsetInside
<1>6. [ii \in Dims |-> p[ii] - ROI.LB[ii]] = w
  <2>1. w = [ii \in Dims |-> shift[ii] + v[ii]]
    BY <1>4 DEF Plus
  <2>2. \A ii \in Dims : p[ii] - ROI.LB[ii] = shift[ii] + v[ii]
    BY <1>2
  <2> QED
    BY <2>1, <2>2
<1>7. Place(p, ROI.LB, Out) = Offset(w, Cum(o))
  BY <1>1, <1>6 DEF Place
<1> QED
  BY <1>1, <1>2, <1>3, <1>4, <1>5, <1>7

\* Pixel j of the row that is pasted: where it is in the block, which voxel it is,
\* and where it goes to.
LEMMA RowOfRegion ==
    ASSUME CallInv, RegionInv, PasteInv, pc = "row", NEW j \in Nat,
           Lower(pasteBlock)[0] + j < Upper(pasteBlock)[0]
    PROVE  LET v == Along(bcount, j)
               p == Plus(FirstOf(pasteBlock), v)
           IN  /\ bufferInAux \in Nat /\ bufferInAux + j < Volume(SizeOf(pasteBlock))
               /\ offsetBuffer \in Nat /\ offsetBuffer + j < Volume(Out)
               /\ v \in [Dims -> Nat] /\ p \in [Dims -> Nat]
               /\ \A ii \in Rows : v[ii] = bcount[ii]
               /\ \A ii \in Dims : /\ p[ii] < xyzct[ii] /\ v[ii] < SizeOf(pasteBlock)[ii]
                                   /\ ROI.LB[ii] <= p[ii] /\ p[ii] <= ROI.UB[ii]
               /\ PlaceOf(pasteBlock, bufferInAux + j) = Offset(p, Cum(xyzct))
               /\ Place(p, ROI.LB, Out) = offsetBuffer + j
<1>1. PICK b \in Nat : b = pasteBlock
  BY PasteFacts
<1>2. PICK f \in [Dims -> Nat], s \in [Dims -> Nat \ {0}], x \in [Dims -> Nat \ {0}],
           low \in [Dims -> Nat], up \in [Dims -> Nat], count \in [Dims -> Nat],
           o \in [Dims -> Nat \ {0}], shift \in [Dims -> Int] :
         /\ f = FirstOf(b) /\ s = SizeOf(b) /\ x = xyzct /\ count = bcount
         /\ low = Lower(b) /\ up = Upper(b) /\ o = Out /\ shift = Shift(b)
         /\ \A ii \in Dims : f[ii] + s[ii] <= x[ii]
         /\ \A ii \in Dims : low[ii] < up[ii] /\ up[ii] <= s[ii]
  <2>1. /\ FirstOf(b) \in [Dims -> Nat] /\ SizeOf(b) \in [Dims -> Nat \ {0}]
        /\ xyzct \in [Dims -> Nat \ {0}]
        /\ \A ii \in Dims : FirstOf(b)[ii] + SizeOf(b)[ii] <= xyzct[ii]
    BY BlockFacts
  <2>2. /\ Lower(b) \in [Dims -> Nat] /\ Upper(b) \in [Dims -> Nat] /\ bcount \in [Dims -> Nat]
        /\ Shift(b) \in [Dims -> Int]
        /\ \A ii \in Dims : Lower(b)[ii] < Upper(b)[ii] /\ Upper(b)[ii] <= SizeOf(b)[ii]
    BY <1>1, PasteFacts
  <2>3. Out \in [Dims -> Nat \ {0}]
    BY RegionFacts
  <2> QED
    BY <2>1, <2>2, <2>3
<1>3. PasteRowInv /\ Meets(b)
  BY <1>1, PasteFacts
<1>4. count[0] = low[0] /\ \A ii \in Rows : low[ii] <= count[ii] /\ count[ii] < up[ii]
  BY <1>1, <1>2, <1>3 DEF PasteRowInv, Odometer
<1>5. 0 \in Dims /\ \A ii \in Dims : ii = 0 \/ ii \in Rows
  BY Numbers DEF Rows
<1>6. \A ii \in Dims : count[ii] < s[ii]
  BY <1>2, <1>4, <1>5
<1>7. count[0] + j < s[0] /\ count[0] + j < up[0]
  BY <1>1, <1>2, <1>4, <1>5
<1> DEFINE v == Along(count, j)
<1>8. o \in [Dims -> Int]
  OBVIOUS
<1>9. Cum(o) \in [Dims -> Int]
  BY <1>8, CumDef
<1>10. /\ v \in [Dims -> Nat]
       /\ \A ii \in Dims : v[ii] < s[ii]
       /\ \A ii \in Dims : ii # 0 => v[ii] = count[ii]
       /\ v[0] = count[0] + j
       /\ Offset(count, Cum(s)) \in Nat
       /\ Offset(count, Cum(s)) + j < Volume(s)
       /\ Digits(Offset(count, Cum(s)) + j, s) = v
       /\ Offset(Plus(shift, v), Cum(o)) = Offset(Plus(shift, count), Cum(o)) + j * Cum(o)[0]
  <2>1. RowInBox(count, j, s)
    BY <1>6, <1>7 DEF RowInBox
  <2>2. PICK cum \in [Dims -> Int] : cum = Cum(o)
    BY <1>9
  <2>3. Offset(Plus(shift, v), cum) = Offset(Plus(shift, count), cum) + j * cum[0]
    <3>1. count \in [Dims -> Int] /\ j \in Int
      OBVIOUS
    <3> QED
      BY <3>1, OffsetAlong
  <2>4. /\ v \in [Dims -> Nat]
        /\ \A ii \in Dims : v[ii] < s[ii]
        /\ \A ii \in Dims : ii # 0 => v[ii] = count[ii]
        /\ v[0] = count[0] + j
        /\ Offset(count, Cum(s)) \in Nat
        /\ Offset(count, Cum(s)) + j < Volume(s)
        /\ Digits(Offset(count, Cum(s)) + j, s) = v
    <3>1. RowPlaces(count, j, s)
      BY <2>1, PlaceAlong
    <3> QED
      BY <3>1 DEF RowPlaces
  <2> QED
    BY <2>2, <2>3, <2>4
<1> HIDE DEF v
<1>11. ASSUME NEW ii \in Dims
       PROVE  /\ low[ii] <= v[ii] /\ v[ii] < up[ii]
              /\ low[ii] <= count[ii] /\ count[ii] < up[ii]
  <2>1. CASE ii = 0
    <3>1. v[0] = low[0] + j /\ low[0] \in Nat /\ up[0] \in Nat /\ low[0] + j < up[0]
      BY <1>4, <1>5, <1>7, <1>10
    <3> QED
      BY <1>4, <2>1, <3>1
  <2>2. CASE ii # 0
    BY <1>4, <1>5, <1>10, <2>2
  <2> QED
    BY <2>1, <2>2
<1> DEFINE p == Plus(f, v)
<1>12. /\ p \in [Dims -> Nat]
       /\ \A ii \in Dims : /\ p[ii] < xyzct[ii] /\ v[ii] < SizeOf(b)[ii]
                           /\ ROI.LB[ii] <= p[ii] /\ p[ii] <= ROI.UB[ii]
       /\ Place(p, ROI.LB, Out) = Offset(Plus(shift, v), Cum(o))
       /\ Offset(Plus(shift, v), Cum(o)) < Volume(o)
  BY <1>2, <1>3, <1>10, <1>11, PartVoxel
<1>13. Offset(Plus(shift, count), Cum(o)) \in Nat
  BY <1>2, <1>3, <1>11, PartVoxel
<1>14. offsetBuffer = Offset(Plus(shift, count), Cum(o)) /\ bufferInAux = Offset(count, Cum(s))
  BY <1>1, <1>2, <1>3 DEF PasteRowInv
<1>15. Offset(Plus(shift, v), Cum(o)) = offsetBuffer + j
  <2>1. Cum(o)[0] = 1
    BY <1>8, FirstStride
  <2> QED
    BY <1>10, <1>13, <1>14, <2>1
<1>16. PlaceOf(pasteBlock, bufferInAux + j) = Offset(p, Cum(xyzct))
  BY <1>1, <1>2, <1>10, <1>14 DEF PlaceOf, Plus
<1>17. \A ii \in Rows : v[ii] = count[ii]
  <2>1. \A ii \in Rows : ii \in Dims /\ ii # 0
    BY Numbers
  <2> QED
    BY <1>10, <2>1
<1> QED
  BY <1>1, <1>2, <1>10, <1>12, <1>13, <1>14, <1>15, <1>16, <1>17 DEF v

-----------------------------------------------------------------------------
\* Every row that is copied into the region has pixels, and stays in the block and in
\* the caller's buffer.
LEMMA PasteRowsHold ==
    ASSUME CallInv, RegionInv, PasteInv
    PROVE  Paste!RowsInBounds
<1> SUFFICES ASSUME pc = "row"
             PROVE  /\ \A ii \in Dims : Paste!copySize[ii] > 0
                    /\ bufferInAux + Paste!copySize[0] <= Volume(SizeOf(pasteBlock))
                    /\ offsetBuffer + Paste!copySize[0] <= Volume(Out)
  BY PasteReadings, PasteOperators DEF Paste!RowsInBounds
<1>1. PICK low \in [Dims -> Nat], up \in [Dims -> Nat] :
         /\ low = Lower(pasteBlock) /\ up = Upper(pasteBlock)
         /\ \A ii \in Dims : low[ii] < up[ii]
  BY PasteFacts
<1>2. ASSUME NEW ii \in Dims
      PROVE  Paste!copySize[ii] = up[ii] - low[ii] /\ up[ii] - low[ii] \in Nat \ {0}
  BY <1>1, PasteReadings
<1>3. PICK n \in Nat \ {0} : n = Paste!copySize[0] /\ low[0] + (n - 1) < up[0]
  <2>1. PICK d \in Dims : d = 0
    BY Numbers
  <2>2. PICK l \in Nat, u \in Nat : l = low[d] /\ u = up[d] /\ Paste!copySize[d] = u - l /\ u - l \in Nat \ {0}
    BY <1>2
  <2>3. l + ((u - l) - 1) < u
    OBVIOUS
  <2> QED
    BY <2>1, <2>2, <2>3
<1>4. PICK j \in Nat : j = n - 1
  OBVIOUS
<1>5. Lower(pasteBlock)[0] + j < Upper(pasteBlock)[0]
  BY <1>1, <1>3, <1>4
<1>6. PICK a \in Nat, o \in Nat : a = bufferInAux /\ o = offsetBuffer
  BY <1>5, RowOfRegion
<1>7. a + j < Volume(SizeOf(pasteBlock)) /\ o + j < Volume(Out)
  BY <1>5, <1>6, RowOfRegion
<1>8. Volume(SizeOf(pasteBlock)) \in Nat /\ Volume(Out) \in Nat
  <2>1. pasteBlock \in Nat
    BY PasteFacts
  <2> QED
    BY <2>1, BlockFits, RegionFacts
<1> QED
  BY <1>2, <1>3, <1>4, <1>6, <1>7, <1>8

-----------------------------------------------------------------------------
\* The block of a voxel, and its coordinates in it.
Owner(p) == BlockOf(p, xyzct, blockSize)
Within(p, b) == [ii \in Dims |-> p[ii] - FirstOf(b)[ii]]

\* A voxel that is wanted lies in the part of its block that lies in the region.
LEMMA WantedVoxel ==
    ASSUME CallInv, RegionInv, NEW p, IsWanted(p)
    PROVE  /\ Owner(p) \in 0 .. calculateNumBlocks(xyzct, blockSize) - 1
           /\ Owner(p) \in Nat
           /\ Meets(Owner(p))
           /\ Within(p, Owner(p)) \in [Dims -> Nat]
           /\ Plus(FirstOf(Owner(p)), Within(p, Owner(p))) = p
           /\ \A ii \in Dims : /\ Lower(Owner(p))[ii] <= Within(p, Owner(p))[ii]
                               /\ Within(p, Owner(p))[ii] < Upper(Owner(p))[ii]
<1>1. p \in [Dims -> Nat] /\ \A ii \in Dims : p[ii] < xyzct[ii]
  BY DEF IsWanted
<1>2. PICK b : b = Owner(p)
  OBVIOUS
<1>3. /\ b \in 0 .. calculateNumBlocks(xyzct, blockSize) - 1
      /\ Within(p, b) \in [Dims -> Nat]
      /\ \A ii \in Dims : Within(p, b)[ii] < SizeOf(b)[ii] /\ p[ii] = FirstOf(b)[ii] + Within(p, b)[ii]
  BY <1>1, <1>2, VoxelInBlock DEF Owner, Within
<1>4. b \in Nat
  BY <1>3
<1>5. PICK f \in [Dims -> Nat], s \in [Dims -> Nat], v \in [Dims -> Nat] :
         f = FirstOf(b) /\ s = SizeOf(b) /\ v = Within(p, b)
  BY <1>3, <1>4, BlockFacts
<1>6. Plus(f, v) = p
  BY <1>1, <1>3, <1>5 DEF Plus
<1>7. Meets(b)
  <2>1. ASSUME NEW ii \in Dims
        PROVE  /\ FirstOf(b)[ii] <= p[ii] /\ p[ii] < FirstOf(b)[ii] + SizeOf(b)[ii]
               /\ ROI.LB[ii] <= p[ii] /\ p[ii] <= ROI.UB[ii]
    <3>1. f[ii] \in Nat /\ s[ii] \in Nat /\ v[ii] \in Nat /\ v[ii] < s[ii] /\ p[ii] = f[ii] + v[ii]
      BY <1>3, <1>5
    <3> QED
      BY <1>5, <3>1 DEF IsWanted
  <2> QED
    BY <1>1, <1>4, <2>1, VoxelMeets
<1>8. ASSUME NEW ii \in Dims
      PROVE  Lower(b)[ii] <= v[ii] /\ v[ii] < Upper(b)[ii]
  <2>1. v[ii] \in Nat /\ v[ii] < SizeOf(b)[ii]
    BY <1>3, <1>5
  <2>2. ROI.LB[ii] <= FirstOf(b)[ii] + v[ii] /\ FirstOf(b)[ii] + v[ii] <= ROI.UB[ii]
    BY <1>3, <1>5 DEF IsWanted
  <2> QED
    BY <1>4, <1>7, <2>1, <2>2, PartOfBlock
<1> QED
  BY <1>2, <1>3, <1>4, <1>5, <1>6, <1>7, <1>8

\* The pixels of one row: they are those of the block that have the odometer's
\* coordinates, except for the first.
InRow(v) == \A e \in Rows : v[e] = bcount[e]

\* A row is passed with the step that copies it.
LEMMA PassedRow ==
    ASSUME NEW v \in [Dims -> Nat], bcount \in [Dims -> Nat], bcount' = NextRow(bcount)
    PROVE  Passed(v)' <=> Passed(v) \/ InRow(v)
<1>1. PICK count, c2 : count \in [Dims -> Nat] /\ count = bcount /\ c2 = bcount' /\ c2 = NextRow(count)
  OBVIOUS
<1>2. 1 \in Rows /\ \A e \in Rows : e \in Dims /\ e \in Nat /\ e > 0
  BY Numbers
<1>3. c2[1] = count[1] + 1 /\ \A e \in Rows : e # 1 => c2[e] = count[e]
  <2>1. 1 \in Dims
    BY <1>2
  <2> QED
    BY <1>1, <1>2, <2>1 DEF NextRow
<1>4. \A e \in Rows : v[e] \in Nat /\ count[e] \in Nat
  BY <1>1, <1>2
<1>5. Passed(v)' <=> \E d \in Rows : v[d] < c2[d] /\ \A e \in Rows : e > d => v[e] = c2[e]
  BY <1>1 DEF Passed
<1>6. Passed(v) <=> \E d \in Rows : v[d] < count[d] /\ \A e \in Rows : e > d => v[e] = count[e]
  BY <1>1 DEF Passed
<1>7. ASSUME NEW d \in Rows, v[d] < c2[d], \A e \in Rows : e > d => v[e] = c2[e]
      PROVE  Passed(v) \/ InRow(v)
  <2>1. \A e \in Rows : e > d => v[e] = count[e]
    <3> SUFFICES ASSUME NEW e \in Rows, e > d PROVE v[e] = count[e]
      OBVIOUS
    <3>1. e # 1
      BY <1>2
    <3> QED
      BY <1>3, <1>7, <3>1
  <2>2. CASE v[d] < count[d]
    BY <1>6, <2>1, <2>2
  <2>3. CASE ~ (v[d] < count[d])
    <3>1. d = 1 /\ v[d] = count[d]
      BY <1>3, <1>4, <1>7, <2>3
    <3>2. \A e \in Rows : e = 1 \/ e > 1
      BY <1>2
    <3> QED
      BY <1>1, <2>1, <3>1, <3>2 DEF InRow
  <2> QED
    BY <2>2, <2>3
<1>8. ASSUME NEW d \in Rows, v[d] < count[d], \A e \in Rows : e > d => v[e] = count[e]
      PROVE  Passed(v)'
  <2>1. v[d] < c2[d]
    BY <1>3, <1>4, <1>8
  <2>2. \A e \in Rows : e > d => v[e] = c2[e]
    <3> SUFFICES ASSUME NEW e \in Rows, e > d PROVE v[e] = c2[e]
      OBVIOUS
    <3>1. e # 1
      BY <1>2
    <3> QED
      BY <1>3, <1>8, <3>1
  <2> QED
    BY <1>5, <2>1, <2>2
<1>9. ASSUME InRow(v)
      PROVE  Passed(v)'
  <2>1. \A e \in Rows : v[e] = count[e]
    BY <1>1, <1>9 DEF InRow
  <2>2. v[1] < c2[1]
    BY <1>2, <1>3, <1>4, <2>1
  <2>3. \A e \in Rows : e > 1 => v[e] = c2[e]
    BY <1>3, <2>1
  <2> QED
    BY <1>2, <1>5, <2>2, <2>3
<1> QED
  BY <1>5, <1>6, <1>7, <1>8, <1>9

\* A carry passes nothing: what lies before it was passed before.
LEMMA PassedCarry ==
    ASSUME NEW v \in [Dims -> Nat], bcount \in [Dims -> Nat],
           NEW low \in [Dims -> Nat], NEW d \in Rows, d # Last, NEW l \in Nat, l = low[d],
           bcount' = NextCarry(bcount, d, l),
           \A e \in Rows : low[e] <= v[e],
           v[d] < bcount[d],
           \A e \in Rows : e < d => bcount[e] = low[e]
    PROVE  Passed(v)' <=> Passed(v)
<1>1. PICK count, c2 : count \in [Dims -> Nat] /\ count = bcount /\ c2 = bcount' /\ c2 = NextCarry(count, d, l)
  OBVIOUS
<1>2. PICK u \in Rows : u = d + 1
  BY Numbers
<1>3. \A e \in Rows : e \in Dims /\ e \in Nat
  BY Numbers
<1>4. c2[d] = l /\ c2[u] = count[u] + 1 /\ \A e \in Rows : e # d /\ e # u => c2[e] = count[e]
  BY <1>1, <1>2, <1>3 DEF NextCarry
<1>5. \A e \in Rows : v[e] \in Nat /\ count[e] \in Nat /\ low[e] \in Nat
  BY <1>1, <1>3
<1>6. Passed(v)' <=> \E e \in Rows : v[e] < c2[e] /\ \A g \in Rows : g > e => v[g] = c2[g]
  BY <1>1 DEF Passed
<1>7. Passed(v) <=> \E e \in Rows : v[e] < count[e] /\ \A g \in Rows : g > e => v[g] = count[g]
  BY <1>1 DEF Passed
<1>8. \A e \in Rows : e < d => count[e] = low[e]
  BY <1>1
<1>9. v[d] < count[d] /\ ~ (v[d] < l)
  <2>1. low[d] <= v[d]
    OBVIOUS
  <2> QED
    BY <1>1, <1>5, <2>1
<1>10. ASSUME NEW e \in Rows, v[e] < c2[e], \A g \in Rows : g > e => v[g] = c2[g]
       PROVE  Passed(v)
  <2>1. ~ (e < d)
    <3> SUFFICES ASSUME e < d PROVE FALSE
      OBVIOUS
    <3>1. e # d /\ e # u
      BY <1>2, <1>3
    <3>2. c2[e] = low[e] /\ low[e] <= v[e]
      BY <1>4, <1>8, <3>1
    <3> QED
      BY <1>5, <1>10, <3>2
  <2>2. e # d
    BY <1>4, <1>9, <1>10
  <2>3. \A g \in Rows : g > e /\ g # u => v[g] = count[g]
    <3> SUFFICES ASSUME NEW g \in Rows, g > e, g # u PROVE v[g] = count[g]
      OBVIOUS
    <3>1. g # d
      BY <1>3, <2>1
    <3> QED
      BY <1>4, <1>10, <3>1
  <2>4. CASE e = u
    <3>1. \A g \in Rows : g > e => v[g] = count[g]
      BY <1>3, <2>3, <2>4
    <3>2. CASE v[u] < count[u]
      BY <1>7, <2>4, <3>1, <3>2
    <3>3. CASE ~ (v[u] < count[u])
      <4>1. v[u] = count[u]
        BY <1>4, <1>5, <1>10, <2>4, <3>3
      <4>2. \A g \in Rows : g > d => g = u \/ g > e
        BY <1>2, <1>3, <2>4
      <4>3. \A g \in Rows : g > d => v[g] = count[g]
        BY <3>1, <4>1, <4>2
      <4> QED
        BY <1>7, <1>9, <4>3
    <3> QED
      BY <3>2, <3>3
  <2>5. CASE e # u
    <3>1. e > u
      BY <1>2, <1>3, <2>1, <2>2, <2>5
    <3>2. \A g \in Rows : g > e => g # u
      BY <1>3, <3>1
    <3>3. \A g \in Rows : g > e => v[g] = count[g]
      BY <2>3, <3>2
    <3>4. v[e] < count[e]
      BY <1>4, <1>10, <2>2, <2>5
    <3> QED
      BY <1>7, <3>3, <3>4
  <2> QED
    BY <2>4, <2>5
<1>11. ASSUME NEW e \in Rows, v[e] < count[e], \A g \in Rows : g > e => v[g] = count[g]
       PROVE  Passed(v)'
  <2>1. ~ (e < d)
    <3> SUFFICES ASSUME e < d PROVE FALSE
      OBVIOUS
    <3>1. count[e] = low[e] /\ low[e] <= v[e]
      BY <1>8
    <3> QED
      BY <1>5, <1>11, <3>1
  <2>2. \A g \in Rows : g > e /\ g # u => v[g] = c2[g]
    <3> SUFFICES ASSUME NEW g \in Rows, g > e, g # u PROVE v[g] = c2[g]
      OBVIOUS
    <3>1. g # d
      BY <1>3, <2>1
    <3> QED
      BY <1>4, <1>11, <3>1
  <2>3. CASE e = d
    <3>1. u > e /\ v[u] = count[u]
      BY <1>2, <1>3, <1>11, <2>3
    <3>2. v[u] < c2[u]
      BY <1>4, <1>5, <3>1
    <3>3. \A g \in Rows : g > u => g > e /\ g # u
      BY <1>3, <3>1
    <3> QED
      BY <1>6, <2>2, <3>2, <3>3
  <2>4. CASE e # d
    <3>1. e = u \/ e > u
      BY <1>2, <1>3, <2>1, <2>4
    <3>2. \A g \in Rows : g > e => g # u
      BY <1>3, <3>1
    <3>3. v[e] < c2[e]
      BY <1>4, <1>5, <1>11, <2>4
    <3> QED
      BY <1>6, <2>2, <3>2, <3>3
  <2> QED
    BY <2>3, <2>4
<1> QED
  BY <1>6, <1>7, <1>10, <1>11

-----------------------------------------------------------------------------
\* What Filled says now, and after a step that keeps the image.
LEMMA FilledMeans ==
    ASSUME NEW p, NEW b, NEW v, b = Owner(p), v = Within(p, b), UNCHANGED <<xyzct, blockSize>>
    PROVE  /\ Filled(p) <=> \/ b < pasteBlock
                            \/ b = pasteBlock /\ pc \in {"claim", "done"}
                            \/ b = pasteBlock /\ pc \in {"row", "carry"} /\ Passed(v)
           /\ Filled(p)' <=> \/ b < pasteBlock'
                             \/ b = pasteBlock' /\ pc' \in {"claim", "done"}
                             \/ b = pasteBlock' /\ pc' \in {"row", "carry"} /\ Passed(v)'
BY DEF Filled, Owner, Within, FirstOf, Passed, pasteBlock

\* With the claim of the next block nothing arrives.
LEMMA FilledClaim ==
    ASSUME CallInv, RegionInv, PasteInv, NEW p, IsWanted(p), UNCHANGED <<xyzct, blockSize>>,
           Paste!ClaimBlock
    PROVE  Filled(p)' <=> Filled(p)
<1>1. PICK b, v : b \in Nat /\ b = Owner(p) /\ v = Within(p, b)
  BY WantedVoxel
<1>2. PICK n \in Nat : n = blockId
  <2>1. calculateNumBlocks(xyzct, blockSize) \in Nat
    BY BlockFacts, BlockGrid DEF CallInv
  <2> QED
    BY <2>1 DEF PasteInv
<1>3. /\ pc = "claim"
      /\ \/ blockId' = n + 1 /\ pc' = "intersect"
         \/ blockId' = n /\ pc' = "done"
  BY <1>2 DEF Paste!ClaimBlock
<1>4. Filled(p) <=> b <= n - 1
  BY <1>1, <1>2, <1>3, FilledMeans DEF pasteBlock
<1>5. Filled(p)' <=> b <= n - 1
  <2>1. CASE blockId' = n + 1 /\ pc' = "intersect"
    <3>1. Filled(p)' <=> b < pasteBlock'
      BY <1>1, <2>1, FilledMeans
    <3> QED
      BY <1>1, <2>1, <3>1 DEF pasteBlock
  <2>2. CASE blockId' = n /\ pc' = "done"
    <3>1. Filled(p)' <=> b < pasteBlock' \/ b = pasteBlock'
      BY <1>1, <2>2, FilledMeans
    <3> QED
      BY <1>1, <2>2, <3>1 DEF pasteBlock
  <2> QED
    BY <1>3, <2>1, <2>2
<1> QED
  BY <1>4, <1>5

\* A block that does not meet the region holds none of its voxels.
LEMMA FilledSkip ==
    ASSUME CallInv, RegionInv, NEW p, IsWanted(p), UNCHANGED <<xyzct, blockSize>>,
           Paste!SkipBlock
    PROVE  Filled(p)' <=> Filled(p)
<1>1. PICK b, v : b \in Nat /\ b = Owner(p) /\ v = Within(p, b) /\ Meets(b)
  BY WantedVoxel
<1>2. pc = "intersect" /\ pc' = "claim" /\ blockId' = blockId /\ ~ Meets(pasteBlock)
  BY PasteReadings DEF Paste!SkipBlock
<1>3. pasteBlock' = pasteBlock /\ b # pasteBlock
  BY <1>1, <1>2 DEF pasteBlock
<1> QED
  BY <1>1, <1>2, <1>3, FilledMeans

\* At the first row of a block nothing of it has arrived.
LEMMA FilledUncompress ==
    ASSUME CallInv, RegionInv, NEW p, IsWanted(p), UNCHANGED <<xyzct, blockSize>>,
           Paste!Uncompress
    PROVE  Filled(p)' <=> Filled(p)
<1>1. PICK b \in Nat, v \in [Dims -> Nat] :
         /\ b = Owner(p) /\ v = Within(p, b) /\ Meets(b)
         /\ \A ii \in Dims : Lower(b)[ii] <= v[ii]
  BY WantedVoxel
<1>2. /\ pc = "intersect" /\ pc' = "row" /\ blockId' = blockId /\ bcount' = Lower(pasteBlock)
  BY PasteReadings DEF Paste!Uncompress
<1>3. pasteBlock' = pasteBlock
  BY <1>2 DEF pasteBlock
<1>4. b = pasteBlock => ~ Passed(v)'
  <2> SUFFICES ASSUME b = pasteBlock, NEW d \in Rows, v[d] < bcount'[d]
               PROVE  FALSE
    BY DEF Passed
  <2>1. PICK low \in [Dims -> Nat] : low = Lower(b)
    BY <1>1, PartOfBlock
  <2>2. d \in Dims
    BY Numbers
  <2>3. low[d] <= v[d] /\ v[d] < low[d] /\ low[d] \in Nat /\ v[d] \in Nat
    BY <1>1, <1>2, <2>1, <2>2
  <2> QED
    BY <2>3
<1> QED
  BY <1>1, <1>2, <1>3, <1>4, FilledMeans

\* Behind the last row of a block all its voxels of the region have arrived.
LEMMA FilledCarry ==
    ASSUME CallInv, RegionInv, PasteInv, NEW p, IsWanted(p), UNCHANGED <<xyzct, blockSize>>,
           Paste!Carry
    PROVE  Filled(p)' <=> Filled(p)
<1>0. Last \in Rows /\ \A ii \in Rows : ii \in Nat /\ (ii + 1 = DataDims <=> ii = Last)
  BY LastRow
<1>1. PICK b \in Nat, v \in [Dims -> Nat] :
         /\ b = Owner(p) /\ v = Within(p, b) /\ Meets(b)
         /\ \A ii \in Dims : Lower(b)[ii] <= v[ii] /\ v[ii] < Upper(b)[ii]
  BY WantedVoxel
<1>2. /\ pc = "carry" /\ blockId' = blockId /\ bcount[auxDim] = Upper(pasteBlock)[auxDim]
      /\ auxDim' = auxDim + 1
  BY PasteReadings DEF Paste!Carry
<1>3. pasteBlock' = pasteBlock
  BY <1>2 DEF pasteBlock
<1>4. PasteRowInv /\ auxDim \in Rows /\ bcount \in [Dims -> Nat]
  BY <1>2, PasteFacts DEF PasteRowInv, Odometer
<1>5. CASE b # pasteBlock
  <2>1. pc' \in {"claim", "carry"}
    BY DEF Paste!Carry
  <2> QED
    BY <1>1, <1>3, <1>5, FilledMeans
<1>6. CASE b = pasteBlock /\ auxDim = Last
  <2>1. pc' = "claim"
    BY <1>0, <1>2, <1>4, <1>6 DEF Paste!Carry
  <2>2. Passed(v)
    <3>1. v[Last] < bcount[Last]
      <4>1. Last \in Dims
        BY Numbers
      <4> QED
        BY <1>1, <1>2, <1>6, <4>1
    <3>2. \A e \in Rows : ~ (e > Last)
      BY Numbers
    <3> QED
      BY <1>0, <3>1, <3>2 DEF Passed
  <2> QED
    BY <1>1, <1>2, <1>3, <1>6, <2>1, <2>2, FilledMeans
<1>7. CASE b = pasteBlock /\ auxDim # Last
  <2>1. PICK d \in Rows, low \in [Dims -> Nat], count \in [Dims -> Nat] :
           d = auxDim /\ low = Lower(b) /\ count = bcount
    BY <1>1, <1>4, PartOfBlock
  <2>2. PICK l \in Nat : l = low[d]
    BY <2>1, Numbers
  <2>3. pc' = "carry" /\ bcount' = NextCarry(bcount, d, l)
    BY <1>0, <1>2, <1>4, <1>7, <2>1, <2>2, PasteReadings DEF Paste!Carry, NextCarry
  <2>4. \A e \in Rows : e < d => bcount[e] = low[e]
    BY <1>2, <1>4, <1>7, <2>1 DEF PasteRowInv, Odometer
  <2>5. v[d] < bcount[d] /\ \A e \in Rows : low[e] <= v[e]
    <3>1. \A e \in Rows : e \in Dims
      BY Numbers
    <3> QED
      BY <1>1, <1>2, <1>7, <2>1, <3>1
  <2>6. d # Last
    BY <1>7, <2>1
  <2>7. Passed(v)' <=> Passed(v)
    BY <1>4, <2>2, <2>3, <2>4, <2>5, <2>6, PassedCarry
  <2> QED
    BY <1>1, <1>2, <1>3, <2>3, <2>7, FilledMeans
<1> QED
  BY <1>5, <1>6, <1>7

\* And when the odometer stays, nothing arrives.
LEMMA FilledOther ==
    ASSUME CallInv, RegionInv, NEW p, IsWanted(p), UNCHANGED <<xyzct, blockSize>>,
           Paste!NoCarry \/ UNCHANGED <<pc, blockId, bcount>>
    PROVE  Filled(p)' <=> Filled(p)
<1>1. PICK b, v : b \in Nat /\ b = Owner(p) /\ v = Within(p, b)
  BY WantedVoxel
<1>2. /\ blockId' = blockId /\ bcount' = bcount
      /\ pc' = pc \/ (pc = "carry" /\ pc' = "row")
  BY DEF Paste!NoCarry, Paste!loopVars
<1>3. pasteBlock' = pasteBlock /\ (Passed(v)' <=> Passed(v))
  BY <1>2 DEF pasteBlock, Passed
<1> QED
  BY <1>1, <1>2, <1>3, FilledMeans

\* A row brings the voxels of the block that have the odometer's coordinates.
LEMMA FilledRow ==
    ASSUME CallInv, RegionInv, PasteInv, NEW p, IsWanted(p), UNCHANGED <<xyzct, blockSize>>,
           Paste!CopyRow
    PROVE  Filled(p)' <=> \/ Filled(p)
                          \/ Owner(p) = pasteBlock /\ InRow(Within(p, Owner(p)))
<1>1. PICK b \in Nat, v \in [Dims -> Nat] : b = Owner(p) /\ v = Within(p, b)
  BY WantedVoxel
<1>2. /\ pc = "row" /\ pc' = "carry" /\ blockId' = blockId
      /\ bcount' = NextRow(bcount)
  BY DEF Paste!CopyRow, NextRow
<1>3. pasteBlock' = pasteBlock
  BY <1>2 DEF pasteBlock
<1>4. bcount \in [Dims -> Nat]
  BY <1>2, PasteFacts
<1>5. Passed(v)' <=> Passed(v) \/ InRow(v)
  BY <1>2, <1>4, PassedRow
<1>6. Filled(p) <=> b < pasteBlock \/ (b = pasteBlock /\ Passed(v))
  BY <1>1, <1>2, FilledMeans
<1>7. Filled(p)' <=> b < pasteBlock \/ (b = pasteBlock /\ Passed(v)')
  BY <1>1, <1>2, <1>3, FilledMeans
<1> QED
  BY <1>1, <1>5, <1>6, <1>7

-----------------------------------------------------------------------------
\* While no row is copied, the caller's buffer keeps what it has.
LEMMA OutInvOther ==
    ASSUME OutInv, UNCHANGED <<xyzct, blockSize, ROI, bufferOut>>,
           \A p : IsWanted(p) => (Filled(p)' <=> Filled(p))
    PROVE  OutInv'
<1>1. Out' = Out /\ \A k : Voxel(k)' = Voxel(k)
  BY DEF Out, Voxel
<1>2. DOMAIN bufferOut' = 0 .. Volume(Out') - 1
  BY <1>1 DEF OutInv
<1>3. ASSUME NEW k \in 0 .. Volume(Out') - 1, NEW p \in {Voxel(k)'}
      PROVE  bufferOut'[k] = IF IsWanted(p)' /\ Filled(p)' THEN Place(p, Zero, xyzct') ELSE -1
  <2>1. bufferOut[k] = IF IsWanted(p) /\ Filled(p) THEN Place(p, Zero, xyzct) ELSE -1
    BY <1>1, <1>3 DEF OutInv
  <2>2. IsWanted(p)' <=> IsWanted(p)
    BY DEF IsWanted
  <2> QED
    BY <2>1, <2>2
<1> QED
  BY <1>2, <1>3 DEF OutInv, Zero

\* The voxels of the block that have the odometer's coordinates are those of the row
LEMMA RowVoxel ==
    ASSUME CallInv, RegionInv, PasteInv, pc = "row", NEW p, IsWanted(p),
           Owner(p) = pasteBlock, InRow(Within(p, pasteBlock))
    PROVE  \E j \in Nat : /\ Lower(pasteBlock)[0] + j < Upper(pasteBlock)[0]
                          /\ p = Plus(FirstOf(pasteBlock), Along(bcount, j))
<1>1. PICK b \in Nat, v \in [Dims -> Nat] :
         /\ b = pasteBlock /\ v = Within(p, b) /\ Plus(FirstOf(b), v) = p
         /\ \A ii \in Dims : Lower(b)[ii] <= v[ii] /\ v[ii] < Upper(b)[ii]
  BY WantedVoxel
<1>2. PICK count \in [Dims -> Nat], low \in [Dims -> Nat], up \in [Dims -> Nat] :
         count = bcount /\ low = Lower(b) /\ up = Upper(b)
  BY <1>1, PasteFacts
<1>3. count[0] = low[0]
  BY <1>1, <1>2, PasteFacts DEF PasteRowInv, Odometer
<1>4. PICK d \in Dims : d = 0 /\ \A ii \in Dims : ii = d \/ ii \in Rows
  BY Numbers DEF Rows
<1>5. PICK j \in Nat : j = v[d] - low[d] /\ v[d] = low[d] + j
  BY <1>1, <1>2
<1>6. low[d] + j < up[d]
  BY <1>1, <1>2, <1>5
<1>7. v = Along(count, j)
  <2>1. ASSUME NEW ii \in Dims
        PROVE  v[ii] = Along(count, j)[ii]
    <3>1. CASE ii = d
      BY <1>3, <1>4, <1>5, <3>1 DEF Along
    <3>2. CASE ii # d
      BY <1>1, <1>2, <1>4, <3>2 DEF InRow, Along
    <3> QED
      BY <3>1, <3>2
  <2>2. Along(count, j) = [ii \in Dims |-> Along(count, j)[ii]]
    BY DEF Along
  <2> QED
    BY <2>1, <2>2
<1> QED
  BY <1>1, <1>2, <1>4, <1>6, <1>7

\* and the row holds no other; each goes to its place in the caller's buffer.
LEMMA VoxelRow ==
    ASSUME CallInv, RegionInv, PasteInv, pc = "row", NEW j \in Nat,
           Lower(pasteBlock)[0] + j < Upper(pasteBlock)[0]
    PROVE  \E p : /\ p = Plus(FirstOf(pasteBlock), Along(bcount, j))
                  /\ IsWanted(p) /\ Owner(p) = pasteBlock /\ InRow(Within(p, pasteBlock))
                  /\ offsetBuffer \in Nat /\ offsetBuffer + j \in 0 .. Volume(Out) - 1
                  /\ Voxel(offsetBuffer + j) = p
                  /\ bufferInAux \in Nat /\ bufferInAux + j \in 0 .. Volume(SizeOf(pasteBlock)) - 1
                  /\ PlaceOf(pasteBlock, bufferInAux + j) = Place(p, Zero, xyzct)
<1>1. PICK v, p :
         /\ v = Along(bcount, j) /\ p = Plus(FirstOf(pasteBlock), v)
         /\ bufferInAux \in Nat /\ bufferInAux + j < Volume(SizeOf(pasteBlock))
         /\ offsetBuffer \in Nat /\ offsetBuffer + j < Volume(Out)
         /\ v \in [Dims -> Nat] /\ p \in [Dims -> Nat]
         /\ \A ii \in Rows : v[ii] = bcount[ii]
         /\ \A ii \in Dims : /\ p[ii] < xyzct[ii] /\ v[ii] < SizeOf(pasteBlock)[ii]
                             /\ ROI.LB[ii] <= p[ii] /\ p[ii] <= ROI.UB[ii]
         /\ PlaceOf(pasteBlock, bufferInAux + j) = Offset(p, Cum(xyzct))
         /\ Place(p, ROI.LB, Out) = offsetBuffer + j
  BY RowOfRegion
<1>2. PICK b \in Nat : b = pasteBlock /\ b \in 0 .. calculateNumBlocks(xyzct, blockSize) - 1
  <2>1. calculateNumBlocks(xyzct, blockSize) \in Nat
    BY BlockFacts, BlockGrid DEF CallInv
  <2>2. pasteBlock \in Nat /\ blockId \in 0 .. calculateNumBlocks(xyzct, blockSize)
    BY PasteFacts DEF PasteInv
  <2> QED
    BY <2>1, <2>2 DEF pasteBlock
<1>3. PICK f \in [Dims -> Nat], s \in [Dims -> Nat] : f = FirstOf(b) /\ s = SizeOf(b)
  BY BlockFacts
<1>4. ASSUME NEW ii \in Dims
      PROVE  /\ f[ii] <= p[ii] /\ p[ii] < f[ii] + s[ii]
             /\ p[ii] - f[ii] = v[ii]
  <2>1. p[ii] = f[ii] + v[ii] /\ v[ii] < s[ii] /\ f[ii] \in Nat /\ v[ii] \in Nat /\ s[ii] \in Nat
    BY <1>1, <1>2, <1>3 DEF Plus
  <2> QED
    BY <2>1
<1>5. Owner(p) = b
  <2>1. PICK x \in [Dims -> Nat \ {0}], n \in [Dims -> Nat \ {0}] : x = xyzct /\ n = blockSize
    BY BlockGeometryAssumption DEF CallInv
  <2>2. f = coordBlock(b, x, n) /\ s = blockSizeAux(f, x, n)
    BY <1>3, <2>1 DEF FirstOf, SizeOf
  <2>3. BlockOf(p, x, n) = b
    <3>1. p \in [Dims -> Nat] /\ b \in 0 .. calculateNumBlocks(x, n) - 1
      BY <1>1, <1>2, <2>1
    <3>2. \A ii \in Dims : coordBlock(b, x, n)[ii] <= p[ii]
                           /\ p[ii] < coordBlock(b, x, n)[ii] + blockSizeAux(coordBlock(b, x, n), x, n)[ii]
      BY <1>4, <2>2
    <3> QED
      BY <3>1, <3>2, BlockIsUnique
  <2> QED
    BY <2>1, <2>3 DEF Owner
<1>6. InRow(Within(p, b))
  <2>1. \A ii \in Rows : ii \in Dims
    BY Numbers
  <2> QED
    BY <1>1, <1>3, <1>4, <2>1 DEF InRow, Within
<1>7. IsWanted(p)
  BY <1>1 DEF IsWanted
<1>8. Voxel(offsetBuffer + j) = p
  <2>1. Voxel(Place(p, ROI.LB, Out)) = p
    BY <1>1, PlaceInRegion
  <2> QED
    BY <1>1, <2>1
<1>9. offsetBuffer + j \in 0 .. Volume(Out) - 1 /\ bufferInAux + j \in 0 .. Volume(SizeOf(pasteBlock)) - 1
  <2>1. Volume(Out) \in Nat /\ Volume(SizeOf(b)) \in Nat
    BY RegionFacts, BlockFits
  <2> QED
    BY <1>1, <1>2, <2>1
<1>10. Place(p, Zero, xyzct) = Offset(p, Cum(xyzct))
  <2>1. [ii \in Dims |-> p[ii] - Zero[ii]] = p
    BY <1>1 DEF Zero
  <2> QED
    BY <2>1 DEF Place
<1> QED
  BY <1>1, <1>2, <1>5, <1>6, <1>7, <1>8, <1>9, <1>10

\* A row puts its voxels in their places, and leaves all others alone.
LEMMA OutInvRow ==
    ASSUME CallInv, RegionInv, PasteInv, PixelsInv, OutInv, Paste!CopyRow,
           UNCHANGED <<xyzct, blockSize>>
    PROVE  OutInv'
<1>1. pc = "row" /\ ROI' = ROI
  BY DEF Paste!CopyRow, Paste!callVars
<1>2. Out' = Out /\ \A k : Voxel(k)' = Voxel(k)
  BY <1>1 DEF Out, Voxel
<1>3. PICK low \in Nat, up \in Nat : low = Lower(pasteBlock)[0] /\ up = Upper(pasteBlock)[0] /\ low < up
  BY <1>1, PasteFacts, Numbers
<1>4. PICK o \in Nat, a \in Nat : o = offsetBuffer /\ a = bufferInAux
  <2>1. Lower(pasteBlock)[0] + 0 < Upper(pasteBlock)[0]
    BY <1>3
  <2> QED
    BY <1>1, <2>1, VoxelRow
<1>5. bufferOut' = [k \in DOMAIN bufferOut |->
                       IF k \in o .. o + (up - low) - 1 THEN bufferIn[a + (k - o)] ELSE bufferOut[k]]
  <2>1. Paste!copySize[0] = up - low
    BY <1>3, PasteReadings, Numbers
  <2> QED
    BY <1>4, <2>1 DEF Paste!CopyRow
<1>6. DOMAIN bufferOut' = 0 .. Volume(Out') - 1
  BY <1>2, <1>5 DEF OutInv
<1>7. ASSUME NEW k \in 0 .. Volume(Out) - 1, NEW p \in {Voxel(k)}
      PROVE  bufferOut'[k] = IF IsWanted(p)' /\ Filled(p)' THEN Place(p, Zero, xyzct) ELSE -1
  <2>1. /\ bufferOut'[k] = IF k \in o .. o + (up - low) - 1 THEN bufferIn[a + (k - o)] ELSE bufferOut[k]
        /\ bufferOut[k] = IF IsWanted(p) /\ Filled(p) THEN Place(p, Zero, xyzct) ELSE -1
    BY <1>5, <1>7 DEF OutInv
  <2>2. IsWanted(p)' <=> IsWanted(p)
    BY <1>1 DEF IsWanted
  <2>3. k \in Nat
    BY RegionFacts
  <2>4. CASE k \in o .. o + (up - low) - 1
    <3>1. PICK j \in Nat : j = k - o /\ k = o + j /\ low + j < up
      BY <2>3, <2>4
    <3>2. PICK q : /\ IsWanted(q) /\ Owner(q) = pasteBlock /\ InRow(Within(q, pasteBlock))
                   /\ Voxel(o + j) = q
                   /\ a + j \in 0 .. Volume(SizeOf(pasteBlock)) - 1
                   /\ PlaceOf(pasteBlock, a + j) = Place(q, Zero, xyzct)
      BY <1>1, <1>3, <1>4, <3>1, VoxelRow
    <3>3. p = q
      BY <3>1, <3>2
    <3>4. Filled(p)'
      BY <3>2, <3>3, FilledRow
    <3>5. bufferIn[a + j] = PlaceOf(pasteBlock, a + j)
      BY <1>1, <3>2 DEF PixelsInv
    <3> QED
      BY <2>1, <2>2, <2>4, <3>1, <3>2, <3>3, <3>4, <3>5
  <2>5. CASE ~ (k \in o .. o + (up - low) - 1)
    <3>1. ASSUME IsWanted(p), Owner(p) = pasteBlock, InRow(Within(p, pasteBlock))
          PROVE  FALSE
      <4>1. PICK j \in Nat : /\ Lower(pasteBlock)[0] + j < Upper(pasteBlock)[0]
                             /\ p = Plus(FirstOf(pasteBlock), Along(bcount, j))
        BY <1>1, <3>1, RowVoxel
      <4>2. Voxel(o + j) = p /\ o + j \in 0 .. Volume(Out) - 1
        BY <1>1, <1>4, <4>1, VoxelRow
      <4>3. PICK m \in 0 .. Volume(Out) - 1 : m = o + j
        BY <4>2
      <4>4. Place(Voxel(m), ROI.LB, Out) = m /\ Place(Voxel(k), ROI.LB, Out) = k
        BY VoxelOfRegion
      <4>5. k = o + j
        BY <1>7, <4>2, <4>3, <4>4
      <4> QED
        BY <1>3, <2>5, <4>1, <4>5
    <3>2. IsWanted(p) => (Filled(p)' <=> Filled(p))
      BY <3>1, FilledRow
    <3> QED
      BY <2>1, <2>2, <2>5, <3>2
  <2> QED
    BY <2>4, <2>5
<1> QED
  BY <1>2, <1>6, <1>7 DEF OutInv, Zero

\* What the reader calls inside the image.
LEMMA WantedOfRegion ==
    ASSUME RegionInv, NEW k \in 0 .. Volume(Out) - 1
    PROVE  Paste!InImage(Voxel(k)) <=> IsWanted(Voxel(k))
BY VoxelOfRegion, PasteOperators DEF Paste!InImage, IsWanted

\* The invariant holds when the reader begins.
LEMMA ReaderInit ==
    ASSUME CallInv, Paste!Init
    PROVE  RegionInv /\ PasteInv /\ PixelsInv /\ OutInv
<1>1. /\ full \in BOOLEAN
      /\ ROI \in IF full THEN {defineFullImage(xyzct)} ELSE Regions(xyzct)
      /\ pc = "claim" /\ blockId = 0
      /\ bufferIn = [k \in 0 .. Volume(blockSize) - 1 |-> -1]
      /\ bufferOut = [k \in 0 .. Volume(Out) - 1 |-> -1]
  BY PasteOperators, PasteReadings DEF Paste!Init, Paste!Junk
<1>2. RegionInv
  <2>1. \A ii \in Dims : xyzct[ii] \in Nat \ {0}
    BY BlockGeometryAssumption DEF CallInv
  <2>2. CASE full
    <3>1. ROI = defineFullImage(xyzct)
      BY <1>1, <2>2
    <3>2. ASSUME NEW ii \in Dims
          PROVE  /\ ROI.LB[ii] \in Nat /\ ROI.UB[ii] \in Nat
                 /\ ROI.LB[ii] <= ROI.UB[ii] /\ ROI.LB[ii] < xyzct[ii]
      <4>1. ROI.LB[ii] = 0 /\ ROI.UB[ii] = xyzct[ii] - 1
        BY <3>1 DEF defineFullImage
      <4> QED
        BY <2>1, <4>1
    <3> QED
      BY <1>1, <3>1, <3>2 DEF RegionInv
  <2>3. CASE ~ full
    <3>1. ROI \in Regions(xyzct) /\ xyzct \in ImageSizes
      BY <1>1, <2>3 DEF CallInv
    <3>2. ASSUME NEW ii \in Dims
          PROVE  /\ ROI.LB[ii] \in Nat /\ ROI.UB[ii] \in Nat
                 /\ ROI.LB[ii] <= ROI.UB[ii] /\ ROI.LB[ii] < xyzct[ii]
      <4>1. ROI.LB[ii] \in 0 .. xyzct[ii] - 1 /\ ROI.UB[ii] \in Nat /\ ROI.LB[ii] <= ROI.UB[ii]
        BY <3>1, BlockGeometryAssumption
      <4> QED
        BY <2>1, <4>1
    <3> QED
      BY <1>1, <2>3, <3>2 DEF RegionInv
  <2> QED
    BY <2>2, <2>3
<1>3. PasteInv
  <2>1. calculateNumBlocks(xyzct, blockSize) \in Nat
    BY BlockFacts, BlockGrid DEF CallInv
  <2> QED
    BY <1>1, <2>1 DEF PasteInv
<1>4. PixelsInv
  BY <1>1 DEF PixelsInv
<1>5. OutInv
  <2>1. ASSUME NEW p, IsWanted(p)
        PROVE  ~ Filled(p)
    <3>1. Owner(p) \in Nat
      BY <1>2, <2>1, WantedVoxel
    <3>2. pasteBlock = -1
      BY <1>1 DEF pasteBlock
    <3> QED
      BY <1>1, <3>1, <3>2 DEF Filled, Owner
  <2> QED
    BY <1>1, <2>1 DEF OutInv
<1> QED
  BY <1>2, <1>3, <1>4, <1>5

\* A step of the reader.
LEMMA ReaderStep ==
    ASSUME WriterInv, RegionInv, PasteInv, PixelsInv, OutInv, Paste!Next,
           UNCHANGED <<xyzct, blockSize, cutPc>>, cutPc = "done"
    PROVE  RegionInv' /\ PasteInv' /\ PixelsInv' /\ OutInv'
<1>1. CallInv
  BY DEF WriterInv
<1>2. ROI' = ROI /\ full' = full
  BY DEF Paste!Next, Paste!ClaimBlock, Paste!SkipBlock, Paste!Uncompress, Paste!CopyRow, Paste!Carry,
         Paste!NoCarry, Paste!Done, Paste!callVars, Paste!vars
<1>3. RegionInv'
  BY <1>2 DEF RegionInv
<1>4. PasteInv'
  BY <1>1, PasteInvClaim, PasteInvUncompress, PasteInvRow, PasteInvCarry, PasteInvOther DEF Paste!Next
<1>5. PixelsInv'
  BY PixelsInvUncompress, PixelsInvOther DEF Paste!Next
<1>6. OutInv'
  <2>1. CASE Paste!CopyRow
    BY <1>1, <2>1, OutInvRow
  <2>2. CASE ~ Paste!CopyRow
    <3>1. bufferOut' = bufferOut
      BY <2>2 DEF Paste!Next, Paste!ClaimBlock, Paste!SkipBlock, Paste!Uncompress, Paste!Carry,
                  Paste!NoCarry, Paste!Done, Paste!vars
    <3>2. ASSUME NEW p, IsWanted(p)
          PROVE  Filled(p)' <=> Filled(p)
      <4>1. CASE Paste!Done
        <5>1. UNCHANGED <<pc, blockId, bcount>>
          BY <4>1 DEF Paste!Done, Paste!vars, Paste!loopVars
        <5> QED
          BY <1>1, <3>2, <5>1, FilledOther
      <4>2. CASE ~ Paste!Done
        BY <1>1, <2>2, <3>2, <4>2, FilledClaim, FilledSkip, FilledUncompress, FilledCarry, FilledOther
        DEF Paste!Next
      <4> QED
        BY <4>1, <4>2
    <3> QED
      BY <1>2, <3>1, <3>2, OutInvOther
  <2> QED
    BY <2>1, <2>2
<1> QED
  BY <1>3, <1>4, <1>5, <1>6

\* The reader rests while the writer works.
LEMMA ReaderRests ==
    ASSUME CallInv, RegionInv, PasteInv, PixelsInv, OutInv,
           UNCHANGED readerVars, UNCHANGED <<xyzct, blockSize>>, cutPc = "done" => cutPc' = "done"
    PROVE  RegionInv' /\ PasteInv' /\ PixelsInv' /\ OutInv'
<1>1. UNCHANGED <<ROI, full, pc, blockId, bcount, auxDim, offsetBuffer, offsetBufferBlock,
                  bufferInAux, bufferIn, bufferOut>>
  BY DEF readerVars
<1>2. RegionInv'
  BY <1>1 DEF RegionInv
<1>3. PasteInv'
  <2>1. PasteRowInv' <=> PasteRowInv
    BY <1>1, PasteStays DEF PasteRowInv, Odometer
  <2> QED
    BY <1>1, <2>1 DEF PasteInv
<1>4. PixelsInv'
  <2>1. \A k : PlaceOf(pasteBlock, k)' = PlaceOf(pasteBlock, k)
    BY <1>1, PasteStays
  <2>2. Volume(SizeOf(pasteBlock))' = Volume(SizeOf(pasteBlock)) /\ Volume(blockSize)' = Volume(blockSize)
    BY <1>1, PasteStays
  <2> QED
    BY <1>1, <2>1, <2>2 DEF PixelsInv
<1>5. OutInv'
  <2>1. ASSUME NEW p, IsWanted(p)
        PROVE  Filled(p)' <=> Filled(p)
    BY <1>1, <2>1, FilledOther
  <2> QED
    BY <1>1, <2>1, OutInvOther
<1> QED
  BY <1>2, <1>3, <1>4, <1>5

\* And the writer, while the reader works.
LEMMA WriterRests ==
    ASSUME WriterInv, UNCHANGED writerVars
    PROVE  WriterInv'
<1>1. UNCHANGED <<xyzct, blockSize, slices, cutPc, cutBlockId, cutBcount, cutAuxDim,
                  cutOffsetBuffer, cutBufferInAux, cutBufferIn, compressed>>
  BY DEF writerVars
<1>2. CallInv' /\ cutBlock' = cutBlock
  BY <1>1 DEF WriterInv, CallInv, cutBlock
<1>3. CutInv'
  BY <1>1 DEF WriterInv, CutInv, CutRowInv, Odometer, cutBlock, FirstOf, SizeOf
<1>4. BlockInv'
  BY <1>1 DEF WriterInv, BlockInv, PlaceOf, cutBlock, FirstOf, SizeOf
<1>5. FileInv'
  BY <1>1 DEF WriterInv, FileInv, PlaceOf, cutBlock, FirstOf, SizeOf
<1> QED
  BY <1>2, <1>3, <1>4, <1>5 DEF WriterInv

-----------------------------------------------------------------------------
\* The inductive invariant.
RoundTripInv == WriterInv /\ RegionInv /\ PasteInv /\ PixelsInv /\ OutInv

\* It holds initially,
LEMMA RoundTripInit ==
    ASSUME Init
    PROVE  RoundTripInv
<1>1. WriterInv /\ CallInv
  BY WriterInit DEF Init, WriterInv
<1> QED
  BY <1>1, ReaderInit DEF Init, RoundTripInv

\* and every step keeps it.
LEMMA RoundTripStep ==
    ASSUME RoundTripInv, [Next]_vars
    PROVE  RoundTripInv'
<1>1. WriterInv /\ CallInv /\ RegionInv /\ PasteInv /\ PixelsInv /\ OutInv
  BY DEF RoundTripInv, WriterInv
<1>2. CASE Write
  <2>1. Cut!Next /\ UNCHANGED readerVars
    BY <1>2 DEF Write
  <2>2. WriterInv' /\ xyzct' = xyzct /\ blockSize' = blockSize
    BY <1>1, <2>1, WriterStep, CallStays
  <2>3. cutPc = "done" => cutPc' = "done"
    BY <2>1 DEF Cut!Next, Cut!ClaimBlock, Cut!CopyRow, Cut!Carry, Cut!NoCarry, Cut!Compress, Cut!Done, Cut!vars
  <2> QED
    BY <1>1, <2>1, <2>2, <2>3, ReaderRests DEF RoundTripInv
<1>3. CASE Read
  <2>1. cutPc = "done" /\ Paste!Next /\ UNCHANGED writerVars
    BY <1>3 DEF Read
  <2>2. UNCHANGED <<xyzct, blockSize, cutPc>>
    BY <2>1 DEF writerVars
  <2> QED
    BY <1>1, <2>1, <2>2, WriterRests, ReaderStep DEF RoundTripInv
<1>4. CASE UNCHANGED vars
  <2>1. UNCHANGED writerVars /\ UNCHANGED readerVars
    BY <1>4 DEF vars
  <2>2. UNCHANGED <<xyzct, blockSize, cutPc>>
    BY <2>1 DEF writerVars
  <2> QED
    BY <1>1, <2>1, <2>2, WriterRests, ReaderRests DEF RoundTripInv
<1> QED
  BY <1>2, <1>3, <1>4 DEF Next

\* A file that was read whole.
LEMMA ReadsHold ==
    ASSUME RoundTripInv
    PROVE  ReadsWhatWasWritten
<1> SUFFICES ASSUME pc = "done", NEW p \in Box(ROI.LB, ROI.UB)
             PROVE  bufferOut[Place(p, ROI.LB, Out)]
                      = IF Paste!InImage(p) THEN Place(p, Zero, xyzct) ELSE -1
  BY DEF ReadsWhatWasWritten, Out, Zero, Paste!Junk
<1>1. CallInv /\ RegionInv /\ PasteInv /\ OutInv
  BY DEF RoundTripInv, WriterInv
<1>2. p \in [Dims -> Nat] /\ \A ii \in Dims : ROI.LB[ii] <= p[ii] /\ p[ii] <= ROI.UB[ii]
  <2>1. \A ii \in Dims : ROI.UB[ii] \in Nat
    BY <1>1 DEF RegionInv
  <2>2. PICK lb, ub : lb = ROI.LB /\ ub = ROI.UB
    OBVIOUS
  <2> QED
    BY <2>1, <2>2, BoxVoxels
<1>3. PICK k : k = Place(p, ROI.LB, Out) /\ k \in 0 .. Volume(Out) - 1 /\ Voxel(k) = p
  BY <1>1, <1>2, PlaceInRegion
<1>4. Paste!InImage(p) <=> IsWanted(p)
  BY <1>1, <1>3, WantedOfRegion
<1>5. IsWanted(p) => Filled(p)
  <2> SUFFICES ASSUME IsWanted(p) PROVE Filled(p)
    OBVIOUS
  <2>1. PICK num \in Nat : num = calculateNumBlocks(xyzct, blockSize)
    BY <1>1, BlockFacts, BlockGrid DEF CallInv
  <2>2. Owner(p) \in 0 .. num - 1
    BY <1>1, <2>1, WantedVoxel
  <2>3. pasteBlock = num - 1
    BY <1>1, <2>1 DEF PasteInv, pasteBlock
  <2>4. Owner(p) < pasteBlock \/ Owner(p) = pasteBlock
    BY <2>1, <2>2, <2>3
  <2> QED
    BY <2>4 DEF Filled, Owner
<1>6. bufferOut[k] = IF IsWanted(p) /\ Filled(p) THEN Place(p, Zero, xyzct) ELSE -1
  BY <1>1, <1>3 DEF OutInv
<1> QED
  BY <1>3, <1>4, <1>5, <1>6

\* What is wanted stays what it is.
LEMMA WantedStays ==
    ASSUME UNCHANGED <<xyzct, ROI>>
    PROVE  Paste!Wanted' = Paste!Wanted
BY DEF Paste!Wanted, Paste!OutSize, Paste!Origin, Paste!InImage

\* It is, at each place, the voxel that belongs there, if the image has it.
LEMMA WantedPixel ==
    ASSUME RegionInv, NEW k \in 0 .. Volume(Out) - 1
    PROVE  /\ DOMAIN Paste!Wanted = 0 .. Volume(Out) - 1
           /\ Paste!Wanted[k] = IF IsWanted(Voxel(k)) THEN Place(Voxel(k), Zero, xyzct) ELSE -1
<1>1. Paste!InImage(Voxel(k)) <=> IsWanted(Voxel(k))
  BY WantedOfRegion
<1>2. Paste!Wanted = [kk \in 0 .. Volume(Out) - 1 |->
                        IF Paste!InImage(Voxel(kk)) THEN Place(Voxel(kk), Zero, xyzct) ELSE -1]
  BY PasteReadings, PasteOperators DEF Paste!Wanted, Paste!Junk, Voxel
<1> QED
  BY <1>1, <1>2

\* At first the caller's buffer is empty.
LEMMA FillInit ==
    ASSUME Init
    PROVE  Paste!Filling!Init
<1>1. bufferOut = [k \in 0 .. Volume(Paste!OutSize) - 1 |-> Paste!Junk]
  BY PasteOperators DEF Init, Paste!Init
<1>2. DOMAIN Paste!Wanted = 0 .. Volume(Paste!OutSize) - 1
  BY PasteOperators DEF Paste!Wanted
<1> QED
  BY <1>1, <1>2 DEF Paste!Filling!Init

\* Every step fills places that were empty with what is wanted there, or none.
LEMMA FillStep ==
    ASSUME RoundTripInv, [Next]_vars
    PROVE  [Paste!Filling!Fill]_(Paste!Filling!vars)
<1>1. WriterInv /\ CallInv /\ RegionInv /\ PasteInv /\ PixelsInv /\ OutInv
  BY DEF RoundTripInv, WriterInv
<1>2. UNCHANGED <<xyzct, blockSize, ROI>>
  <2>1. CASE Write
    BY <1>1, <2>1, CallStays DEF Write, readerVars
  <2>2. CASE Read
    BY <2>2 DEF Read, writerVars, Paste!Next, Paste!ClaimBlock, Paste!SkipBlock, Paste!Uncompress,
                Paste!CopyRow, Paste!Carry, Paste!NoCarry, Paste!Done, Paste!callVars, Paste!vars
  <2>3. CASE UNCHANGED vars
    BY <2>3 DEF vars, writerVars, readerVars
  <2> QED
    BY <2>1, <2>2, <2>3 DEF Next
<1>3. Paste!Wanted' = Paste!Wanted
  BY <1>2, WantedStays
<1>4. CASE Paste!CopyRow
  <2>1. OutInv'
    BY <1>1, <1>2, <1>4, OutInvRow
  <2>2. DOMAIN bufferOut = 0 .. Volume(Out) - 1 /\ DOMAIN bufferOut' = DOMAIN bufferOut
    BY <1>1, <1>4 DEF OutInv, Paste!CopyRow
  <2>3. ASSUME NEW k \in DOMAIN bufferOut
        PROVE  bufferOut'[k] = bufferOut[k] \/ (bufferOut[k] = -1 /\ bufferOut'[k] = Paste!Wanted[k])
    <3>1. k \in 0 .. Volume(Out) - 1
      BY <2>2
    <3>2. PICK p : p = Voxel(k)
      OBVIOUS
    <3>3. Out' = Out /\ Voxel(k)' = p
      BY <1>2, <3>2 DEF Out, Voxel
    <3>4. bufferOut[k] = IF IsWanted(p) /\ Filled(p) THEN Place(p, Zero, xyzct) ELSE -1
      BY <1>1, <3>1, <3>2 DEF OutInv
    <3>5. bufferOut'[k] = IF IsWanted(p)' /\ Filled(p)' THEN Place(p, Zero, xyzct) ELSE -1
      BY <1>2, <2>1, <3>1, <3>3 DEF OutInv, Zero
    <3>6. IsWanted(p)' <=> IsWanted(p)
      BY <1>2 DEF IsWanted
    <3>7. IsWanted(p) /\ Filled(p) => Filled(p)'
      BY <1>1, <1>2, <1>4, FilledRow
    <3>8. Paste!Wanted[k] = IF IsWanted(p) THEN Place(p, Zero, xyzct) ELSE -1
      BY <1>1, <3>1, <3>2, WantedPixel
    <3> QED
      BY <3>4, <3>5, <3>6, <3>7, <3>8
  <2>4. Paste!Filling!Fill
    BY <1>3, <2>2, <2>3 DEF Paste!Filling!Fill, Paste!Junk
  <2> QED
    BY <2>4
<1>5. CASE ~ Paste!CopyRow
  <2>1. bufferOut' = bufferOut
    <3>1. CASE Write
      BY <3>1 DEF Write, readerVars
    <3>2. CASE Read
      BY <1>5, <3>2 DEF Read, Paste!Next, Paste!ClaimBlock, Paste!SkipBlock, Paste!Uncompress,
                        Paste!Carry, Paste!NoCarry, Paste!Done, Paste!vars
    <3>3. CASE UNCHANGED vars
      BY <3>3 DEF vars, readerVars
    <3> QED
      BY <3>1, <3>2, <3>3 DEF Next
  <2>2. UNCHANGED Paste!Filling!vars
    BY <1>3, <2>1 DEF Paste!Filling!vars
  <2> QED
    BY <2>2
<1> QED
  BY <1>4, <1>5

-----------------------------------------------------------------------------
\* The invariant holds in every reachable state.
THEOREM RoundTripInvariant == Spec => []RoundTripInv
<1>1. Init => RoundTripInv
  BY RoundTripInit
<1>2. RoundTripInv /\ [Next]_vars => RoundTripInv'
  BY RoundTripStep
<1> QED
  BY <1>1, <1>2, PTL DEF Spec

\* No memcpy of a row, of the writer or the reader, leaves the image, slice, block or
\* buffer it copies from, or the one it copies to: the offsets that are moved up and
\* down are those of the odometer, whose coordinates stay in the block and, with the
\* reader, in the region (klb_imageIO.cpp:138-146, :364-367, :698, :1082).
THEOREM RowsStayInBounds == Spec => []RowsInBounds
<1>1. RoundTripInv => RowsInBounds
  <2> SUFFICES ASSUME RoundTripInv PROVE RowsInBounds
    OBVIOUS
  <2>1. WriterInv /\ CallInv /\ RegionInv /\ PasteInv
    BY DEF RoundTripInv, WriterInv
  <2> QED
    BY <2>1, CutRowsHold, PasteRowsHold DEF RowsInBounds
<1> QED
  BY <1>1, RoundTripInvariant, PTL

\* The file holds each voxel of the image once, in the block and at the place where
\* the definition of a block puts it (klb_imageIO.cpp:107-157).
THEOREM BlocksHoldEachVoxelOnce == Spec => []BlocksPartitionImage
<1>1. RoundTripInv => BlocksPartitionImage
  BY PartitionHolds DEF RoundTripInv, BlocksPartitionImage
<1> QED
  BY <1>1, RoundTripInvariant, PTL

\* What readImage or readImageFull leaves in the buffer is the part of the image that
\* was given to writeImage, and where the region ends behind the image, what the
\* buffer held (klb_imageIO.cpp:528-721, :953-1100).
THEOREM ReadReturnsWhatWasWritten == Spec => []ReadsWhatWasWritten
<1>1. RoundTripInv => ReadsWhatWasWritten
  BY ReadsHold
<1> QED
  BY <1>1, RoundTripInvariant, PTL

\* Pixels only appear in the caller's buffer where they belong, each once: the parts
\* of different blocks do not overlap, so threads need no lock (klb_imageIO.cpp:698).
THEOREM RefinesRegionFill == Spec => ImplementsFill
<1>1. Init => Paste!Filling!Init
  BY FillInit
<1>2. RoundTripInv /\ [Next]_vars => [Paste!Filling!Fill]_(Paste!Filling!vars)
  BY FillStep
<1> QED
  BY <1>1, <1>2, RoundTripInvariant, PTL DEF Spec, ImplementsFill, Paste!ImplementsFill, Paste!Filling!Spec
=============================================================================
