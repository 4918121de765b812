----------------------------- MODULE JavaProofs -----------------------------
(***************************************************************************)
(* The reads of KLB.java: what is cut into cells and read into them is the *)
(* region that was asked for, and no read is larger than its array         *)
(* (JavaRegions).                                                          *)
(*                                                                         *)
(* And the calls below them: what a call reads arrives in Java, whether    *)
(* the virtual machine lent native code an array or a copy of it           *)
(* (JniBridge).                                                            *)
(***************************************************************************)
EXTENDS JavaRegions, JniBridge, Lemmas

-----------------------------------------------------------------------------
\* The reads of KLB.java.

\* A list of the dimensions longer than 1 is made one dimension after another.
LEMMA KeptIs ==
    ASSUME NEW size \in [Dims -> Nat]
    PROVE  /\ KeptBelow(size, 0) = <<>>
           /\ \A d \in Dims :
                 KeptBelow(size, d + 1) = IF size[d] > 1 THEN Append(KeptBelow(size, d), d)
                                          ELSE KeptBelow(size, d)
<1> DEFINE Body(f) == [e \in 0 .. 5 |->
                          IF e = 0 THEN <<>>
                          ELSE IF size[e - 1] > 1 THEN Append(f[e - 1], e - 1)
                          ELSE f[e - 1]]
           With(s, d) == IF size[d] > 1 THEN Append(s, d) ELSE s
           k1 == With(<<>>, 0)
           k2 == With(k1, 1)
           k3 == With(k2, 2)
           k4 == With(k3, 3)
           k5 == With(k4, 4)
           g == [e \in 0 .. 5 |-> IF e = 0 THEN <<>> ELSE IF e = 1 THEN k1
                                  ELSE IF e = 2 THEN k2 ELSE IF e = 3 THEN k3 ELSE IF e = 4 THEN k4 ELSE k5]
           kept == CHOOSE f : f = Body(f)
<1>1. g = Body(g)
  <2> SUFFICES ASSUME NEW e \in 0 .. 5
               PROVE  g[e] = Body(g)[e]
    OBVIOUS
  <2>1. /\ g[0] = <<>> /\ g[1] = With(g[0], 0) /\ g[2] = With(g[1], 1)
        /\ g[3] = With(g[2], 2) /\ g[4] = With(g[3], 3) /\ g[5] = With(g[4], 4)
    <3> HIDE DEF With
    <3> QED
      OBVIOUS
  <2>2. e # 0 => Body(g)[e] = With(g[e - 1], e - 1)
    <3> HIDE DEF g
    <3> QED
      OBVIOUS
  <2>3. Body(g)[0] = <<>>
    OBVIOUS
  <2>4. e = 0 \/ e = 1 \/ e = 2 \/ e = 3 \/ e = 4 \/ e = 5
    OBVIOUS
  <2> HIDE DEF g, With, Body
  <2> QED
    BY <2>1, <2>2, <2>3, <2>4
<1>2. kept = Body(kept)
  <2> HIDE DEF Body
  <2> QED
    BY <1>1
<1>3. \A e \in 0 .. 5 : KeptBelow(size, e) = kept[e]
  BY DEF KeptBelow
<1> HIDE DEF kept
<1>4. ASSUME NEW d \in Dims
      PROVE  kept[d + 1] = With(kept[d], d)
  <2>1. d + 1 \in 0 .. 5 /\ d + 1 # 0 /\ (d + 1) - 1 = d
    BY DEF Dims
  <2> QED
    BY <1>2, <2>1
<1>5. kept[0] = <<>>
  BY <1>2
<1>6. ASSUME NEW d \in Dims
      PROVE  d \in 0 .. 5 /\ d + 1 \in 0 .. 5
  BY DEF Dims
<1> QED
  BY <1>3, <1>4, <1>5, <1>6

\* It has dimensions that are longer than 1, and no more of them than there are.
LEMMA KeptType ==
    ASSUME NEW size \in [Dims -> Nat]
    PROVE  \A n \in 0 .. 5 : /\ KeptBelow(size, n) \in Seq(Dims)
                             /\ Len(KeptBelow(size, n)) \in 0 .. n
                             /\ \A i \in 1 .. Len(KeptBelow(size, n)) :
                                   size[KeptBelow(size, n)[i]] > 1
<1> DEFINE Good(s, n) == /\ s \in Seq(Dims) /\ Len(s) \in 0 .. n
                         /\ \A i \in 1 .. Len(s) : size[s[i]] > 1
           T == {n \in Nat : Good(KeptBelow(size, n), n)}
<1>1. 0 \in T
  <2>1. Good(<<>>, 0)
    OBVIOUS
  <2> HIDE DEF Good
  <2> QED
    BY <2>1, KeptIs
<1>2. ASSUME NEW n \in Nat, n < 5, n \in T
      PROVE  n + 1 \in T
  <2>1. n \in Dims
    BY <1>2 DEF Dims
  <2>2. PICK s : s = KeptBelow(size, n) /\ Good(s, n)
    BY <1>2
  <2>3. CASE size[n] > 1
    <3>1. Good(Append(s, n), n + 1)
      BY <2>1, <2>2, <2>3
    <3> HIDE DEF Good
    <3> QED
      BY <2>1, <2>2, <2>3, <3>1, KeptIs
  <2>4. CASE ~ (size[n] > 1)
    <3>1. Good(s, n + 1)
      BY <2>2
    <3> HIDE DEF Good
    <3> QED
      BY <2>1, <2>2, <2>4, <3>1, KeptIs
  <2> QED
    BY <2>3, <2>4
<1>3. \A n \in 0 .. 5 : n \in T
  <2> HIDE DEF T
  <2>1. PICK top \in Nat : top = 5
    OBVIOUS
  <2> QED
    BY <1>1, <1>2, <2>1, InductionUpTo
<1> QED
  BY <1>3

\* What Append does.
LEMMA AppendIs ==
    ASSUME NEW S, NEW s \in Seq(S), NEW e \in S
    PROVE  /\ Append(s, e) \in Seq(S)
           /\ Len(s) \in Nat /\ Len(Append(s, e)) = Len(s) + 1
           /\ Append(s, e)[Len(s) + 1] = e
           /\ \A j \in 1 .. Len(s) : Append(s, e)[j] = s[j]
OBVIOUS

\* Where a dimension that is kept is found in the list, and that everything in the list
\* is there: how many of the dimensions below it are kept.
LEMMA KeptAt ==
    ASSUME NEW size \in [Dims -> Nat], NEW d \in Dims, size[d] > 1
    PROVE  /\ Len(KeptBelow(size, d)) + 1 \in 1 .. Len(Kept(size))
           /\ Kept(size)[Len(KeptBelow(size, d)) + 1] = d
<1> DEFINE i == Len(KeptBelow(size, d)) + 1
           Has(s) == Len(s) \in Nat /\ i <= Len(s) /\ s \in Seq(Dims) /\ s[i] = d
           T == {n \in Nat : n > d => Has(KeptBelow(size, n))}
<1>0. d \in 0 .. 4 /\ i \in Nat \ {0}
  BY KeptType DEF Dims
<1> HIDE DEF i
<1>1. 0 \in T
  BY <1>0
<1>2. ASSUME NEW n \in Nat, n < 5, n \in T
      PROVE  n + 1 \in T
  <2>1. n \in Dims /\ n \in 0 .. 5
    BY <1>2 DEF Dims
  <2>2. PICK s \in Seq(Dims) : s = KeptBelow(size, n) /\ (n > d => Has(s))
    BY <1>2, <2>1, KeptType
  <2>3. CASE n < d
    BY <1>0, <2>3
  <2>4. CASE n = d
    <3>1. KeptBelow(size, n + 1) = Append(s, d) /\ i = Len(s) + 1
      BY <2>1, <2>2, <2>4, KeptIs DEF i
    <3>2. Has(Append(s, d))
      BY <3>1
    <3> QED
      BY <3>1, <3>2
  <2>5. CASE n > d
    <3>1. Has(s)
      BY <2>2, <2>5
    <3>2. Has(Append(s, n))
      <4>0. PICK t : t = Append(s, n)
        OBVIOUS
      <4>1. /\ t \in Seq(Dims) /\ Len(s) \in Nat /\ Len(t) = Len(s) + 1
            /\ \A j \in 1 .. Len(s) : t[j] = s[j]
        BY <2>1, <4>0, AppendIs
      <4>2. i \in 1 .. Len(s) /\ s[i] = d
        BY <1>0, <3>1
      <4>3. Has(t)
        BY <4>1, <4>2
      <4> QED
        BY <4>0, <4>3
    <3>3. KeptBelow(size, n + 1) = s \/ KeptBelow(size, n + 1) = Append(s, n)
      BY <2>1, <2>2, KeptIs
    <3> HIDE DEF Has
    <3>4. Has(KeptBelow(size, n + 1))
      BY Zenon, <3>1, <3>2, <3>3
    <3>5. n + 1 \in Nat
      OBVIOUS
    <3> QED
      BY <3>4, <3>5
  <2> QED
    BY <1>0, <2>3, <2>4, <2>5
<1>3. 5 \in T
  <2> HIDE DEF T
  <2>1. PICK top \in Nat : top = 5
    OBVIOUS
  <2>2. \A n \in 0 .. top : n \in T
    BY <1>1, <1>2, <2>1, InductionUpTo
  <2> QED
    BY <2>1, <2>2
<1> QED
  BY <1>0, <1>3 DEF i, Kept

\* And nothing else is there.
LEMMA KeptOnly ==
    ASSUME NEW size \in [Dims -> Nat], NEW i \in 1 .. Len(Kept(size))
    PROVE  /\ Kept(size)[i] \in Dims
           /\ size[Kept(size)[i]] > 1
           /\ Len(KeptBelow(size, Kept(size)[i])) + 1 = i
<1> DEFINE Placed(s) == \A j \in 1 .. Len(s) : Len(KeptBelow(size, s[j])) + 1 = j
           T == {n \in Nat : Placed(KeptBelow(size, n))}
<1>1. 0 \in T
  BY KeptIs
<1>2. ASSUME NEW n \in Nat, n < 5, n \in T
      PROVE  n + 1 \in T
  <2>1. n \in Dims /\ n \in 0 .. 5
    BY <1>2 DEF Dims
  <2>2. PICK s \in Seq(Dims) : s = KeptBelow(size, n) /\ Placed(s)
    BY <1>2, <2>1, KeptType
  <2>3. Placed(Append(s, n))
    <3> SUFFICES ASSUME NEW j \in 1 .. Len(Append(s, n))
                 PROVE  Len(KeptBelow(size, Append(s, n)[j])) + 1 = j
      OBVIOUS
    <3>1. CASE j = Len(s) + 1
      BY <2>1, <2>2, <3>1
    <3>2. CASE j # Len(s) + 1
      <4>1. j \in 1 .. Len(s) /\ Append(s, n)[j] = s[j]
        BY <2>1, <3>2
      <4> QED
        BY <2>2, <4>1
    <3> QED
      BY <3>1, <3>2
  <2>4. KeptBelow(size, n + 1) = s \/ KeptBelow(size, n + 1) = Append(s, n)
    <3> HIDE DEF Placed
    <3> QED
      BY <2>1, <2>2, KeptIs
  <2> HIDE DEF Placed
  <2>5. Placed(KeptBelow(size, n + 1))
    BY Zenon, <2>2, <2>3, <2>4
  <2>6. n + 1 \in Nat
    OBVIOUS
  <2> QED
    BY <2>5, <2>6
<1>3. 5 \in T
  <2> HIDE DEF T
  <2>1. PICK top \in Nat : top = 5
    OBVIOUS
  <2>2. \A n \in 0 .. top : n \in T
    BY <1>1, <1>2, <2>1, InductionUpTo
  <2> QED
    BY <2>1, <2>2
<1>4. /\ Kept(size) \in Seq(Dims)
      /\ \A j \in 1 .. Len(Kept(size)) : size[Kept(size)[j]] > 1
  <2>1. PICK n \in 0 .. 5 : n = 5
    OBVIOUS
  <2>2. Kept(size) = KeptBelow(size, n)
    BY <2>1 DEF Kept
  <2> QED
    BY <2>2, KeptType
<1>5. \A j \in 1 .. Len(Kept(size)) : Len(KeptBelow(size, Kept(size)[j])) + 1 = j
  BY Zenon, <1>3 DEF Kept
<1>6. Kept(size)[i] \in Dims
  BY <1>4
<1> QED
  BY <1>4, <1>5, <1>6
\* If an image has at most as many dimensions longer than 1 as a part of it, they
\* are the same.
LEMMA SameKept ==
    ASSUME NEW size \in [Dims -> Nat], NEW part \in [Dims -> Nat],
           \A d \in Dims : part[d] <= size[d],
           Len(Kept(size)) <= Len(Kept(part))
    PROVE  /\ \A d \in Dims : size[d] > 1 <=> part[d] > 1
           /\ \A n \in 0 .. 5 : KeptBelow(size, n) = KeptBelow(part, n)
<1>1. ASSUME NEW n \in Dims
      PROVE  \E k \in Nat, l \in Nat :
                /\ k = Len(KeptBelow(size, n)) /\ l = Len(KeptBelow(part, n))
                /\ Len(KeptBelow(size, n + 1)) = IF size[n] > 1 THEN k + 1 ELSE k
                /\ Len(KeptBelow(part, n + 1)) = IF part[n] > 1 THEN l + 1 ELSE l
  <2>1. n \in 0 .. 5
    BY DEF Dims
  <2>2. KeptBelow(size, n) \in Seq(Dims) /\ KeptBelow(part, n) \in Seq(Dims)
    BY <2>1, KeptType
  <2>3. PICK k \in Nat, l \in Nat : k = Len(KeptBelow(size, n)) /\ l = Len(KeptBelow(part, n))
    BY <2>2
  <2>4. /\ KeptBelow(size, n + 1) = IF size[n] > 1 THEN Append(KeptBelow(size, n), n)
                                    ELSE KeptBelow(size, n)
        /\ KeptBelow(part, n + 1) = IF part[n] > 1 THEN Append(KeptBelow(part, n), n)
                                    ELSE KeptBelow(part, n)
    BY KeptIs
  <2>5. /\ Len(Append(KeptBelow(size, n), n)) = k + 1
        /\ Len(Append(KeptBelow(part, n), n)) = l + 1
    BY <2>2, <2>3, AppendIs
  <2> QED
    BY <2>3, <2>4, <2>5
<1>2. \A d \in Dims : part[d] > 1 => size[d] > 1
  <2> SUFFICES ASSUME NEW d \in Dims
               PROVE  part[d] > 1 => size[d] > 1
    OBVIOUS
  <2>1. part[d] \in Nat /\ size[d] \in Nat /\ part[d] <= size[d]
    OBVIOUS
  <2> QED
    BY <2>1
<1>3. ASSUME NEW d \in Dims, size[d] > 1, ~ (part[d] > 1)
      PROVE  FALSE
  <2> DEFINE Ahead(n, k, l) == l <= k /\ (n > d => l < k)
             A == {n \in Nat : Ahead(n, Len(KeptBelow(size, n)), Len(KeptBelow(part, n)))}
  <2>0. d \in 0 .. 4
    BY DEF Dims
  <2>1. 0 \in A
    <3>1. Ahead(0, 0, 0)
      BY <2>0
    <3>2. Len(KeptBelow(size, 0)) = 0 /\ Len(KeptBelow(part, 0)) = 0
      BY KeptIs
    <3> QED
      BY <3>1, <3>2
  <2>2. ASSUME NEW n \in Nat, n < 5, n \in A
        PROVE  n + 1 \in A
    <3>1. n \in Dims
      <4> HIDE DEF A
      <4> QED
        BY <2>2 DEF Dims
    <3>2. PICK k \in Nat, l \in Nat :
                /\ k = Len(KeptBelow(size, n)) /\ l = Len(KeptBelow(part, n))
                /\ Len(KeptBelow(size, n + 1)) = IF size[n] > 1 THEN k + 1 ELSE k
                /\ Len(KeptBelow(part, n + 1)) = IF part[n] > 1 THEN l + 1 ELSE l
      BY <1>1, <3>1
    <3>3. Ahead(n, k, l)
      BY Zenon, <2>2, <3>2
    <3>4. PICK i \in Nat, j \in Nat : /\ i = IF size[n] > 1 THEN k + 1 ELSE k
                                      /\ j = IF part[n] > 1 THEN l + 1 ELSE l
      OBVIOUS
    <3>5. /\ part[n] > 1 => size[n] > 1
          /\ n = d => size[n] > 1 /\ ~ (part[n] > 1)
      BY <1>2, <1>3, <3>1
    <3>6. Ahead(n + 1, i, j)
      BY <2>0, <3>3, <3>4, <3>5
    <3>7. n + 1 \in Nat
      OBVIOUS
    <3> HIDE DEF Ahead
    <3> QED
      BY <3>2, <3>4, <3>6, <3>7
  <2>3. 5 \in A
    <3> HIDE DEF A
    <3>1. PICK top \in Nat : top = 5
      OBVIOUS
    <3>2. \A n \in 0 .. top : n \in A
      BY <2>1, <2>2, <3>1, InductionUpTo
    <3> QED
      BY <3>1, <3>2
  <2>4. Len(Kept(part)) < Len(Kept(size))
    BY <2>0, <2>3 DEF Kept
  <2>5. Len(Kept(part)) \in Nat /\ Len(Kept(size)) \in Nat
    <3>1. PICK n \in 0 .. 5 : n = 5
      OBVIOUS
    <3>2. Kept(size) \in Seq(Dims) /\ Kept(part) \in Seq(Dims)
      BY <3>1, KeptType DEF Kept
    <3> QED
      BY <3>2
  <2> QED
    BY <2>4, <2>5
<1>5. \A d \in Dims : size[d] > 1 <=> part[d] > 1
  BY <1>2, <1>3
<1> DEFINE T == {n \in Nat : KeptBelow(size, n) = KeptBelow(part, n)}
<1>6. 0 \in T
  BY KeptIs
<1>7. ASSUME NEW n \in Nat, n < 5, n \in T
      PROVE  n + 1 \in T
  <2>1. n \in Dims
    BY <1>7 DEF Dims
  <2>2. KeptBelow(size, n + 1) = KeptBelow(part, n + 1)
    <3>1. KeptBelow(size, n) = KeptBelow(part, n)
      BY <1>7
    <3>2. size[n] > 1 <=> part[n] > 1
      BY <1>5, <2>1
    <3>3. /\ KeptBelow(size, n + 1) = IF size[n] > 1 THEN Append(KeptBelow(size, n), n)
                                      ELSE KeptBelow(size, n)
          /\ KeptBelow(part, n + 1) = IF part[n] > 1 THEN Append(KeptBelow(part, n), n)
                                      ELSE KeptBelow(part, n)
      BY <2>1, KeptIs
    <3> QED
      BY <3>1, <3>2, <3>3
  <2> QED
    BY <2>2
<1>8. \A n \in 0 .. 5 : n \in T
  <2> HIDE DEF T
  <2>1. PICK top \in Nat : top = 5
    OBVIOUS
  <2> QED
    BY <1>6, <1>7, <2>1, InductionUpTo
<1> QED
  BY <1>5, <1>8

\* The product of sizes along all dimensions is the product of those that are kept.
LEMMA ProductOfKept ==
    ASSUME NEW size \in [Dims -> Nat],
           NEW m \in Nat, m = Len(Kept(size)), NEW s \in [1 .. m -> Nat],
           NEW f \in [1 .. 5 -> Nat],
           \A d \in Dims : f[d + 1] = IF size[d] > 1 THEN s[Len(KeptBelow(size, d)) + 1] ELSE 1
    PROVE  ProductOf(f) = ProductOf(s)
<1>0. PICK top \in Nat : top = 5
  OBVIOUS
<1>1. PICK p \in [0 .. top -> Nat] :
              /\ p[0] = 1
              /\ \A ii \in 0 .. top - 1 : p[ii + 1] = p[ii] * f[ii + 1]
              /\ ProductOf(f) = p[top]
  BY <1>0, ProductIs
<1>2. PICK q \in [0 .. m -> Nat] :
              /\ q[0] = 1
              /\ \A ii \in 0 .. m - 1 : q[ii + 1] = q[ii] * s[ii + 1]
              /\ ProductOf(s) = q[m]
  BY ProductIs
<1> DEFINE T == {n \in Nat : p[n] = q[Len(KeptBelow(size, n))]}
<1>3. 0 \in T
  BY <1>1, <1>2, KeptIs
<1>4. ASSUME NEW n \in Nat, n < top, n \in T
      PROVE  n + 1 \in T
  <2>1. n \in Dims /\ n \in 0 .. 5 /\ n \in 0 .. top - 1 /\ n \in 0 .. top
    <3>1. n < 5
      BY <1>0, <1>4
    <3>2. n \in 0 .. 4 /\ n \in 0 .. 5 /\ n \in 0 .. top - 1 /\ n \in 0 .. top
      BY <1>0, <3>1
    <3> QED
      BY <3>2 DEF Dims
  <2>2. PICK l \in Nat : l = Len(KeptBelow(size, n))
    <3>1. Len(KeptBelow(size, n)) \in 0 .. n
      BY <2>1, KeptType
    <3> QED
      BY <2>1, <3>1
  <2>3. p[n] = q[l]
    BY <1>4, <2>2
  <2>4. p[n + 1] = p[n] * f[n + 1] /\ p[n] \in Nat
    BY <1>1, <2>1
  <2>5. CASE size[n] > 1
    <3>1. Len(KeptBelow(size, n + 1)) = l + 1
      <4>1. KeptBelow(size, n) \in Seq(Dims)
        BY <2>1, KeptType
      <4>2. KeptBelow(size, n + 1) = Append(KeptBelow(size, n), n)
        BY <2>1, <2>5, KeptIs
      <4> QED
        BY <2>1, <2>2, <4>1, <4>2, AppendIs
    <3>2. l + 1 \in 1 .. m
      BY <2>1, <2>2, <2>5, KeptAt
    <3>3. l \in 0 .. m - 1 /\ f[n + 1] = s[l + 1]
      BY <2>1, <2>2, <2>5, <3>2
    <3>4. q[l + 1] = q[l] * s[l + 1]
      BY <1>2, <3>3
    <3>5. p[n + 1] = q[Len(KeptBelow(size, n + 1))]
      BY <2>3, <2>4, <3>1, <3>3, <3>4
    <3> QED
      BY <3>5
  <2>6. CASE ~ (size[n] > 1)
    <3>1. KeptBelow(size, n + 1) = KeptBelow(size, n)
      BY <2>1, <2>6, KeptIs
    <3>2. f[n + 1] = 1
      BY <2>1, <2>6
    <3>3. p[n + 1] = p[n]
      BY <2>4, <3>2
    <3>4. p[n + 1] = q[Len(KeptBelow(size, n + 1))]
      BY <2>2, <2>3, <3>1, <3>3
    <3> QED
      BY <3>4
  <2> QED
    BY <2>5, <2>6
<1>5. top \in T
  <2> HIDE DEF T
  <2>1. \A n \in 0 .. top : n \in T
    BY <1>3, <1>4, InductionUpTo
  <2> QED
    BY <2>1
<1>6. p[top] = q[m]
  BY <1>0, <1>5 DEF Kept
<1> QED
  BY <1>1, <1>2, <1>6

\* The pieces a region is read in, and the read of one.
Pieces == IF cellSize = <<>> THEN {OneArray} ELSE Cells
ReadOf(c) ==
    IF cellSize = <<>> THEN Read(region, c, outSize)
    ELSE Read(CellRegion(c), c, ProductOf(c.size))

\* A region of an image is asked for; a new image holds what is read.
Asked == imageSize \in ImageSizes /\ region \in Regions(imageSize)

CallInv ==
    /\ Asked
    /\ dataType \in Types /\ outType \in Types
    /\ kind \in Kinds
    /\ outSize \in Nat \ {0}
    /\ kind = "new" => outType = dataType /\ outSize = ProductOf(squeezed)

\* While cells are being made shorter, only the dimension that is cut is.
CutInv ==
    /\ pc \in {"call", "partition", "shrink", "read",
               "returned", "IOException", "IndexOutOfBounds"}
    /\ partitionDim \in 0 .. Len(squeezed)
    /\ cellSize # <<>> => kind = "new" /\ cellSize \in [1 .. Len(squeezed) -> Nat \ {0}]
    /\ pc \in {"call", "partition"} => cellSize = <<>>
    /\ pc = "partition" => kind = "new"
    /\ pc = "shrink" =>
          /\ cellSize # <<>>
          /\ partitionDim # 0
          /\ squeezed[partitionDim] >= numPartitions
          /\ \A i \in 1 .. Len(squeezed) : i # partitionDim => cellSize[i] = squeezed[i]
    /\ cellSize # <<>> /\ pc # "shrink" => ProductOf(cellSize) <= MaxValue

\* What is not left to do was read, if the dimensions of the image fit those of the cells.
Readable == cellSize # <<>> => mapped

PiecesInv ==
    /\ pc \in {"call", "partition", "shrink"} => todo = {} /\ reads = {}
    /\ todo \subseteq Pieces
    /\ reads # {} => Readable /\ reads \subseteq {ReadOf(c) : c \in Pieces}
    /\ pc \in {"read", "returned"} =>
          IF Readable THEN reads = {ReadOf(c) : c \in Pieces \ todo} ELSE todo = Pieces
    /\ pc = "returned" => todo = {}

KlbInv == CallInv /\ CutInv /\ PiecesInv

\* A region lies in its image and is not empty.
LEMMA RegionFacts ==
    ASSUME Asked
    PROVE  /\ imageSize \in [Dims -> Nat \ {0}]
           /\ \A d \in Dims : /\ region.min[d] \in Nat /\ region.max[d] \in Nat
                              /\ region.min[d] <= region.max[d]
                              /\ region.max[d] < imageSize[d]
           /\ Size(region) \in [Dims -> Nat \ {0}]
           /\ \A d \in Dims : /\ Size(region)[d] = 1 + region.max[d] - region.min[d]
                              /\ Size(region)[d] <= imageSize[d]
           /\ \E d \in Dims : Size(region)[d] > 1
<1>1. imageSize \in ImageSizes /\ region \in Regions(imageSize)
  BY DEF Asked
<1>2. /\ imageSize \in [Dims -> Nat \ {0}]
      /\ \A d \in Dims : region.min[d] \in Nat /\ region.max[d] \in Nat
  BY <1>1, JavaRegionsAssumption
<1>3. \A d \in Dims : region.min[d] <= region.max[d] /\ region.max[d] < imageSize[d]
  BY <1>1, JavaRegionsAssumption
<1>4. \A d \in Dims : Size(region)[d] = 1 + region.max[d] - region.min[d]
  BY DEF Size
<1>5. \A d \in Dims : Size(region)[d] \in Nat \ {0} /\ Size(region)[d] <= imageSize[d]
  <2> SUFFICES ASSUME NEW d \in Dims
               PROVE  Size(region)[d] \in Nat \ {0} /\ Size(region)[d] <= imageSize[d]
    OBVIOUS
  <2>1. imageSize[d] \in Nat
    BY <1>2
  <2> QED
    BY <1>2, <1>3, <1>4, <2>1
<1>6. Size(region) \in [Dims -> Nat \ {0}]
  BY <1>5 DEF Size
<1>7. PICK d \in Dims : region.min[d] < region.max[d]
  BY <1>1, JavaRegionsAssumption
<1>8. Size(region)[d] > 1
  BY <1>2, <1>4, <1>7
<1> QED
  BY <1>2, <1>3, <1>4, <1>5, <1>6, <1>8

\* The sizes that are left of a region when dimensions of length 1 are squeezed out.
LEMMA SqueezedFacts ==
    ASSUME Asked
    PROVE  /\ Len(squeezed) \in Nat \ {0}
           /\ Len(squeezed) = Len(Kept(Size(region)))
           /\ DOMAIN squeezed = 1 .. Len(squeezed)
           /\ squeezed \in [1 .. Len(squeezed) -> Nat \ {0}]
           /\ ProductOf(squeezed) \in Nat \ {0}
           /\ \A i \in 1 .. Len(squeezed) :
                 /\ Kept(Size(region))[i] \in Dims
                 /\ squeezed[i] = Size(region)[Kept(Size(region))[i]]
<1>1. Size(region) \in [Dims -> Nat] /\ Size(region) \in [Dims -> Nat \ {0}]
  BY RegionFacts
<1>2. PICK m : m = Len(Kept(Size(region)))
  OBVIOUS
<1>3. m \in Nat
  <2>1. PICK n \in 0 .. 5 : n = 5
    OBVIOUS
  <2>2. Kept(Size(region)) \in Seq(Dims)
    BY <1>1, <2>1, KeptType DEF Kept
  <2> QED
    BY <1>2, <2>2
<1>4. m # 0
  <2>1. PICK d \in Dims : Size(region)[d] > 1
    BY RegionFacts
  <2>2. Len(KeptBelow(Size(region), d)) + 1 \in 1 .. m
    BY <1>1, <1>2, <2>1, KeptAt
  <2> QED
    BY <1>3, <2>2
<1>5. \A i \in 1 .. m : Kept(Size(region))[i] \in Dims
  BY <1>1, <1>2, KeptOnly
<1>6. squeezed = [i \in 1 .. m |-> Size(region)[Kept(Size(region))[i]]]
  BY <1>2 DEF squeezed
<1>7. squeezed \in [1 .. m -> Nat \ {0}]
  BY <1>1, <1>5, <1>6
<1>8. Len(squeezed) = m /\ DOMAIN squeezed = 1 .. m
  BY <1>3, <1>6
<1>9. ProductOf(squeezed) \in Nat \ {0}
  BY <1>3, <1>7, ProductPositive
<1> QED
  BY <1>2, <1>3, <1>4, <1>5, <1>6, <1>7, <1>8, <1>9

\* Where the size of a dimension that is kept is.
LEMMA SqueezedAt ==
    ASSUME Asked, NEW d \in Dims, Size(region)[d] > 1
    PROVE  /\ Len(KeptBelow(Size(region), d)) + 1 \in 1 .. Len(squeezed)
           /\ squeezed[Len(KeptBelow(Size(region), d)) + 1] = Size(region)[d]
<1>1. Size(region) \in [Dims -> Nat]
  BY RegionFacts
<1>2. PICK i : i = Len(KeptBelow(Size(region), d)) + 1
  OBVIOUS
<1>3. i \in 1 .. Len(Kept(Size(region))) /\ Kept(Size(region))[i] = d
  BY <1>1, <1>2, KeptAt
<1> QED
  BY <1>2, <1>3, SqueezedFacts

\* If the dimensions of the image fit those of the cells, they are the same.
LEMMA MappedFacts ==
    ASSUME Asked, mapped
    PROVE  \A d \in Dims : /\ imageSize[d] > 1 <=> Size(region)[d] > 1
                           /\ imageSize[d] # 1 <=> Size(region)[d] > 1
                           /\ counter(d) = Len(KeptBelow(Size(region), d)) + 1
<1>1. /\ imageSize \in [Dims -> Nat] /\ imageSize \in [Dims -> Nat \ {0}]
      /\ Size(region) \in [Dims -> Nat]
      /\ \A d \in Dims : Size(region)[d] <= imageSize[d]
  BY RegionFacts
<1>2. PICK l \in Nat : l = Len(Kept(imageSize))
  <2>1. PICK n \in 0 .. 5 : n = 5
    OBVIOUS
  <2>2. Kept(imageSize) \in Seq(Dims)
    BY <1>1, <2>1, KeptType DEF Kept
  <2> QED
    BY <2>2
<1>3. PICK m \in Nat : m = Len(squeezed) /\ m = Len(Kept(Size(region)))
  <2>1. Len(squeezed) \in Nat /\ Len(squeezed) = Len(Kept(Size(region)))
    BY SqueezedFacts
  <2> QED
    BY Zenon, <2>1
<1>4. l <= m
  <2>1. CASE l = 0
    BY <2>1
  <2>2. CASE l # 0
    <3>1. l \in 1 .. Len(Kept(imageSize))
      BY <1>2, <2>2
    <3>2. PICK d : d = Kept(imageSize)[l]
      OBVIOUS
    <3>3. d \in Dims /\ imageSize[d] > 1 /\ Len(KeptBelow(imageSize, d)) + 1 = l
      BY <1>1, <3>1, <3>2, KeptOnly
    <3>4. imageSize[d] # 1
      BY <1>1, <3>3
    <3> QED
      BY <1>3, <3>3, <3>4 DEF mapped, counter
  <2> QED
    BY <2>1, <2>2
<1>5. Len(Kept(imageSize)) <= Len(Kept(Size(region)))
  BY <1>2, <1>3, <1>4
<1>6. /\ \A d \in Dims : imageSize[d] > 1 <=> Size(region)[d] > 1
      /\ \A d \in 0 .. 5 : KeptBelow(imageSize, d) = KeptBelow(Size(region), d)
  <2>1. PICK size \in [Dims -> Nat], part \in [Dims -> Nat] :
                size = imageSize /\ part = Size(region)
    BY Zenon, <1>1
  <2>2. /\ \A d \in Dims : part[d] <= size[d]
        /\ Len(Kept(size)) <= Len(Kept(part))
    BY Zenon, <1>1, <1>5, <2>1
  <2>3. /\ \A d \in Dims : size[d] > 1 <=> part[d] > 1
        /\ \A d \in 0 .. 5 : KeptBelow(size, d) = KeptBelow(part, d)
    BY <2>2, SameKept
  <2> QED
    BY Zenon, <2>1, <2>3
<1> SUFFICES ASSUME NEW d \in Dims
             PROVE  /\ imageSize[d] # 1 <=> imageSize[d] > 1
                    /\ counter(d) = Len(KeptBelow(Size(region), d)) + 1
  BY <1>6
<1>8. d \in 0 .. 5
  BY DEF Dims
<1>9. imageSize[d] \in Nat \ {0}
  BY <1>1
<1>10. imageSize[d] # 1 <=> imageSize[d] > 1
  BY <1>9
<1> QED
  BY Zenon, <1>6, <1>8, <1>10 DEF counter

\* A region has as many pixels as the image it is read into.
LEMMA RegionFits ==
    ASSUME Asked
    PROVE  ProductOf([i \in 1 .. 5 |-> Size(region)[i - 1]]) = ProductOf(squeezed)
<1> DEFINE f == [i \in 1 .. 5 |-> Size(region)[i - 1]]
<1>1. Size(region) \in [Dims -> Nat] /\ Size(region) \in [Dims -> Nat \ {0}]
  BY RegionFacts
<1>2. f \in [1 .. 5 -> Nat]
  BY <1>1 DEF Dims
<1>3. PICK m \in Nat : m = Len(squeezed) /\ m = Len(Kept(Size(region)))
  <2>1. Len(squeezed) \in Nat /\ Len(squeezed) = Len(Kept(Size(region)))
    BY SqueezedFacts
  <2> QED
    BY Zenon, <2>1
<1>4. squeezed \in [1 .. m -> Nat]
  BY <1>3, SqueezedFacts
<1>5. ASSUME NEW d \in Dims
      PROVE  f[d + 1] = IF Size(region)[d] > 1
                        THEN squeezed[Len(KeptBelow(Size(region), d)) + 1] ELSE 1
  <2>1. d + 1 \in 1 .. 5 /\ (d + 1) - 1 = d
    BY DEF Dims
  <2>2. f[d + 1] = Size(region)[d]
    BY <2>1
  <2>3. CASE Size(region)[d] > 1
    BY <2>2, <2>3, SqueezedAt
  <2>4. CASE ~ (Size(region)[d] > 1)
    <3>1. Size(region)[d] \in Nat \ {0}
      BY <1>1
    <3>2. Size(region)[d] = 1
      BY <2>4, <3>1
    <3> QED
      BY <2>2, <2>4, <3>2
  <2> QED
    BY <2>3, <2>4
<1> HIDE DEF f
<1>6. PICK size \in [Dims -> Nat] : size = Size(region)
  BY <1>1
<1>7. ProductOf(f) = ProductOf(squeezed)
  BY <1>2, <1>3, <1>4, <1>5, <1>6, ProductOfKept
<1> QED
  BY <1>7 DEF f

\* If a dimension that is at least as long as there are parts is cut down to 1, what is
\* left fits into an array: so a cell that does not fit is longer than 1 there.
LEMMA CutEnough ==
    ASSUME Asked, CutInv, pc = "shrink", ProductOf(cellSize) > MaxValue
    PROVE  cellSize[partitionDim] > 1
<1>1. PICK m \in Nat \ {0} : m = Len(squeezed)
  BY SqueezedFacts
<1>2. PICK k \in 1 .. m : k = partitionDim
  BY <1>1 DEF CutInv
<1>3. /\ squeezed \in [1 .. m -> Nat \ {0}] /\ cellSize \in [1 .. m -> Nat \ {0}]
      /\ squeezed[k] >= numPartitions
      /\ \A i \in 1 .. m : i # k => cellSize[i] = squeezed[i]
  BY <1>1, <1>2, SqueezedFacts DEF CutInv
<1> SUFFICES ASSUME cellSize[k] = 1
             PROVE  FALSE
  BY <1>2, <1>3
<1>4. PICK size \in Nat \ {0} : size = ProductOf(squeezed)
  BY SqueezedFacts
<1>5. PICK rest \in Nat : rest = ProductOf(cellSize)
  <2>1. m \in Nat /\ cellSize \in [1 .. m -> Nat \ {0}]
    BY <1>3
  <2>2. ProductOf(cellSize) \in Nat \ {0}
    BY <2>1, ProductPositive
  <2> QED
    BY <2>2
<1>6. PICK len \in Nat \ {0} : len = squeezed[k]
  BY <1>3
<1>7. size = len * rest
  <2>1. m \in Nat /\ squeezed \in [1 .. m -> Nat] /\ cellSize \in [1 .. m -> Nat]
    BY <1>3
  <2>2. \A i \in 1 .. m : i # k => cellSize[i] = squeezed[i]
    BY <1>3
  <2>3. ProductOf(squeezed) = squeezed[k] * ProductOf(cellSize)
    BY <2>1, <2>2, ProductFactor
  <2> QED
    BY <1>4, <1>5, <1>6, <2>3
<1>8. PICK max \in Nat \ {0} : max = MaxValue
  BY JavaRegionsAssumption
<1>9. PICK n \in Nat \ {0} : n = numPartitions
  BY <1>4, <1>8, BlocksDivide DEF numPartitions, CeilDiv
<1>10. PICK z \in Nat : z = n * max
  OBVIOUS
<1>11. size <= z
  <2>1. \A i \in Nat : i < n <=> i * max < size
    BY <1>4, <1>8, <1>9, BlocksDivide DEF numPartitions, CeilDiv
  <2>2. ~ (n < n)
    OBVIOUS
  <2> QED
    BY <1>10, <2>1, <2>2
<1>12. max + 1 <= rest /\ n <= len
  BY <1>2, <1>3, <1>5, <1>6, <1>8, <1>9
<1>13. n * (max + 1) <= len * rest
  <2>1. PICK more \in Nat : more = max + 1
    OBVIOUS
  <2>2. n \in Nat /\ len \in Nat /\ more <= rest
    BY <1>12, <2>1
  <2>3. n * more <= len * rest
    BY <1>12, <2>2, Monotone
  <2> QED
    BY <2>1, <2>3
<1>14. n * (max + 1) = z + n
  <2>1. n * (max + 1) = n * max + n
    OBVIOUS
  <2> QED
    BY <1>10, <2>1
<1>15. PICK y \in Nat : y = z + n /\ y > z
  OBVIOUS
<1>16. y <= size
  BY Zenon, <1>7, <1>13, <1>14, <1>15
<1> QED
  BY SMTT(20), <1>11, <1>15, <1>16

\* The number of parts is positive, and parts of a dimension are not empty.
LEMMA PartsPositive ==
    ASSUME Asked
    PROVE  /\ numPartitions \in Nat \ {0}
           /\ \A i \in 1 .. Len(squeezed) : CeilDiv(squeezed[i], numPartitions) \in Nat \ {0}
<1>1. PICK size \in Nat \ {0}, max \in Nat \ {0} : size = ProductOf(squeezed) /\ max = MaxValue
  BY SqueezedFacts, JavaRegionsAssumption
<1>2. PICK n \in Nat \ {0} : n = numPartitions
  BY <1>1, BlocksDivide DEF numPartitions, CeilDiv
<1>3. ASSUME NEW i \in 1 .. Len(squeezed)
      PROVE  CeilDiv(squeezed[i], n) \in Nat \ {0}
  <2>1. PICK x \in Nat \ {0} : x = squeezed[i]
    BY SqueezedFacts
  <2>2. (x + n - 1) \div n \in Nat \ {0}
    BY BlocksDivide
  <2> QED
    BY <2>1, <2>2 DEF CeilDiv
<1> QED
  BY <1>2, <1>3

\* The calls stay as they are.
LEMMA CallStays ==
    ASSUME CallInv, UNCHANGED callVars
    PROVE  /\ CallInv'
           /\ squeezed' = squeezed /\ numPartitions' = numPartitions /\ OneArray' = OneArray
           /\ mapped' = mapped
           /\ \A c : CellRegion(c)' = CellRegion(c)
<1>1. squeezed' = squeezed
  BY DEF callVars, squeezed
<1>2. numPartitions' = numPartitions /\ OneArray' = OneArray
  BY <1>1 DEF numPartitions, OneArray
<1>3. \A d : counter(d)' = counter(d)
  BY DEF callVars, counter
<1>4. mapped' = mapped
  BY <1>1, <1>3 DEF callVars, mapped
<1>5. \A c : CellRegion(c)' = CellRegion(c)
  BY <1>3 DEF callVars, CellRegion
<1>6. CallInv'
  BY <1>1 DEF callVars, CallInv, Asked
<1> QED
  BY <1>1, <1>2, <1>4, <1>5, <1>6

\* So do the pieces, once the size of the cells is chosen.
LEMMA PiecesStay ==
    ASSUME CallInv, UNCHANGED <<callVars, cellSize>>
    PROVE  /\ Pieces' = Pieces
           /\ Readable' = Readable
           /\ \A c : ReadOf(c)' = ReadOf(c)
<1>1. /\ squeezed' = squeezed /\ OneArray' = OneArray /\ mapped' = mapped
      /\ \A c : CellRegion(c)' = CellRegion(c)
  BY CallStays
<1>2. \A o : CellAt(o)' = CellAt(o)
  BY <1>1 DEF CellAt
<1>3. Offsets' = Offsets
  BY <1>1 DEF Offsets
<1>4. Cells' = Cells
  BY <1>2, <1>3 DEF Cells
<1>5. Pieces' = Pieces /\ Readable' = Readable
  BY <1>1, <1>4 DEF Pieces, Readable
<1>6. \A c : ReadOf(c)' = ReadOf(c)
  BY <1>1 DEF ReadOf, Read, callVars
<1> QED
  BY <1>5, <1>6

\* If no read is made, nothing but the program counter matters.
LEMMA PiecesKept ==
    ASSUME CallInv, PiecesInv, UNCHANGED <<callVars, cellSize, todo, reads>>,
           \/ pc' \in {"call", "partition", "shrink"} /\ todo = {} /\ reads = {}
           \/ pc' \in {"IOException", "IndexOutOfBounds"}
           \/ pc' = pc
           \/ pc = "read" /\ pc' = "returned" /\ todo = {}
    PROVE  PiecesInv'
<1>1. /\ Pieces' = Pieces /\ Readable' = Readable
      /\ \A c : ReadOf(c)' = ReadOf(c)
  BY PiecesStay
<1> DEFINE All == {ReadOf(c) : c \in Pieces}
           Made == {ReadOf(c) : c \in Pieces \ todo}
<1>2. All' = All /\ Made' = Made
  BY <1>1
<1>3. /\ reads # {} => Readable /\ reads \subseteq All
      /\ pc \in {"read", "returned"} => IF Readable THEN reads = Made ELSE todo = Pieces
      /\ todo \subseteq Pieces
      /\ pc \in {"call", "partition", "shrink"} => todo = {} /\ reads = {}
      /\ pc = "returned" => todo = {}
  BY DEF PiecesInv
<1> HIDE DEF All, Made
<1>4. /\ reads' # {} => Readable' /\ reads' \subseteq All'
      /\ pc' \in {"read", "returned"} => IF Readable' THEN reads' = Made' ELSE todo' = Pieces'
      /\ todo' \subseteq Pieces'
      /\ pc' \in {"call", "partition", "shrink"} => todo' = {} /\ reads' = {}
      /\ pc' = "returned" => todo' = {}
  BY <1>1, <1>2, <1>3
<1> QED
  BY <1>4 DEF PiecesInv, All, Made

\* Nothing was read of an image that is not cut when it is decided to read it whole.
LEMMA StartWhole ==
    ASSUME KlbInv, pc = "call", UNCHANGED <<callVars, partitionDim, cellSize, reads>>,
           todo' = {OneArray}, pc' = "read"
    PROVE  KlbInv'
<1>1. CallInv' /\ squeezed' = squeezed /\ OneArray' = OneArray
  BY CallStays DEF KlbInv
<1>2. cellSize = <<>> /\ reads = {}
  BY DEF KlbInv, CutInv, PiecesInv
<1>3. CutInv'
  BY <1>1, <1>2 DEF KlbInv, CutInv
<1>4. Pieces' = {OneArray}
  BY <1>1, <1>2 DEF Pieces
<1>5. PiecesInv'
  BY <1>1, <1>2, <1>4 DEF PiecesInv, Readable
<1> QED
  BY <1>1, <1>3, <1>5 DEF KlbInv

\* UseArray, FillInPlace.
LEMMA WholeSteps ==
    ASSUME KlbInv, UseArray \/ FillInPlace
    PROVE  KlbInv'
<1>1. /\ pc = "call" /\ UNCHANGED <<callVars, partitionDim, cellSize, reads>>
      /\ todo' = {OneArray} /\ pc' = "read"
  BY DEF UseArray, FillInPlace
<1> QED
  BY <1>1, StartWhole

\* The steps that only look for a dimension to cut.
LEMMA SearchSteps ==
    ASSUME KlbInv, UseCells \/ SkipDim \/ NoDim
    PROVE  KlbInv'
<1>1. /\ UNCHANGED <<callVars, cellSize, todo, reads>>
      /\ pc \in {"call", "partition"} /\ kind = "new"
      /\ pc' = "partition" \/ pc' = "IndexOutOfBounds"
      /\ partitionDim' = Len(squeezed) \/ partitionDim' = partitionDim
         \/ (partitionDim > 0 /\ partitionDim' = partitionDim - 1)
  BY DEF UseCells, SkipDim, NoDim, KlbInv, CutInv
<1>2. CallInv' /\ squeezed' = squeezed
  BY <1>1, CallStays DEF KlbInv
<1>3. /\ cellSize = <<>> /\ cellSize' = <<>> /\ todo = {} /\ reads = {}
      /\ kind' = kind
  BY <1>1 DEF KlbInv, CutInv, PiecesInv, callVars
<1>4. partitionDim' \in 0 .. Len(squeezed)
  <2>1. partitionDim \in 0 .. Len(squeezed) /\ Len(squeezed) \in Nat
    BY SqueezedFacts DEF KlbInv, CallInv, CutInv
  <2> QED
    BY <1>1, <2>1
<1>5. CutInv'
  BY <1>1, <1>2, <1>3, <1>4 DEF CutInv
<1>6. PiecesInv'
  BY <1>1, <1>3, PiecesKept DEF KlbInv
<1> QED
  BY <1>2, <1>5, <1>6 DEF KlbInv

\* Cutting a dimension.
LEMMA CutDimStep ==
    ASSUME KlbInv, CutDim
    PROVE  KlbInv'
<1>0. CallInv /\ Asked /\ UNCHANGED callVars
  BY DEF KlbInv, CallInv, CutDim
<1>1. /\ UNCHANGED <<callVars, partitionDim, todo, reads>>
      /\ pc = "partition" /\ pc' = "shrink" /\ kind = "new" /\ kind' = kind
      /\ partitionDim > 0 /\ partitionDim \in 0 .. Len(squeezed)
      /\ squeezed[partitionDim] >= numPartitions
  BY DEF CutDim, KlbInv, CutInv, callVars
<1>2. CallInv' /\ squeezed' = squeezed /\ numPartitions' = numPartitions
  BY Zenon, <1>0, CallStays
<1>3. PICK m \in Nat \ {0} : m = Len(squeezed) /\ squeezed \in [1 .. m -> Nat \ {0}]
  <2>1. Len(squeezed) \in Nat \ {0} /\ squeezed \in [1 .. Len(squeezed) -> Nat \ {0}]
    BY <1>0, SqueezedFacts
  <2> QED
    BY Zenon, <2>1
<1>4. PICK k \in 1 .. m : k = partitionDim
  BY <1>1, <1>3
<1>5. PICK v \in Nat \ {0} : v = CeilDiv(squeezed[k], numPartitions)
  BY <1>0, <1>3, PartsPositive
<1>6. cellSize' = [squeezed EXCEPT ![k] = v]
  BY <1>4, <1>5 DEF CutDim
<1>7. /\ cellSize' \in [1 .. m -> Nat \ {0}]
      /\ \A i \in 1 .. m : i # k => cellSize'[i] = squeezed[i]
  BY <1>3, <1>6
<1>8. cellSize' # <<>>
  BY <1>7
<1>9. CutInv'
  BY <1>1, <1>2, <1>3, <1>4, <1>7, <1>8 DEF CutInv
<1>10. todo = {} /\ reads = {}
  BY <1>1 DEF KlbInv, PiecesInv
<1>11. PiecesInv'
  BY <1>1, <1>10 DEF PiecesInv
<1> QED
  BY <1>2, <1>9, <1>11 DEF KlbInv

\* Making a cell shorter leaves something of it.
LEMMA ShrinkStep ==
    ASSUME KlbInv, Shrink
    PROVE  KlbInv'
<1>0. CallInv /\ Asked /\ UNCHANGED callVars
  BY DEF KlbInv, CallInv, Shrink
<1>1. /\ UNCHANGED <<callVars, pc, partitionDim, todo, reads>>
      /\ pc = "shrink" /\ kind' = kind /\ ProductOf(cellSize) > MaxValue
  BY Zenon DEF Shrink, callVars
<1>2. CallInv' /\ squeezed' = squeezed /\ numPartitions' = numPartitions
  BY Zenon, <1>0, CallStays
<1>3. PICK m \in Nat \ {0} : m = Len(squeezed)
  BY <1>0, SqueezedFacts
<1>4. PICK k \in 1 .. m : k = partitionDim
  BY <1>1, <1>3 DEF KlbInv, CutInv
<1>5. /\ cellSize \in [1 .. m -> Nat \ {0}] /\ kind = "new"
      /\ squeezed[k] >= numPartitions
      /\ \A i \in 1 .. m : i # k => cellSize[i] = squeezed[i]
  BY <1>1, <1>3, <1>4 DEF KlbInv, CutInv
<1>6. cellSize[k] > 1
  BY <1>1, <1>4, CutEnough DEF KlbInv, CallInv
<1>7. PICK v \in Nat \ {0} : v = cellSize[k] - 1
  BY <1>5, <1>6
<1>8. cellSize' = [cellSize EXCEPT ![k] = v]
  BY <1>4, <1>7 DEF Shrink
<1>9. /\ cellSize' \in [1 .. m -> Nat \ {0}]
      /\ \A i \in 1 .. m : i # k => cellSize'[i] = squeezed[i]
  BY <1>5, <1>8
<1>10. cellSize' # <<>>
  BY <1>9
<1>11. CutInv'
  BY <1>1, <1>2, <1>3, <1>4, <1>5, <1>9, <1>10 DEF CutInv
<1>12. todo = {} /\ reads = {}
  BY <1>1 DEF KlbInv, PiecesInv
<1>13. PiecesInv'
  BY <1>1, <1>12 DEF PiecesInv
<1> QED
  BY <1>2, <1>11, <1>13 DEF KlbInv

\* Creating the cells.
LEMMA CreateCellsStep ==
    ASSUME KlbInv, CreateCells
    PROVE  KlbInv'
<1>1. /\ UNCHANGED <<callVars, partitionDim, cellSize, reads>>
      /\ pc = "shrink" /\ pc' = "read" /\ ProductOf(cellSize) <= MaxValue
      /\ todo' = Cells
  BY DEF CreateCells
<1>2. /\ CallInv' /\ squeezed' = squeezed
      /\ Pieces' = Pieces /\ Readable' = Readable /\ kind' = kind
  BY <1>1, CallStays, PiecesStay DEF KlbInv, callVars
<1>3. cellSize # <<>> /\ reads = {}
  BY <1>1 DEF KlbInv, CutInv, PiecesInv
<1>4. CutInv'
  BY <1>1, <1>2 DEF KlbInv, CutInv
<1>5. todo' = Pieces'
  BY <1>1, <1>2, <1>3 DEF Pieces
<1>6. {ReadOf(c) : c \in Pieces \ todo}' = {}
  BY <1>5
<1>7. PiecesInv'
  BY <1>1, <1>2, <1>3, <1>5, <1>6 DEF PiecesInv
<1> QED
  BY <1>2, <1>4, <1>7 DEF KlbInv

\* Reading a piece.
LEMMA ReadPiece ==
    ASSUME KlbInv, pc = "read", Readable, NEW c \in todo,
           UNCHANGED <<callVars, pc, partitionDim, cellSize>>,
           reads' = reads \cup {ReadOf(c)}, todo' = todo \ {c}
    PROVE  KlbInv'
<1>0. CallInv /\ UNCHANGED <<callVars, cellSize>>
  BY DEF KlbInv
<1>1. /\ Pieces' = Pieces /\ Readable' = Readable
      /\ \A p : ReadOf(p)' = ReadOf(p)
  BY <1>0, PiecesStay
<1>2. CallInv' /\ squeezed' = squeezed /\ numPartitions' = numPartitions
  BY Zenon, <1>0, CallStays
<1>3. CutInv'
  BY <1>2 DEF KlbInv, CutInv, callVars
<1> DEFINE All == {ReadOf(p) : p \in Pieces}
           Made(left) == {ReadOf(p) : p \in Pieces \ left}
<1>4. All' = All /\ Made(todo)' = Made(todo')
  BY <1>1
<1>5. /\ todo \subseteq Pieces /\ reads = Made(todo)
  BY DEF KlbInv, PiecesInv
<1>6. c \in Pieces
  BY <1>5
<1>7. reads' = Made(todo')
  <2>1. Made(todo \ {c}) = Made(todo) \cup {ReadOf(c)}
    BY <1>6
  <2> HIDE DEF Made
  <2> QED
    BY <1>5, <2>1
<1>8. reads' \subseteq All
  BY <1>7
<1>9. todo' \subseteq Pieces
  BY <1>5
<1> HIDE DEF All, Made
<1>10. /\ todo' \subseteq Pieces'
       /\ Readable' /\ reads' \subseteq All' /\ reads' = Made(todo)'
       /\ pc' = "read"
  BY <1>1, <1>4, <1>7, <1>8, <1>9
<1>11. PiecesInv'
  BY <1>10 DEF PiecesInv, All, Made
<1> QED
  BY <1>2, <1>3, <1>11 DEF KlbInv

\* ReadArray, ReadCell.
LEMMA ReadSteps ==
    ASSUME KlbInv, ReadArray \/ ReadCell
    PROVE  KlbInv'
<1>1. CASE ReadArray
  <2>1. PICK c \in todo : /\ reads' = reads \cup {Read(region, c, outSize)}
                          /\ todo' = todo \ {c}
    BY <1>1 DEF ReadArray
  <2>2. /\ pc = "read" /\ cellSize = <<>>
        /\ UNCHANGED <<callVars, pc, partitionDim, cellSize>>
    BY <1>1 DEF ReadArray
  <2>3. ReadOf(c) = Read(region, c, outSize) /\ Readable
    BY <2>2 DEF ReadOf, Readable
  <2> QED
    BY <2>1, <2>2, <2>3, ReadPiece
<1>2. CASE ReadCell
  <2>1. PICK c \in todo : /\ reads' = reads \cup {Read(CellRegion(c), c, ProductOf(c.size))}
                          /\ todo' = todo \ {c}
    BY <1>2 DEF ReadCell
  <2>2. /\ pc = "read" /\ cellSize # <<>> /\ mapped
        /\ UNCHANGED <<callVars, pc, partitionDim, cellSize>>
    BY <1>2 DEF ReadCell
  <2>3. ReadOf(c) = Read(CellRegion(c), c, ProductOf(c.size)) /\ Readable
    BY <2>2 DEF ReadOf, Readable
  <2> QED
    BY <2>1, <2>2, <2>3, ReadPiece
<1> QED
  BY <1>1, <1>2

\* The steps that end a call, and those after it.
LEMMA EndSteps ==
    ASSUME KlbInv, Mismatch \/ CellUnmapped \/ ReadFails \/ Wrap \/ Done \/ UNCHANGED vars
    PROVE  KlbInv'
<1>1. /\ UNCHANGED <<callVars, partitionDim, cellSize, todo, reads>>
      /\ \/ pc' \in {"IOException", "IndexOutOfBounds"} /\ pc \in {"call", "read"}
         \/ pc' = pc
         \/ pc = "read" /\ pc' = "returned" /\ todo = {}
  BY DEF Mismatch, CellUnmapped, ReadFails, Wrap, Done, vars, callVars
<1>0. CallInv /\ PiecesInv /\ CutInv
  BY DEF KlbInv
<1>2. CallInv' /\ squeezed' = squeezed /\ numPartitions' = numPartitions
  BY Zenon, <1>0, <1>1, CallStays
<1>3. CutInv'
  BY <1>0, <1>1, <1>2 DEF CutInv, callVars
<1>4. PiecesInv'
  <2>1. \/ pc' \in {"IOException", "IndexOutOfBounds"}
        \/ pc' = pc
        \/ pc = "read" /\ pc' = "returned" /\ todo = {}
    BY <1>1
  <2> QED
    BY <1>0, <1>1, <2>1, PiecesKept
<1> QED
  BY <1>2, <1>3, <1>4 DEF KlbInv

\* At the start.
LEMMA KlbInit == Init => KlbInv
<1> SUFFICES ASSUME Init
             PROVE  KlbInv
  OBVIOUS
<1>1. /\ imageSize \in ImageSizes /\ region \in Regions(imageSize)
      /\ dataType \in Types /\ kind \in Kinds
      /\ kind = "new" => outType = dataType /\ outSize = ProductOf(squeezed)
      /\ kind # "new" => outType \in Types /\ outSize \in InPlaceSizes
  BY DEF Init
<1>2. Asked
  BY <1>1 DEF Asked
<1>3. CallInv
  <2>1. kind = "new" => outSize \in Nat \ {0}
    BY <1>1, <1>2, SqueezedFacts
  <2>2. kind # "new" => outSize \in Nat \ {0}
    BY <1>1, JavaRegionsAssumption
  <2> QED
    BY <1>1, <1>2, <2>1, <2>2 DEF CallInv
<1>4. CutInv
  <2>1. Len(squeezed) \in Nat
    BY <1>2, SqueezedFacts
  <2> QED
    BY <1>1, <2>1 DEF Init, CutInv
<1>5. PiecesInv
  BY DEF Init, PiecesInv
<1> QED
  BY <1>3, <1>4, <1>5 DEF KlbInv

\* A cell starts at a multiple of the size of cells, and is no larger than they are.
LEMMA CellFacts ==
    ASSUME Asked, cellSize \in [1 .. Len(squeezed) -> Nat \ {0}], NEW c \in Cells
    PROVE  /\ c.offset \in [1 .. Len(squeezed) -> Nat]
           /\ c.size \in [1 .. Len(squeezed) -> Nat \ {0}]
           /\ \A i \in 1 .. Len(squeezed) :
                 /\ c.offset[i] < squeezed[i] /\ c.offset[i] % cellSize[i] = 0
                 /\ c.size[i] = IF cellSize[i] < squeezed[i] - c.offset[i]
                                THEN cellSize[i] ELSE squeezed[i] - c.offset[i]
                 /\ c.size[i] <= cellSize[i]
           /\ c = CellAt(c.offset)
           /\ c = [offset |-> c.offset, size |-> c.size]
<1>1. PICK m \in Nat \ {0} : m = Len(squeezed)
  BY SqueezedFacts
<1>2. DOMAIN squeezed = 1 .. m /\ squeezed \in [1 .. m -> Nat \ {0}]
  BY <1>1, SqueezedFacts
<1>3. PICK o \in Offsets : c = CellAt(o)
  BY DEF Cells
<1>4. /\ o \in [1 .. m -> UNION {0 .. squeezed[i] - 1 : i \in 1 .. m}]
      /\ \A i \in 1 .. m : o[i] < squeezed[i] /\ o[i] % cellSize[i] = 0
  BY <1>2, <1>3 DEF Offsets
<1>5. o \in [1 .. m -> Nat]
  <2>1. ASSUME NEW i \in 1 .. m
        PROVE  o[i] \in Nat
    <3> DEFINE R == {0 .. squeezed[j] - 1 : j \in 1 .. m}
    <3>1. o \in [1 .. m -> UNION R]
      BY <1>4
    <3>2. PICK S \in R : o[i] \in S
      <4> HIDE DEF R
      <4> QED
        BY <3>1
    <3>3. PICK j \in 1 .. m : S = 0 .. squeezed[j] - 1
      OBVIOUS
    <3> QED
      BY <3>2, <3>3
  <2> QED
    BY <1>4, <2>1
<1> DEFINE z == [i \in 1 .. m |-> IF cellSize[i] < squeezed[i] - o[i]
                                  THEN cellSize[i] ELSE squeezed[i] - o[i]]
<1>6. CellAt(o) = [offset |-> o, size |-> z]
  BY <1>2 DEF CellAt
<1>7. ASSUME NEW i \in 1 .. m
      PROVE  /\ z[i] = IF cellSize[i] < squeezed[i] - o[i]
                       THEN cellSize[i] ELSE squeezed[i] - o[i]
             /\ z[i] \in Nat \ {0} /\ z[i] <= cellSize[i]
  <2>1. z[i] = IF cellSize[i] < squeezed[i] - o[i] THEN cellSize[i] ELSE squeezed[i] - o[i]
    OBVIOUS
  <2>2. /\ cellSize[i] \in Nat \ {0} /\ squeezed[i] \in Nat \ {0}
        /\ o[i] \in Nat /\ o[i] < squeezed[i]
    BY <1>1, <1>2, <1>4, <1>5
  <2> QED
    BY <2>1, <2>2
<1>8. z \in [1 .. m -> Nat \ {0}]
  BY <1>7
<1> HIDE DEF z
<1>9. c.offset = o /\ c.size = z
  BY <1>3, <1>6
<1> QED
  BY <1>1, <1>3, <1>4, <1>5, <1>6, <1>7, <1>8, <1>9

\* The pieces are made of sequences, and those that are cells fit into an array.
LEMMA PieceFacts ==
    ASSUME CallInv, CutInv, NEW c \in Pieces
    PROVE  /\ c \in Cell
           /\ pc # "shrink" => \/ ReadOf(c).length = outSize
                               \/ ReadOf(c).length \in 1 .. MaxValue
<1>0. Asked
  BY DEF CallInv
<1>1. PICK m \in Nat \ {0} : m = Len(squeezed)
  BY <1>0, SqueezedFacts
<1>2. squeezed \in [1 .. m -> Nat \ {0}]
  BY <1>0, <1>1, SqueezedFacts
<1>3. CASE cellSize = <<>>
  <2>1. c = [offset |-> [i \in 1 .. m |-> 0], size |-> squeezed]
    BY <1>1, <1>3 DEF Pieces, OneArray
  <2>2. [i \in 1 .. m |-> 0] \in Seq(Nat) /\ squeezed \in Seq(Nat \ {0})
    BY <1>2
  <2>3. ReadOf(c).length = outSize
    BY <1>3 DEF ReadOf, Read
  <2> QED
    BY <2>1, <2>2, <2>3 DEF Cell
<1>4. CASE cellSize # <<>>
  <2>1. c \in Cells /\ cellSize \in [1 .. m -> Nat \ {0}]
    BY <1>1, <1>4 DEF Pieces, CutInv
  <2>2. /\ c.offset \in [1 .. m -> Nat] /\ c.size \in [1 .. m -> Nat \ {0}]
        /\ \A i \in 1 .. m : c.size[i] <= cellSize[i]
        /\ c = [offset |-> c.offset, size |-> c.size]
    BY <1>0, <1>1, <2>1, CellFacts
  <2>3. c.offset \in Seq(Nat) /\ c.size \in Seq(Nat \ {0})
    <3>1. PICK o \in [1 .. m -> Nat], z \in [1 .. m -> Nat \ {0}] : o = c.offset /\ z = c.size
      BY Zenon, <2>2
    <3>2. o \in Seq(Nat) /\ z \in Seq(Nat \ {0})
      OBVIOUS
    <3> QED
      BY Zenon, <3>1, <3>2
  <2>4. ReadOf(c).length = ProductOf(c.size)
    BY <1>4 DEF ReadOf, Read
  <2>5. ProductOf(c.size) \in Nat \ {0} /\ ProductOf(cellSize) \in Nat \ {0}
    BY <2>1, <2>2, ProductPositive
  <2>6. ProductOf(c.size) <= ProductOf(cellSize)
    <3>1. c.size \in [1 .. m -> Nat] /\ cellSize \in [1 .. m -> Nat]
      BY <2>1, <2>2
    <3> QED
      BY <2>2, <3>1, ProductMonotone
  <2>7. pc # "shrink" => ProductOf(cellSize) <= MaxValue /\ MaxValue \in Nat
    BY <1>4, JavaRegionsAssumption DEF CutInv
  <2>8. pc # "shrink" => ReadOf(c).length \in 1 .. MaxValue
    BY <2>4, <2>5, <2>6, <2>7
  <2> QED
    BY <2>2, <2>3, <2>8 DEF Cell
<1> QED
  BY <1>3, <1>4

\* The invariant implies the types.
LEMMA KlbTypes == KlbInv => TypeOK
<1> SUFFICES ASSUME KlbInv
             PROVE  TypeOK
  OBVIOUS
<1>0. CallInv /\ CutInv /\ PiecesInv
  BY DEF KlbInv
<1>1. PICK m \in Nat \ {0} : m = Len(squeezed)
  BY <1>0, SqueezedFacts DEF CallInv
<1>2. cellSize \in Seq(Nat \ {0})
  <2>1. CASE cellSize = <<>>
    BY <2>1
  <2>2. CASE cellSize # <<>>
    <3>1. cellSize \in [1 .. m -> Nat \ {0}]
      BY <1>0, <1>1, <2>2 DEF CutInv
    <3> QED
      BY <3>1
  <2> QED
    BY <2>1, <2>2
<1>3. todo \subseteq Cell
  BY <1>0, PieceFacts DEF PiecesInv
<1>4. ASSUME NEW r \in reads
      PROVE  r.length \in 1 .. MaxValue \/ r.length = outSize
  <2>1. pc # "shrink"
    BY <1>0, <1>4 DEF PiecesInv
  <2>2. PICK c \in Pieces : r = ReadOf(c)
    BY <1>0, <1>4 DEF PiecesInv
  <2> QED
    BY <1>0, <2>1, <2>2, PieceFacts
<1> QED
  BY <1>0, <1>2, <1>3, <1>4 DEF TypeOK, CallInv, Asked, CutInv

\* A read of a cell has the size of the cell.
LEMMA CellFits ==
    ASSUME Asked, mapped, cellSize \in [1 .. Len(squeezed) -> Nat \ {0}], NEW c \in Cells,
           NEW r, r.min = CellRegion(c).min, r.max = CellRegion(c).max
    PROVE  ProductOf([i \in 1 .. 5 |-> Size(r)[i - 1]]) = ProductOf(c.size)
<1> DEFINE f == [i \in 1 .. 5 |-> Size(r)[i - 1]]
<1>1. PICK size \in [Dims -> Nat] : size = Size(region)
  BY RegionFacts
<1>2. PICK m \in Nat : m = Len(squeezed) /\ m = Len(Kept(size))
  <2>1. Len(squeezed) \in Nat /\ Len(squeezed) = Len(Kept(Size(region)))
    BY SqueezedFacts
  <2> QED
    BY Zenon, <1>1, <2>1
<1>3. c.offset \in [1 .. m -> Nat] /\ c.size \in [1 .. m -> Nat \ {0}]
  BY <1>2, CellFacts
<1>4. ASSUME NEW d \in Dims
      PROVE  /\ Size(r)[d] \in Nat
             /\ Size(r)[d] = IF size[d] > 1 THEN c.size[Len(KeptBelow(size, d)) + 1] ELSE 1
  <2>1. Size(r)[d] = 1 + CellRegion(c).max[d] - CellRegion(c).min[d]
    BY DEF Size
  <2>2. CASE ~ (size[d] > 1)
    <3>1. imageSize[d] = 1
      BY <1>1, <2>2, MappedFacts
    <3>2. CellRegion(c).max[d] = 0 /\ CellRegion(c).min[d] = 0
      BY <3>1 DEF CellRegion
    <3> QED
      BY <2>1, <2>2, <3>2
  <2>3. CASE size[d] > 1
    <3>1. imageSize[d] # 1 /\ counter(d) = Len(KeptBelow(size, d)) + 1
      BY <1>1, <2>3, MappedFacts
    <3>2. PICK i \in 1 .. m : i = Len(KeptBelow(size, d)) + 1
      BY <1>1, <1>2, <2>3, SqueezedAt
    <3>5. region.min[d] \in Nat
      BY RegionFacts
    <3>6. c.offset[i] \in Nat /\ c.size[i] \in Nat
      BY <1>3, <3>2
    <3>3. PICK low \in Nat, n \in Nat : low = region.min[d] + c.offset[i] /\ n = c.size[i]
      <4>1. region.min[d] + c.offset[i] \in Nat
        BY <3>5, <3>6
      <4> QED
        BY Zenon, <3>6, <4>1
    <3>4. CellRegion(c).min[d] = low /\ CellRegion(c).max[d] = low + n - 1
      BY <3>1, <3>2, <3>3 DEF CellRegion
    <3> QED
      BY <2>1, <2>3, <3>2, <3>3, <3>4
  <2> QED
    BY <2>2, <2>3
<1>5. f \in [1 .. 5 -> Nat]
  <2>1. \A i \in 1 .. 5 : i - 1 \in Dims
    BY DEF Dims
  <2> QED
    BY <1>4, <2>1
<1>6. \A d \in Dims : f[d + 1] = IF size[d] > 1 THEN c.size[Len(KeptBelow(size, d)) + 1] ELSE 1
  <2>1. \A d \in Dims : d + 1 \in 1 .. 5 /\ (d + 1) - 1 = d
    BY DEF Dims
  <2>2. \A d \in Dims : f[d + 1] = Size(r)[d]
    BY <2>1
  <2> HIDE DEF f
  <2> QED
    BY <1>4, <2>2
<1>7. PICK s \in [1 .. m -> Nat] : s = c.size
  BY <1>3
<1> HIDE DEF f
<1>8. ProductOf(f) = ProductOf(s)
  BY <1>2, <1>5, <1>6, <1>7, ProductOfKept
<1> QED
  BY <1>7, <1>8 DEF f

\* The invariant implies that reads fit.
LEMMA KlbFits == KlbInv => ReadsFit
<1> SUFFICES ASSUME KlbInv, kind = "new", NEW r \in reads
             PROVE  Fits(r)
  BY DEF ReadsFit
<1>0. CallInv /\ CutInv /\ PiecesInv /\ Asked
  BY DEF KlbInv, CallInv
<1>1. PICK c \in Pieces : r = ReadOf(c)
  BY <1>0 DEF PiecesInv
<1>2. Readable
  BY <1>0 DEF PiecesInv
<1> DEFINE f == [i \in 1 .. 5 |-> Size(r)[i - 1]]
<1>3. ProductOf(f) = r.length /\ r.length \in Nat
  <2>1. CASE cellSize = <<>>
    <3>1. r.min = region.min /\ r.max = region.max /\ r.length = outSize
      BY <1>1, <2>1 DEF ReadOf, Read
    <3>2. Size(r) = Size(region)
      BY <3>1 DEF Size
    <3>3. ProductOf(f) = ProductOf(squeezed)
      BY <1>0, <3>2, RegionFits
    <3> QED
      BY <1>0, <3>1, <3>3 DEF CallInv
  <2>2. CASE cellSize # <<>>
    <3>1. /\ r.min = CellRegion(c).min /\ r.max = CellRegion(c).max
          /\ r.length = ProductOf(c.size)
      BY <1>1, <2>2 DEF ReadOf, Read
    <3>2. mapped /\ c \in Cells /\ cellSize \in [1 .. Len(squeezed) -> Nat \ {0}]
      BY <1>0, <1>2, <2>2 DEF Readable, Pieces, CutInv
    <3>3. PICK m \in Nat : m = Len(squeezed)
      BY <1>0, SqueezedFacts
    <3>4. c.size \in [1 .. m -> Nat \ {0}]
      BY <1>0, <3>2, <3>3, CellFacts
    <3>5. ProductOf(c.size) \in Nat
      BY <3>4, ProductPositive
    <3> QED
      BY <1>0, <3>1, <3>2, <3>5, CellFits
  <2> QED
    BY <2>1, <2>2
<1>4. outType = dataType /\ BytesOf[dataType] \in Nat
  BY <1>0, JavaRegionsAssumption DEF CallInv
<1>5. PICK n \in Nat, b \in Nat : n = r.length /\ b = BytesOf[dataType]
  BY <1>3, <1>4
<1>6. n * b <= n * b
  <2>1. n * b \in Nat
    OBVIOUS
  <2> QED
    BY <2>1
<1> HIDE DEF f
<1> QED
  BY <1>3, <1>4, <1>5, <1>6 DEF Fits, f

\* Along one dimension, of n pixels cut every k, a cell covers a pixel if it starts
\* at the last cut before it.
LEMMA OneCellAlong ==
    ASSUME NEW k \in Nat \ {0}, NEW n \in Nat, NEW y \in Nat, y < n,
           NEW o \in Nat, o < n, o % k = 0,
           NEW s \in Nat, s = IF k < n - o THEN k ELSE n - o
    PROVE  (o <= y /\ y < o + s) <=> o = k * (y \div k)
<1>1. PICK q \in Nat, r \in Nat : q = y \div k /\ r < k /\ y = k * q + r
  BY Division
<1>2. PICK a \in Nat : a = o \div k /\ o = k * a
  <2>1. o \div k \in Nat /\ o = k * (o \div k) + (o % k)
    BY Division
  <2>2. PICK a \in Nat : a = o \div k
    BY <2>1
  <2>3. k * a \in Nat
    OBVIOUS
  <2> QED
    BY <2>1, <2>2, <2>3
<1>3. ASSUME o <= y, y < o + s
      PROVE  o = k * q
  <2>1. PICK b \in Nat : y = o + b /\ b < k
    <3>1. y - o \in Nat /\ y - o < k /\ y = o + (y - o)
      BY <1>3
    <3> QED
      BY <3>1
  <2>2. k * a + b = k * q + r
    BY <1>1, <1>2, <2>1
  <2>3. a = q
    BY <1>1, <2>1, <2>2, OneQuotient
  <2> QED
    BY <1>2, <2>3
<1>4. ASSUME o = k * q
      PROVE  o <= y /\ y < o + s
  <2>1. y = o + r
    BY <1>1, <1>4
  <2>2. r < k /\ (s = k \/ s = n - o)
    BY <1>1
  <2> QED
    BY <2>1, <2>2
<1> QED
  BY <1>1, <1>3, <1>4

\* There is a cell at least.
LEMMA CellsNotEmpty ==
    ASSUME Asked, cellSize \in [1 .. Len(squeezed) -> Nat \ {0}]
    PROVE  Cells # {}
<1>1. PICK m \in Nat \ {0} : m = Len(squeezed)
  BY SqueezedFacts
<1>2. DOMAIN squeezed = 1 .. m /\ squeezed \in [1 .. m -> Nat \ {0}]
  BY <1>1, SqueezedFacts
<1> DEFINE o == [i \in 1 .. m |-> 0]
           R == {0 .. squeezed[i] - 1 : i \in 1 .. m}
<1>3. ASSUME NEW i \in 1 .. m
      PROVE  /\ o[i] < squeezed[i] /\ o[i] % cellSize[i] = 0
             /\ o[i] \in UNION R
  <2>1. squeezed[i] \in Nat \ {0} /\ cellSize[i] \in Nat \ {0} /\ o[i] = 0
    BY <1>1, <1>2
  <2>2. 0 % cellSize[i] = 0
    BY <2>1
  <2>3. 0 \in 0 .. squeezed[i] - 1
    BY <2>1
  <2>4. 0 \in UNION R
    BY <2>3
  <2> HIDE DEF o, R
  <2> QED
    BY <2>1, <2>2, <2>4
<1>4. o \in [1 .. m -> UNION R]
  <2> HIDE DEF R
  <2> QED
    BY <1>3
<1>5. o \in Offsets
  <2> HIDE DEF o
  <2> QED
    BY <1>2, <1>3, <1>4 DEF Offsets
<1> QED
  BY <1>5 DEF Cells

\* Where the region is that a cell is read from.
LEMMA CellBounds ==
    ASSUME Asked, mapped, cellSize \in [1 .. Len(squeezed) -> Nat \ {0}], NEW c \in Cells
    PROVE  /\ \A d \in Dims :
                 imageSize[d] = 1 => CellRegion(c).min[d] = 0 /\ CellRegion(c).max[d] = 0
           /\ \A d \in Dims :
                 imageSize[d] # 1 =>
                     \E i \in 1 .. Len(squeezed) : Kept(Size(region))[i] = d
           /\ \A i \in 1 .. Len(squeezed) : \A d \in Dims :
                 d = Kept(Size(region))[i] =>
                     /\ CellRegion(c).min[d] = region.min[d] + c.offset[i]
                     /\ CellRegion(c).max[d] = region.min[d] + c.offset[i] + c.size[i] - 1
<1>1. Size(region) \in [Dims -> Nat]
  BY RegionFacts
<1>2. ASSUME NEW d \in Dims, imageSize[d] = 1
      PROVE  CellRegion(c).min[d] = 0 /\ CellRegion(c).max[d] = 0
  BY <1>2 DEF CellRegion
<1>3. ASSUME NEW d \in Dims, imageSize[d] # 1
      PROVE  \E i \in 1 .. Len(squeezed) : Kept(Size(region))[i] = d
  <2>1. Size(region)[d] > 1
    BY <1>3, MappedFacts
  <2>2. PICK i : i = Len(KeptBelow(Size(region), d)) + 1
    OBVIOUS
  <2>3. i \in 1 .. Len(squeezed)
    BY <2>1, <2>2, SqueezedAt
  <2>4. Kept(Size(region))[i] = d
    BY <1>1, <2>1, <2>2, KeptAt
  <2> QED
    BY <2>3, <2>4
<1>4. ASSUME NEW i \in 1 .. Len(squeezed), NEW d \in Dims, d = Kept(Size(region))[i]
      PROVE  /\ CellRegion(c).min[d] = region.min[d] + c.offset[i]
             /\ CellRegion(c).max[d] = region.min[d] + c.offset[i] + c.size[i] - 1
  <2>1. PICK size \in [Dims -> Nat] : size = Size(region)
    BY <1>1
  <2>4. i \in 1 .. Len(Kept(size))
    BY <2>1, SqueezedFacts
  <2>5. size[d] > 1 /\ Len(KeptBelow(size, d)) + 1 = i
    BY <1>4, <2>1, <2>4, KeptOnly
  <2>2. Size(region)[d] > 1 /\ Len(KeptBelow(Size(region), d)) + 1 = i
    BY <2>1, <2>5
  <2>3. imageSize[d] # 1 /\ counter(d) = i
    BY <2>2, MappedFacts
  <2> QED
    BY <2>3 DEF CellRegion
<1> QED
  BY <1>2, <1>3, <1>4

\* A pixel of the region is read into a cell if along each dimension that is kept the
\* cell covers it.
LEMMA InCell ==
    ASSUME Asked, mapped, cellSize \in [1 .. Len(squeezed) -> Nat \ {0}], NEW c \in Cells,
           NEW p \in [Dims -> Nat],
           \A d \in Dims : region.min[d] <= p[d] /\ p[d] <= region.max[d],
           NEW x \in [1 .. Len(squeezed) -> Nat],
           \A i \in 1 .. Len(squeezed) : \A d \in Dims :
               d = Kept(Size(region))[i] => p[d] = region.min[d] + x[i]
    PROVE  (\A d \in Dims : CellRegion(c).min[d] <= p[d] /\ p[d] <= CellRegion(c).max[d])
           <=> \A i \in 1 .. Len(squeezed) :
                   c.offset[i] <= x[i] /\ x[i] < c.offset[i] + c.size[i]
<1>1. PICK m \in Nat \ {0} : m = Len(squeezed)
  BY SqueezedFacts
<1>2. c.offset \in [1 .. m -> Nat] /\ c.size \in [1 .. m -> Nat \ {0}]
  BY <1>1, CellFacts
<1>3. ASSUME NEW i \in 1 .. m, NEW d \in Dims, d = Kept(Size(region))[i]
      PROVE  (CellRegion(c).min[d] <= p[d] /\ p[d] <= CellRegion(c).max[d])
             <=> (c.offset[i] <= x[i] /\ x[i] < c.offset[i] + c.size[i])
  <2>1. /\ CellRegion(c).min[d] = region.min[d] + c.offset[i]
        /\ CellRegion(c).max[d] = region.min[d] + c.offset[i] + c.size[i] - 1
    BY <1>1, <1>3, CellBounds
  <2>2. PICK low \in Nat : low = region.min[d]
    BY RegionFacts
  <2>3. PICK a \in Nat, n \in Nat, y \in Nat : a = c.offset[i] /\ n = c.size[i] /\ y = x[i]
    BY <1>1, <1>2
  <2>4. p[d] = low + y
    BY <1>1, <1>3, <2>2, <2>3
  <2>5. CellRegion(c).min[d] = low + a /\ CellRegion(c).max[d] = low + a + n - 1
    BY <2>1, <2>2, <2>3
  <2>6. (low + a <= low + y /\ low + y <= low + a + n - 1) <=> (a <= y /\ y < a + n)
    OBVIOUS
  <2> QED
    BY <2>3, <2>4, <2>5, <2>6
<1>4. ASSUME NEW d \in Dims, imageSize[d] = 1
      PROVE  CellRegion(c).min[d] <= p[d] /\ p[d] <= CellRegion(c).max[d]
  <2>1. CellRegion(c).min[d] = 0 /\ CellRegion(c).max[d] = 0
    BY <1>4, CellBounds
  <2>2. region.max[d] < 1 /\ region.max[d] \in Nat
    BY <1>4, RegionFacts
  <2>3. p[d] \in Nat /\ p[d] <= region.max[d]
    OBVIOUS
  <2> QED
    BY <2>1, <2>2, <2>3
<1>5. \A i \in 1 .. m : Kept(Size(region))[i] \in Dims
  BY <1>1, SqueezedFacts
<1>6. \A d \in Dims : imageSize[d] # 1 => \E i \in 1 .. m : Kept(Size(region))[i] = d
  BY <1>1, CellBounds
<1> DEFINE Reads(d) == CellRegion(c).min[d] <= p[d] /\ p[d] <= CellRegion(c).max[d]
           Covers(i) == c.offset[i] <= x[i] /\ x[i] < c.offset[i] + c.size[i]
<1>7. /\ \A i \in 1 .. m : \A d \in Dims : d = Kept(Size(region))[i] => (Reads(d) <=> Covers(i))
      /\ \A d \in Dims : imageSize[d] = 1 => Reads(d)
  BY <1>3, <1>4
<1>8. (\A d \in Dims : Reads(d)) <=> (\A i \in 1 .. m : Covers(i))
  <2> HIDE DEF Reads, Covers
  <2> QED
    BY Zenon, <1>5, <1>6, <1>7
<1> QED
  BY <1>1, <1>8

\* A pixel of the region is read into one cell.
LEMMA OneCell ==
    ASSUME Asked, mapped, cellSize \in [1 .. Len(squeezed) -> Nat \ {0}],
           NEW p \in [Dims -> Nat],
           \A d \in Dims : region.min[d] <= p[d] /\ p[d] <= region.max[d]
    PROVE  \E c \in Cells : \A b \in Cells :
               (\A d \in Dims : CellRegion(b).min[d] <= p[d] /\ p[d] <= CellRegion(b).max[d])
               <=> b = c
<1>1. PICK m \in Nat \ {0} : m = Len(squeezed)
  BY SqueezedFacts
<1>2. /\ DOMAIN squeezed = 1 .. m /\ squeezed \in [1 .. m -> Nat \ {0}]
      /\ \A i \in 1 .. m : /\ Kept(Size(region))[i] \in Dims
                           /\ squeezed[i] = Size(region)[Kept(Size(region))[i]]
  BY <1>1, SqueezedFacts
<1> DEFINE x == [i \in 1 .. m |-> p[Kept(Size(region))[i]] - region.min[Kept(Size(region))[i]]]
<1>3. ASSUME NEW i \in 1 .. m
      PROVE  /\ x[i] \in Nat /\ x[i] < squeezed[i]
             /\ \A d \in Dims : d = Kept(Size(region))[i] => p[d] = region.min[d] + x[i]
  <2>1. PICK d \in Dims : d = Kept(Size(region))[i]
    BY <1>2
  <2>2. x[i] = p[d] - region.min[d] /\ squeezed[i] = Size(region)[d]
    BY <1>2, <2>1
  <2>3. /\ region.min[d] \in Nat /\ region.max[d] \in Nat
        /\ Size(region)[d] = 1 + region.max[d] - region.min[d]
    BY RegionFacts
  <2>4. p[d] \in Nat /\ region.min[d] <= p[d] /\ p[d] <= region.max[d]
    OBVIOUS
  <2> HIDE DEF x
  <2>5. x[i] \in Nat /\ x[i] < squeezed[i] /\ p[d] = region.min[d] + x[i]
    BY <2>2, <2>3, <2>4
  <2> QED
    BY <2>1, <2>5
<1>4. x \in [1 .. m -> Nat]
  BY <1>3
<1> HIDE DEF x
<1> DEFINE o == [i \in 1 .. m |-> cellSize[i] * (x[i] \div cellSize[i])]
           R == {0 .. squeezed[i] - 1 : i \in 1 .. m}
<1>5. ASSUME NEW i \in 1 .. m
      PROVE  /\ o[i] < squeezed[i] /\ o[i] % cellSize[i] = 0
             /\ o[i] \in UNION R
  <2>1. PICK k \in Nat \ {0} : k = cellSize[i]
    BY <1>1
  <2>2. PICK y \in Nat : y = x[i] /\ y < squeezed[i]
    BY <1>3
  <2>3. PICK q \in Nat, r \in Nat : q = y \div k /\ y = k * q + r
    BY Division
  <2>4. PICK z \in Nat : z = k * q
    OBVIOUS
  <2>5. o[i] = z /\ z <= y
    BY <2>1, <2>2, <2>3, <2>4
  <2>6. z % k = 0
    <3>1. PICK q2 \in Nat, r2 \in Nat : r2 = z % k /\ r2 < k /\ z = k * q2 + r2
      <4>1. /\ z \div k \in Nat /\ z % k \in Nat /\ z % k < k
            /\ z = k * (z \div k) + (z % k)
        BY Division
      <4> QED
        BY Zenon, <4>1
    <3>2. PICK none \in Nat : none = 0 /\ none < k
      OBVIOUS
    <3>3. k * q2 + r2 = k * q + none
      <4>1. z = z + none
        BY <3>2
      <4> QED
        BY Zenon, <2>4, <3>1, <4>1
    <3>4. r2 = 0
      BY <3>1, <3>2, <3>3, OneQuotient
    <3> QED
      BY <3>1, <3>4
  <2>7. z < squeezed[i]
    <3>1. squeezed[i] \in Nat
      BY <1>2
    <3> QED
      BY <2>2, <2>5, <3>1
  <2>8. z \in 0 .. squeezed[i] - 1
    <3>1. squeezed[i] \in Nat
      BY <1>2
    <3> QED
      BY <2>7, <3>1
  <2>9. z \in UNION R
    BY <2>8
  <2> HIDE DEF o, R
  <2> QED
    BY <2>1, <2>5, <2>6, <2>7, <2>9
<1>6. o \in [1 .. m -> UNION R]
  <2> HIDE DEF R
  <2> QED
    BY <1>5
<1>7. o \in Offsets
  <2> HIDE DEF o
  <2> QED
    BY <1>2, <1>5, <1>6 DEF Offsets
<1>8. CellAt(o) \in Cells /\ CellAt(o).offset = o
  BY <1>7 DEF Cells, CellAt
<1>9. ASSUME NEW b \in Cells
      PROVE  (\A i \in 1 .. m : b.offset[i] <= x[i] /\ x[i] < b.offset[i] + b.size[i])
             <=> b = CellAt(o)
  <2>1. /\ b.offset \in [1 .. m -> Nat] /\ b.size \in [1 .. m -> Nat \ {0}]
        /\ b = CellAt(b.offset)
        /\ \A i \in 1 .. m :
              /\ b.offset[i] < squeezed[i] /\ b.offset[i] % cellSize[i] = 0
              /\ b.size[i] = IF cellSize[i] < squeezed[i] - b.offset[i]
                             THEN cellSize[i] ELSE squeezed[i] - b.offset[i]
    BY <1>1, CellFacts
  <2>2. ASSUME NEW i \in 1 .. m
        PROVE  (b.offset[i] <= x[i] /\ x[i] < b.offset[i] + b.size[i]) <=> b.offset[i] = o[i]
    <3>1. PICK k \in Nat \ {0} : k = cellSize[i]
      BY <1>1
    <3>2. PICK n \in Nat : n = squeezed[i]
      BY <1>2
    <3>3. PICK y \in Nat : y = x[i] /\ y < n
      BY <1>3, <3>2
    <3>4. PICK e \in Nat : e = b.offset[i] /\ e < n /\ e % k = 0
      BY <2>1, <3>1, <3>2
    <3>5. PICK s \in Nat : s = b.size[i]
      BY <2>1
    <3>6. s = IF k < n - e THEN k ELSE n - e
      BY <2>1, <3>1, <3>2, <3>4, <3>5
    <3>7. (e <= y /\ y < e + s) <=> e = k * (y \div k)
      <4>1. y < n /\ e < n /\ e % k = 0
        BY <3>3, <3>4
      <4> QED
        BY Zenon, <3>6, <4>1, OneCellAlong
    <3>8. o[i] = k * (y \div k)
      BY <3>1, <3>3
    <3> HIDE DEF o
    <3> QED
      BY <3>3, <3>4, <3>5, <3>7, <3>8
  <2>3. (\A i \in 1 .. m : b.offset[i] = o[i]) <=> b.offset = o
    <3>1. DOMAIN o = 1 .. m /\ o = [i \in 1 .. m |-> o[i]]
      OBVIOUS
    <3> HIDE DEF o
    <3> QED
      BY <2>1, <3>1
  <2> HIDE DEF o
  <2>4. b.offset = o <=> b = CellAt(o)
    BY <1>8, <2>1
  <2> QED
    BY <2>2, <2>3, <2>4
<1> HIDE DEF o
<1>10. ASSUME NEW b \in Cells
       PROVE  (\A d \in Dims : CellRegion(b).min[d] <= p[d] /\ p[d] <= CellRegion(b).max[d])
              <=> b = CellAt(o)
  <2>1. x \in [1 .. Len(squeezed) -> Nat]
    BY <1>1, <1>4
  <2>2. \A i \in 1 .. Len(squeezed) : \A d \in Dims :
            d = Kept(Size(region))[i] => p[d] = region.min[d] + x[i]
    BY <1>1, <1>3
  <2>3. (\A d \in Dims : CellRegion(b).min[d] <= p[d] /\ p[d] <= CellRegion(b).max[d])
        <=> \A i \in 1 .. Len(squeezed) :
                b.offset[i] <= x[i] /\ x[i] < b.offset[i] + b.size[i]
    BY <2>1, <2>2, InCell
  <2> QED
    BY <1>1, <1>9, <2>3
<1> QED
  BY <1>8, <1>10

\* The longest size is one, so that the pixels ReadsTileRegion speaks of are all of the
\* image's.
LEMMA LongestIs ==
    ASSUME Asked
    PROVE  longest \in Nat /\ \A d \in Dims : imageSize[d] <= longest
<1>1. \A d \in Dims : imageSize[d] \in Nat
  BY RegionFacts
<1>2. PICK e \in Dims : \A d \in Dims : imageSize[d] <= imageSize[e]
  <2> DEFINE AtMost(d, e) == imageSize[d] <= imageSize[e]
  <2>1. /\ 0 \in Dims /\ 1 \in Dims /\ 2 \in Dims /\ 3 \in Dims /\ 4 \in Dims
        /\ \A d \in Dims : d = 0 \/ d = 1 \/ d = 2 \/ d = 3 \/ d = 4
    BY DEF Dims
  <2>2. \A d \in Dims, e \in Dims : AtMost(d, e) \/ AtMost(e, d)
    BY <1>1
  <2>3. \A d \in Dims, e \in Dims, f \in Dims : AtMost(d, e) /\ AtMost(e, f) => AtMost(d, f)
    <3> SUFFICES ASSUME NEW d \in Dims, NEW e \in Dims, NEW f \in Dims
                 PROVE  AtMost(d, e) /\ AtMost(e, f) => AtMost(d, f)
      OBVIOUS
    <3>1. imageSize[d] \in Nat /\ imageSize[e] \in Nat /\ imageSize[f] \in Nat
      BY <1>1
    <3> QED
      BY <3>1
  <2>4. \A d \in Dims : AtMost(d, d)
    BY <1>1
  <2> HIDE DEF AtMost
  <2>5. PICK e1 \in Dims : AtMost(0, e1) /\ AtMost(1, e1)
    BY <2>1, <2>2, <2>4
  <2>6. PICK e2 \in Dims : AtMost(e1, e2) /\ AtMost(2, e2)
    BY <2>1, <2>2, <2>4
  <2>7. PICK e3 \in Dims : AtMost(e2, e3) /\ AtMost(3, e3)
    BY <2>1, <2>2, <2>4
  <2>8. PICK e4 \in Dims : AtMost(e3, e4) /\ AtMost(4, e4)
    BY <2>1, <2>2, <2>4
  <2>9. \A d \in Dims : AtMost(d, e4)
    <3>1. AtMost(e2, e4) /\ AtMost(3, e4)
      BY <2>1, <2>3, <2>7, <2>8
    <3>2. AtMost(e1, e4) /\ AtMost(2, e4)
      BY <2>1, <2>3, <2>6, <3>1
    <3>3. AtMost(0, e4) /\ AtMost(1, e4)
      BY <2>1, <2>3, <2>5, <3>2
    <3> QED
      BY <2>1, <2>8, <3>1, <3>2, <3>3
  <2> QED
    BY <2>9 DEF AtMost
<1>3. \E n \in {imageSize[d] : d \in Dims} : \A d \in Dims : imageSize[d] <= n
  BY <1>2
<1>4. longest \in {imageSize[d] : d \in Dims} /\ \A d \in Dims : imageSize[d] <= longest
  BY <1>3 DEF longest
<1> QED
  BY <1>1, <1>4

\* The invariant implies that what is returned was read as a whole.
LEMMA KlbTiles == KlbInv => ReadsTileRegion
<1> SUFFICES ASSUME KlbInv, pc = "returned",
                    NEW p \in [Dims -> 0 .. longest - 1],
                    \A d \in Dims : region.min[d] <= p[d] /\ p[d] <= region.max[d]
             PROVE  \E r \in reads :
                        /\ \A s \in reads :
                              (\A d \in Dims : s.min[d] <= p[d] /\ p[d] <= s.max[d]) <=> s = r
                        /\ \A i \in 1 .. Len(squeezed) :
                              LET d == Kept(Size(region))[i]
                              IN  r.offset[i] = r.min[d] - region.min[d]
  BY DEF ReadsTileRegion
<1>0. CallInv /\ CutInv /\ PiecesInv /\ Asked
  BY DEF KlbInv, CallInv
<1>1. PICK m \in Nat \ {0} : m = Len(squeezed)
  BY <1>0, SqueezedFacts
<1>2. \A i \in 1 .. m : Kept(Size(region))[i] \in Dims
  BY <1>0, <1>1, SqueezedFacts
<1>3. CASE cellSize = <<>>
  <2>1. reads = {ReadOf(OneArray)}
    BY <1>0, <1>3 DEF PiecesInv, Readable, Pieces
  <2>2. ReadOf(OneArray) = Read(region, OneArray, outSize)
    BY <1>3 DEF ReadOf
  <2>3. PICK r : r = ReadOf(OneArray)
    OBVIOUS
  <2>4. r.min = region.min /\ r.max = region.max /\ r.offset = [i \in 1 .. m |-> 0]
    <3>1. r.min = region.min /\ r.max = region.max /\ r.offset = OneArray.offset
      BY <2>2, <2>3 DEF Read
    <3>2. OneArray.offset = [i \in 1 .. m |-> 0]
      BY <1>1 DEF OneArray
    <3> QED
      BY <3>1, <3>2
  <2>5. ASSUME NEW i \in 1 .. m, NEW d \in Dims, d = Kept(Size(region))[i]
        PROVE  r.offset[i] = r.min[d] - region.min[d]
    <3>1. region.min[d] \in Nat /\ r.offset[i] = 0 /\ r.min[d] = region.min[d]
      BY <1>0, <2>4, RegionFacts
    <3> QED
      BY <3>1
  <2>6. \A i \in 1 .. m : r.offset[i] = r.min[Kept(Size(region))[i]]
                                        - region.min[Kept(Size(region))[i]]
    BY <1>2, <2>5
  <2>7. \A d \in Dims : r.min[d] <= p[d] /\ p[d] <= r.max[d]
    BY <2>4
  <2>8. reads = {r}
    BY <2>1, <2>3
  <2> QED
    BY <1>1, <2>6, <2>7, <2>8
<1>4. CASE cellSize # <<>>
  <2>1. cellSize \in [1 .. Len(squeezed) -> Nat \ {0}]
    BY <1>0, <1>4 DEF CutInv
  <2>2. Cells # {} /\ Pieces = Cells
    BY <1>0, <1>4, <2>1, CellsNotEmpty DEF Pieces
  <2>3. mapped /\ reads = {ReadOf(c) : c \in Cells}
    BY <1>0, <1>4, <2>2 DEF PiecesInv, Readable
  <2>4. PICK q \in [Dims -> Nat] : q = p
    <3>1. \A d \in Dims : p[d] \in Nat
      OBVIOUS
    <3>2. p \in [Dims -> Nat]
      BY <3>1
    <3> QED
      BY <3>2
  <2>5. PICK c \in Cells : \A b \in Cells :
            (\A d \in Dims : CellRegion(b).min[d] <= q[d] /\ q[d] <= CellRegion(b).max[d])
            <=> b = c
    BY <1>0, <2>1, <2>3, <2>4, OneCell
  <2>6. ASSUME NEW b \in Cells
        PROVE  /\ ReadOf(b).min = CellRegion(b).min /\ ReadOf(b).max = CellRegion(b).max
               /\ ReadOf(b).offset = b.offset
               /\ b = CellAt(b.offset)
    <3>1. ReadOf(b) = Read(CellRegion(b), b, ProductOf(b.size))
      BY <1>4 DEF ReadOf
    <3>2. b = CellAt(b.offset)
      BY <1>0, <2>1, CellFacts
    <3> QED
      BY <3>1, <3>2 DEF Read
  <2>7. PICK r \in reads : r = ReadOf(c)
    BY <2>3
  <2>8. ASSUME NEW s \in reads
        PROVE  (\A d \in Dims : s.min[d] <= p[d] /\ p[d] <= s.max[d]) <=> s = r
    <3>1. PICK b \in Cells : s = ReadOf(b)
      BY <2>3
    <3>2. s = r <=> b = c
      <4>1. b = c => s = r
        BY <2>7, <3>1
      <4>2. s.offset = b.offset /\ r.offset = c.offset
        BY <2>6, <2>7, <3>1
      <4>3. b = CellAt(b.offset) /\ c = CellAt(c.offset)
        BY <2>6
      <4> QED
        BY <4>1, <4>2, <4>3
    <3>3. s.min = CellRegion(b).min /\ s.max = CellRegion(b).max
      BY <2>6, <3>1
    <3> QED
      BY <2>4, <2>5, <3>2, <3>3
  <2>9. ASSUME NEW i \in 1 .. m
        PROVE  r.offset[i] = r.min[Kept(Size(region))[i]] - region.min[Kept(Size(region))[i]]
    <3>1. PICK d \in Dims : d = Kept(Size(region))[i]
      BY <1>2
    <3>2. r.offset = c.offset /\ r.min = CellRegion(c).min
      BY <2>6, <2>7
    <3>3. CellRegion(c).min[d] = region.min[d] + c.offset[i]
      BY <1>0, <1>1, <2>1, <2>3, <3>1, CellBounds
    <3>4. region.min[d] \in Nat
      BY <1>0, RegionFacts
    <3>5. c.offset[i] \in Nat
      <4>1. c.offset \in [1 .. m -> Nat]
        BY <1>0, <1>1, <2>1, CellFacts
      <4> QED
        BY <4>1
    <3> QED
      BY <3>1, <3>2, <3>3, <3>4, <3>5
  <2> QED
    BY <1>1, <2>7, <2>8, <2>9
<1> QED
  BY <1>3, <1>4

\* Every step of a call keeps the invariant.
LEMMA KlbSteps == KlbInv /\ [Next]_vars => KlbInv'
<1> SUFFICES ASSUME KlbInv, [Next]_vars
             PROVE  KlbInv'
  OBVIOUS
<1>1. CASE UseArray \/ FillInPlace
  BY <1>1, WholeSteps
<1>2. CASE UseCells \/ SkipDim \/ NoDim
  BY <1>2, SearchSteps
<1>3. CASE CutDim
  BY <1>3, CutDimStep
<1>4. CASE Shrink
  BY <1>4, ShrinkStep
<1>5. CASE CreateCells
  BY <1>5, CreateCellsStep
<1>6. CASE ReadArray \/ ReadCell
  BY <1>6, ReadSteps
<1>7. CASE Mismatch \/ CellUnmapped \/ ReadFails \/ Wrap \/ Done \/ UNCHANGED vars
  BY <1>7, EndSteps
<1> QED
  BY <1>1, <1>2, <1>3, <1>4, <1>5, <1>6, <1>7 DEF Next

\* Of every call of KLB.java, for every image, region and length of arrays: what is
\* left to read and what was read are together the pieces the image was cut into,
\* cells fit into arrays, and the dimensions along which one is not cut are whole.
THEOREM KlbInvariance == Spec => []KlbInv
<1>1. Init => KlbInv
  BY KlbInit
<1>2. KlbInv /\ [Next]_vars => KlbInv'
  BY KlbSteps
<1> QED
  BY <1>1, <1>2, PTL DEF Spec

\* In particular a cell that is made shorter until it fits is never made empty, and the
\* array of a cell is not longer than Java lets it be (KLB.java, getOptimalCellSize).
THEOREM KlbTypeCorrect == Spec => []TypeOK
<1>1. KlbInv => TypeOK
  BY KlbTypes
<1> QED
  BY <1>1, KlbInvariance, PTL

\* Into an image it makes itself, KLB.java never has the native library write more
\* than the array that is given to it holds.
THEOREM NewReadsFit == Spec => []ReadsFit
<1>1. KlbInv => ReadsFit
  BY KlbFits
<1> QED
  BY <1>1, KlbInvariance, PTL

\* When KLB.java returns an image, every pixel of the region was read once, into the
\* cell, and to the place in it, where ImgLib2 looks for it.
THEOREM RegionIsTiled == Spec => []ReadsTileRegion
<1>1. KlbInv => ReadsTileRegion
  BY KlbTiles
<1> QED
  BY <1>1, KlbInvariance, PTL

-----------------------------------------------------------------------------
\* The calls of native functions.

\* The arrays a native function borrows.
Borrowed ==
    IF call.function = "jniReadHeader" THEN {"header"} ELSE {"pixels"}

\* What native code was given, while it has something.
Lending ==
    running # "java" => /\ call.function \in {"jniReadHeader", "jniRead", "jniWriteFull"}
                   /\ lent \in [Borrowed -> BOOLEAN]

\* The pixels a read of the file finds.
Found == IF file.image = Junk THEN Junk ELSE <<file.image, call.region>>

\* What a call has read is where native code was told to put it: in the copy, if it is one,
\* or in the array.
HasRead ==
    running = "release" /\ errid = NoError =>
        /\ call.function = "jniRead" => Sees("pixels") = Found
        /\ call.function = "jniReadHeader" => Sees("header") = file.header

\* There is a native copy of each array, whether or not it was lent.
Fields == native = [pixels |-> native.pixels, header |-> native.header]

\* The inductive invariant.
JInv == running \in {"java", "work", "release"} /\ Lending /\ HasRead /\ Fields

-----------------------------------------------------------------------------
\* Entering a native function lends it what it borrows.
LEMMA EnterStep ==
    ASSUME JInv, NEW function, NEW arrays, Enter(function, arrays),
           function.function \in {"jniReadHeader", "jniRead", "jniWriteFull"},
           arrays = IF function.function = "jniReadHeader" THEN {"header"} ELSE {"pixels"}
    PROVE  JInv'
<1>1. running' = "work" /\ call' = function /\ lent' \in [arrays -> BOOLEAN]
      /\ native' = [pixels |-> pixels, header |-> header']
  BY DEF Enter
<1>2. Lending'
  BY <1>1 DEF Lending, Borrowed
<1>3. HasRead' /\ Fields'
  BY <1>1 DEF HasRead, Fields
<1> QED
  BY <1>1, <1>2, <1>3 DEF JInv

\* What native code leaves in an array it sees there; the other copy stays.
LEMMA LeavesSeen ==
    ASSUME Fields, NEW array \in {"pixels", "header"}, NEW value, Leaves(array, value),
           lent' = lent, lent[array] \in BOOLEAN
    PROVE  Sees(array)' = value /\ Fields'
<1>1. CASE lent[array]
  BY <1>1 DEF Fields, Leaves, Sees
<1>2. CASE ~ lent[array]
  BY <1>2 DEF Fields, Leaves, Sees
<1> QED
  BY <1>1, <1>2

\* A call of the Java program, or a step of the program, keeps the invariant.
LEMMA JavaStep ==
    ASSUME JInv, MakeImage \/ CallReadHeader \/ CallRead \/ CallWriteFull
    PROVE  JInv'
<1>1. CASE MakeImage
  BY <1>1 DEF MakeImage, JInv, Lending, HasRead, Fields
<1>2. CASE CallReadHeader
  BY <1>2, EnterStep DEF CallReadHeader
<1>3. CASE CallRead
  BY <1>3, EnterStep DEF CallRead
<1>4. CASE CallWriteFull
  BY <1>4, EnterStep DEF CallWriteFull
<1> QED
  BY <1>1, <1>2, <1>3, <1>4

\* Reading a header.
LEMMA ReadHeaderStep ==
    ASSUME JInv, jniReadHeader
    PROVE  JInv'
<1>1. /\ running' = "release" /\ UNCHANGED <<call, lent, file>>
      /\ call.function = "jniReadHeader" /\ lent["header"] \in BOOLEAN
      /\ lent \in [Borrowed -> BOOLEAN]
  BY DEF jniReadHeader, Work, JInv, Lending, Borrowed
<1>2. Lending'
  BY <1>1 DEF Lending, Borrowed
<1>3. Fields' /\ (errid' = NoError => Sees("header")' = file.header)
  <2>1. CASE Leaves("header", file.header)
    <3>1. PICK value : value = file.header /\ Leaves("header", value)
      BY <2>1
    <3> QED
      BY <1>1, <3>1, LeavesSeen DEF JInv
  <2>2. CASE errid' = 2 /\ Leaves("header", [Sees("header") EXCEPT !.image = Junk, !.blockSize = Junk])
    <3>1. PICK value : Leaves("header", value)
      BY <2>2
    <3>2. Fields'
      BY <1>1, <3>1, LeavesSeen DEF JInv
    <3> QED
      BY <2>2, <3>2 DEF NoError
  <2> QED
    BY <2>1, <2>2 DEF jniReadHeader
<1>4. HasRead'
  BY <1>1, <1>3 DEF HasRead
<1> QED
  BY <1>1, <1>2, <1>3, <1>4 DEF JInv

\* Reading pixels.
LEMMA ReadPixelsStep ==
    ASSUME JInv, jniRead
    PROVE  JInv'
<1>1. /\ running' = "release" /\ UNCHANGED <<call, lent, file>>
      /\ call.function = "jniRead" /\ lent["pixels"] \in BOOLEAN
      /\ lent \in [Borrowed -> BOOLEAN]
  BY DEF jniRead, Work, JInv, Lending, Borrowed
<1>2. Lending'
  BY <1>1 DEF Lending, Borrowed
<1>3. Fields' /\ (errid' = NoError => Sees("pixels")' = Found)
  <2>1. CASE Leaves("pixels", Found)
    <3>1. PICK value : value = Found /\ Leaves("pixels", value)
      BY <2>1
    <3> QED
      BY <1>1, <3>1, LeavesSeen DEF JInv
  <2>2. CASE errid' \in Errors /\ \E value : Leaves("pixels", value)
    <3>1. PICK value : Leaves("pixels", value)
      BY <2>2
    <3>2. Fields'
      BY <1>1, <3>1, LeavesSeen DEF JInv
    <3> QED
      BY <2>2, <3>2 DEF NoError, Errors
  <2> QED
    BY <2>1, <2>2 DEF jniRead, Found
<1>4. HasRead'
  BY <1>1, <1>3 DEF HasRead, Found
<1> QED
  BY <1>1, <1>2, <1>3, <1>4 DEF JInv

\* Writing reads nothing, and releasing ends the call.
LEMMA OtherSteps ==
    ASSUME JInv, jniWriteFull \/ ReleaseArrays \/ UNCHANGED jniVars
    PROVE  JInv'
<1>1. CASE jniWriteFull
  BY <1>1 DEF jniWriteFull, Work, JInv, Lending, Borrowed, HasRead, Fields
<1>2. CASE ReleaseArrays
  BY <1>2 DEF ReleaseArrays, JInv, Lending, HasRead, Fields
<1>3. CASE UNCHANGED jniVars
  BY <1>3 DEF jniVars, JInv, Lending, Borrowed, HasRead, Fields, Found, Sees
<1> QED
  BY <1>1, <1>2, <1>3

\* While native code runs it has what it borrowed, and what it has read is where it was
\* told to put it.
THEOREM JniInvariance == JniSpec => []JInv
<1>1. JniInit => JInv
  BY DEF JniInit, JInv, Lending, HasRead, Fields, Blank, NoError
<1>2. JInv /\ [JniNext]_jniVars => JInv'
  BY JavaStep, ReadHeaderStep, ReadPixelsStep, OtherSteps DEF JniNext
<1> QED
  BY <1>1, <1>2, PTL DEF JniSpec

\* Releasing copies back what was a copy and was read into, and nothing else.
LEMMA ReleaseStep ==
    ASSUME JInv, ReleaseArrays, errid = NoError
    PROVE  /\ call.function = "jniRead" => pixels' = Found
           /\ call.function = "jniReadHeader" => header' = file.header
           /\ call.function = "jniWriteFull" => pixels' = pixels /\ header' = header
<1>1. running = "release" /\ lent \in [Borrowed -> BOOLEAN]
  BY DEF ReleaseArrays, JInv, Lending
<1>2. CASE call.function = "jniRead"
  <2>1. DOMAIN lent = {"pixels"} /\ Sees("pixels") = Found
    BY <1>1, <1>2 DEF Borrowed, JInv, HasRead
  <2> QED
    BY <1>2, <2>1 DEF ReleaseArrays, CopiedBack, Sees
<1>3. CASE call.function = "jniReadHeader"
  <2>1. DOMAIN lent = {"header"} /\ Sees("header") = file.header
    BY <1>1, <1>3 DEF Borrowed, JInv, HasRead
  <2> QED
    BY <1>3, <2>1 DEF ReleaseArrays, CopiedBack, Sees
<1>4. CASE call.function = "jniWriteFull"
  BY <1>4 DEF ReleaseArrays, CopiedBack
<1> QED
  BY <1>2, <1>3, <1>4

\* ResultsArrive for any images, regions and metadata: what a successful call reads is in
\* the Java array or object when it returns, whichever way the array was lent
\* (KLBJNI.cpp:28-32, :48-53, :377), and a call that writes changes neither.
THEOREM ResultsArriveInJava == JniSpec => ResultsArrive
<1> DEFINE A == running = "release" /\ running' = "java" /\ errid = NoError =>
                  /\ call.function = "jniRead" =>
                        pixels' = IF file.image = Junk THEN Junk ELSE <<file.image, call.region>>
                  /\ call.function = "jniReadHeader" => header' = file.header
                  /\ call.function = "jniWriteFull" => pixels' = pixels /\ header' = header
<1>1. JInv /\ [JniNext]_jniVars => [A]_jniVars
  <2> SUFFICES ASSUME JInv, JniNext, running = "release", running' = "java", errid = NoError
               PROVE  A
    BY DEF jniVars
  <2>1. ReleaseArrays
    BY DEF JniNext, MakeImage, CallReadHeader, CallRead, CallWriteFull, Enter, jniReadHeader,
           jniRead, jniWriteFull, Work
  <2> QED
    BY <2>1, ReleaseStep DEF Found
<1>2. [][A]_jniVars <=> ResultsArrive
  BY DEF ResultsArrive
<1> QED
  BY <1>1, <1>2, JniInvariance, PTL DEF JniSpec
=============================================================================
