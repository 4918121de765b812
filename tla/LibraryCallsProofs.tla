------------------------- MODULE LibraryCallsProofs -------------------------
(***************************************************************************)
(* For any objects, files and images, and all calls of LibraryCalls:       *)
(* headers own their tables, reads return what was written last (or, of an *)
(* image of Zlib, wrong pixels), a function has room for what it reads.    *)
(***************************************************************************)
EXTENDS LibraryCalls, TLAPS

AnyImage == Images \cup {NoImage}
Heaps == [Addresses -> [len : Lengths, table : AnyImage]]
Counts == [Headers -> Lengths]
Pointers == [Headers -> Addresses \cup {NULL, Empty}]

\* The tables in mem belong to the headers, by the lengths nb and the pointers ptr.
Owns(nb, ptr, mem) ==
    /\ \A h \in Headers : nb[h] # 0 => ptr[h] \in Addresses /\ mem[ptr[h]].len = nb[h]
    /\ \A g, h \in Headers : nb[g] # 0 /\ nb[h] # 0 /\ ptr[g] = ptr[h] => g = h
    /\ \A a \in Addresses : mem[a] # Free => \E h \in Headers : nb[h] # 0 /\ ptr[h] = a

\* What a step of h leaves alone: the tables of the others.
Spares(h, nb, ptr, mem, mem2) ==
    \A g \in Headers \ {h} : nb[g] # 0 => mem2[ptr[g]] = mem[ptr[g]]

\* Numbers of blocks are numbers, and 0 is one.
LEMMA LengthsAreNumbers == Lengths \subseteq Nat /\ 0 \in Lengths
  BY ImageHeaderAssumption DEF Lengths

\* delete[] by a header takes its own table away and no other.
LEMMA Release ==
    ASSUME NEW h \in Headers, HeaderTypeOK, Owns(Nb, blockOffset, heap)
    PROVE  /\ Deallocate(h, heap) \in Heaps
           /\ Owns([Nb EXCEPT ![h] = 0], blockOffset, Deallocate(h, heap))
           /\ Spares(h, Nb, blockOffset, heap, Deallocate(h, heap))
<1> DEFINE mem == Deallocate(h, heap)
           nb == [Nb EXCEPT ![h] = 0]
<1>1. Free \in [len : Lengths, table : AnyImage] /\ Free.len = 0
    BY LengthsAreNumbers DEF Free, AnyImage
<1>2. heap \in Heaps /\ Nb \in [Headers -> Lengths]
    BY DEF HeaderTypeOK, Heaps, AnyImage
<1>3. CASE Nb[h] = 0
    <2>1. mem = heap /\ nb = Nb
        BY <1>2, <1>3 DEF Deallocate
    <2> QED BY <1>2, <2>1 DEF Spares
<1>4. CASE Nb[h] # 0
    <2>1. blockOffset[h] \in Addresses /\ mem = [heap EXCEPT ![blockOffset[h]] = Free]
        BY <1>4 DEF Owns, Deallocate
    <2>2. mem \in Heaps
        BY <1>1, <1>2, <2>1 DEF Heaps
    <2>3. \A g \in Headers \ {h} : Nb[g] # 0 => blockOffset[g] # blockOffset[h]
        BY <1>4 DEF Owns
    <2>4. Spares(h, Nb, blockOffset, heap, mem)
        BY <1>2, <2>1, <2>3 DEF Spares, Owns, Heaps
    <2>5. \A g \in Headers : nb[g] # 0 => g # h /\ nb[g] = Nb[g]
        BY <1>2
    <2>6. \A a \in Addresses : mem[a] # Free => \E g \in Headers : nb[g] # 0 /\ blockOffset[g] = a
        <3> SUFFICES ASSUME NEW a \in Addresses, mem[a] # Free
                     PROVE  \E g \in Headers : nb[g] # 0 /\ blockOffset[g] = a
            OBVIOUS
        <3>1. a # blockOffset[h] /\ heap[a] # Free
            BY <1>2, <2>1 DEF Heaps
        <3>2. PICK g \in Headers : Nb[g] # 0 /\ blockOffset[g] = a
            BY <3>1 DEF Owns
        <3> QED BY <1>2, <3>1, <3>2
    <2>7. Owns(nb, blockOffset, mem)
        <3>1. \A g \in Headers : nb[g] # 0 => blockOffset[g] \in Addresses /\ mem[blockOffset[g]].len = nb[g]
            BY <2>4, <2>5 DEF Owns, Spares
        <3>2. \A f, g \in Headers : nb[f] # 0 /\ nb[g] # 0 /\ blockOffset[f] = blockOffset[g] => f = g
            BY <2>5 DEF Owns
        <3> QED BY <2>6, <3>1, <3>2 DEF Owns
    <2> QED BY <2>2, <2>4, <2>7
<1> QED BY <1>3, <1>4

\* new[] gives a header that has none a table that nobody has.
LEMMA Take ==
    ASSUME NEW h \in Headers, NEW n \in Lengths, NEW table \in AnyImage,
           NEW nb \in Counts, NEW mem \in Heaps, NEW ptr \in Pointers,
           Owns(nb, ptr, mem), nb[h] = 0,
           NEW new \in Allocate(n, table, mem)
    PROVE  LET nb2 == [nb EXCEPT ![h] = n]
               ptr2 == [ptr EXCEPT ![h] = new.ptr]
           IN  /\ new.heap \in Heaps /\ ptr2 \in Pointers
               /\ Owns(nb2, ptr2, new.heap)
               /\ Spares(h, nb, ptr, mem, new.heap)
               /\ n # 0 => new.ptr \in Addresses /\ new.heap[new.ptr].table = table
<1> DEFINE nb2 == [nb EXCEPT ![h] = n]
           ptr2 == [ptr EXCEPT ![h] = new.ptr]
<1>0. /\ Lengths \subseteq Nat
      /\ nb \in [Headers -> Lengths] /\ ptr \in [Headers -> Addresses \cup {NULL, Empty}]
    BY LengthsAreNumbers DEF Counts, Pointers
<1>1. CASE n = 0
    <2>1. new.ptr = Empty /\ new.heap = mem
        BY <1>1 DEF Allocate
    <2>2. nb2 = nb /\ ptr2 \in Pointers
        BY <1>0, <1>1, <2>1 DEF Pointers
    <2>3. \A g \in Headers : nb[g] # 0 => g # h /\ ptr2[g] = ptr[g]
        BY <1>0
    <2>4. Owns(nb, ptr2, mem)
        BY <2>3 DEF Owns
    <2> QED BY <1>1, <2>1, <2>2, <2>4 DEF Spares
<1>2. CASE n # 0
    <2>1. PICK a \in Addresses : /\ mem[a] = Free
                                 /\ new.ptr = a
                                 /\ new.heap = [mem EXCEPT ![a] = [len |-> n, table |-> table]]
        <3>1. PICK a \in {x \in Addresses : mem[x] = Free} :
                  new = [ptr |-> a, heap |-> [mem EXCEPT ![a] = [len |-> n, table |-> table]]]
            BY <1>2 DEF Allocate
        <3> QED BY <3>1
    <2>2. new.heap \in Heaps /\ ptr2 \in Pointers
        BY <1>0, <2>1 DEF Heaps, Pointers
    <2>3. \A g \in Headers \ {h} : nb2[g] = nb[g] /\ ptr2[g] = ptr[g]
        BY <1>0
    <2>4. \A g \in Headers : nb[g] # 0 => ptr[g] \in Addresses /\ ptr[g] # a
        BY <2>1 DEF Owns, Free
    <2>5. Spares(h, nb, ptr, mem, new.heap)
        BY <2>1, <2>4 DEF Spares, Heaps
    <2>6. nb2[h] = n /\ ptr2[h] = a /\ new.heap[a] = [len |-> n, table |-> table]
        BY <1>0, <2>1 DEF Heaps
    <2>7. Owns(nb2, ptr2, new.heap)
        <3>1. \A g \in Headers : nb2[g] # 0 => ptr2[g] \in Addresses /\ new.heap[ptr2[g]].len = nb2[g]
            BY <2>3, <2>5, <2>6 DEF Owns, Spares
        <3>2. \A f, g \in Headers : nb2[f] # 0 /\ nb2[g] # 0 /\ ptr2[f] = ptr2[g] => f = g
            BY <2>3, <2>4, <2>6 DEF Owns
        <3>3. ASSUME NEW x \in Addresses, new.heap[x] # Free
              PROVE  \E g \in Headers : nb2[g] # 0 /\ ptr2[g] = x
            <4>1. CASE x = a
                BY <1>2, <2>6, <4>1
            <4>2. CASE x # a
                <5>1. mem[x] # Free
                    BY <2>1, <3>3, <4>2 DEF Heaps
                <5>2. PICK g \in Headers : nb[g] # 0 /\ ptr[g] = x
                    BY <5>1 DEF Owns
                <5> QED BY <2>3, <5>2
            <4> QED BY <4>1, <4>2
        <3> QED BY <3>1, <3>2, <3>3 DEF Owns
    <2> QED BY <2>1, <2>2, <2>5, <2>6, <2>7
<1> QED BY <1>1, <1>2

-----------------------------------------------------------------------------
\* The invariant of the headers alone.
HeaderInv ==
    /\ HeaderTypeOK
    /\ Owns(Nb, blockOffset, heap)
    /\ \A h \in Headers : ~alive[h] => Nb[h] = 0

\* A step that turns h into a header of img, with a table of length n and these
\* contents, and leaves the other headers as they are.
Becomes(h, lives, img, n, table) ==
    /\ HeaderInv'
    /\ alive' = [alive EXCEPT ![h] = lives]
    /\ image' = [image EXCEPT ![h] = img]
    /\ Nb' = [Nb EXCEPT ![h] = n]
    /\ \A g \in Headers \ {h} : TableOf(g)' = TableOf(g)
    /\ n # 0 => TableOf(h)' = table

\* A table that changes its contents stays whose it is.
LEMMA Rewrite ==
    ASSUME NEW h \in Headers, NEW table \in AnyImage, HeaderTypeOK,
           Owns(Nb, blockOffset, heap), Nb[h] # 0
    PROVE  LET mem == [heap EXCEPT ![blockOffset[h]].table = table]
           IN  /\ mem \in Heaps
               /\ Owns(Nb, blockOffset, mem)
               /\ Spares(h, Nb, blockOffset, heap, mem)
               /\ mem[blockOffset[h]].table = table
<1> DEFINE a == blockOffset[h]
           mem == [heap EXCEPT ![a].table = table]
<1>1. heap \in Heaps /\ Nb \in [Headers -> Lengths] /\ a \in Addresses /\ heap[a].len = Nb[h]
    BY DEF HeaderTypeOK, Heaps, AnyImage, Owns
<1>2. mem[a] = [len |-> heap[a].len, table |-> table]
    BY <1>1 DEF Heaps
<1>3. \A x \in Addresses \ {a} : mem[x] = heap[x]
    BY <1>1 DEF Heaps
<1>4. mem \in Heaps
    BY <1>1, <1>2 DEF Heaps
<1>5. \A g \in Headers \ {h} : Nb[g] # 0 => blockOffset[g] \in Addresses \ {a}
    BY DEF Owns
<1>6. Owns(Nb, blockOffset, mem)
    <2>1. \A g \in Headers : Nb[g] # 0 => blockOffset[g] \in Addresses /\ mem[blockOffset[g]].len = Nb[g]
        BY <1>1, <1>2, <1>3, <1>5 DEF Owns
    <2>2. \A x \in Addresses : mem[x] # Free => \E g \in Headers : Nb[g] # 0 /\ blockOffset[g] = x
        BY <1>3 DEF Owns
    <2> QED BY <2>1, <2>2 DEF Owns
<1> QED BY <1>2, <1>3, <1>4, <1>5, <1>6 DEF Spares

\* What the three lemmas say of the heap is what Becomes says of the headers.
LEMMA HeapStep ==
    ASSUME NEW h \in Headers, NEW n \in Lengths, NEW img \in AnyImage, NEW table,
           NEW lives \in BOOLEAN, HeaderInv,
           alive' = [alive EXCEPT ![h] = lives], image' = [image EXCEPT ![h] = img],
           Nb' = [Nb EXCEPT ![h] = n], lives \/ n = 0,
           heap' \in Heaps, blockOffset' \in Pointers,
           \A g \in Headers \ {h} : blockOffset'[g] = blockOffset[g],
           Owns(Nb', blockOffset', heap'), Spares(h, Nb, blockOffset, heap, heap'),
           n # 0 => heap'[blockOffset'[h]].table = table
    PROVE  Becomes(h, lives, img, n, table)
<1>1. HeaderTypeOK'
    BY DEF HeaderInv, HeaderTypeOK, Heaps, Pointers, AnyImage
<1>2. \A g \in Headers : ~alive'[g] => Nb'[g] = 0
    BY DEF HeaderInv, HeaderTypeOK
<1>3. Nb'[h] = n /\ \A g \in Headers \ {h} : Nb'[g] = Nb[g]
    BY DEF HeaderInv, HeaderTypeOK
<1>4. \A g \in Headers \ {h} : TableOf(g)' = TableOf(g)
    BY <1>3 DEF TableOf, Spares
<1>5. n # 0 => TableOf(h)' = table
    BY <1>3 DEF TableOf
<1>6. HeaderInv'
    BY <1>1, <1>2 DEF HeaderInv
<1> QED BY <1>4, <1>5, <1>6 DEF Becomes

\* resizeBlockOffset, whatever its caller does to the fixed fields.
LEMMA Resize ==
    ASSUME NEW h \in Headers, NEW n \in Lengths, NEW table \in AnyImage,
           NEW img \in AnyImage, HeaderInv, alive[h], alive' = alive,
           image' = [image EXCEPT ![h] = img], resizeBlockOffset(h, n, table)
    PROVE  Becomes(h, TRUE, img, n, table)
<1>1. HeaderTypeOK /\ Owns(Nb, blockOffset, heap) /\ Nb \in [Headers -> Lengths] /\ heap \in Heaps
      /\ blockOffset \in Pointers
    BY DEF HeaderInv, HeaderTypeOK, Heaps, Pointers, AnyImage
<1>2. alive' = [alive EXCEPT ![h] = TRUE]
    BY <1>1 DEF HeaderTypeOK
<1>3. CASE Nb[h] = n
    <2>1. Nb' = [Nb EXCEPT ![h] = n] /\ blockOffset' = blockOffset /\ Nb' = Nb
        BY <1>1, <1>3 DEF resizeBlockOffset
    <2>2. CASE n = 0
        <3>1. heap' = heap
            BY <1>3, <2>2 DEF resizeBlockOffset
        <3>2. Spares(h, Nb, blockOffset, heap, heap')
            BY <3>1 DEF Spares
        <3> QED BY <1>1, <1>2, <2>1, <2>2, <3>1, <3>2, HeapStep
    <2>3. CASE n # 0
        <3>1. heap' = [heap EXCEPT ![blockOffset[h]].table = table]
            BY <1>3, <2>3 DEF resizeBlockOffset
        <3>2. heap' \in Heaps /\ Owns(Nb, blockOffset, heap') /\ Spares(h, Nb, blockOffset, heap, heap')
              /\ heap'[blockOffset[h]].table = table
            BY <1>1, <1>3, <2>3, <3>1, Rewrite
        <3> QED BY <1>1, <1>2, <2>1, <3>2, HeapStep
    <2> QED BY <2>2, <2>3
<1>4. CASE Nb[h] # n
    <2> DEFINE mem == Deallocate(h, heap)
               nb == [Nb EXCEPT ![h] = 0]
    <2>1. mem \in Heaps /\ Owns(nb, blockOffset, mem) /\ Spares(h, Nb, blockOffset, heap, mem)
        BY <1>1, Release
    <2>2. PICK new \in Allocate(n, table, mem) :
              /\ heap' = new.heap
              /\ blockOffset' = [blockOffset EXCEPT ![h] = new.ptr]
              /\ Nb' = [Nb EXCEPT ![h] = n]
        BY <1>4 DEF resizeBlockOffset
    <2>3. nb \in Counts /\ nb[h] = 0 /\ [nb EXCEPT ![h] = n] = Nb'
        BY <1>1, <2>2, LengthsAreNumbers DEF Counts
    <2> HIDE DEF mem, nb
    <2> DEFINE nb2 == [nb EXCEPT ![h] = n]
               ptr2 == [blockOffset EXCEPT ![h] = new.ptr]
    \* Take is about constants.
    <2>a. PICK n1, p1, m1 : n1 = nb /\ p1 = blockOffset /\ m1 = mem
        OBVIOUS
    <2>b. /\ new.heap \in Heaps /\ ptr2 \in Pointers
          /\ Owns(nb2, ptr2, new.heap)
          /\ Spares(h, nb, blockOffset, mem, new.heap)
          /\ n # 0 => new.ptr \in Addresses /\ new.heap[new.ptr].table = table
        <3>1. n1 \in Counts /\ p1 \in Pointers /\ m1 \in Heaps /\ Owns(n1, p1, m1) /\ n1[h] = 0
              /\ new \in Allocate(n, table, m1)
            BY <1>1, <2>1, <2>3, <2>a
        <3>2. /\ new.heap \in Heaps /\ [p1 EXCEPT ![h] = new.ptr] \in Pointers
              /\ Owns([n1 EXCEPT ![h] = n], [p1 EXCEPT ![h] = new.ptr], new.heap)
              /\ Spares(h, n1, p1, m1, new.heap)
              /\ n # 0 => new.ptr \in Addresses /\ new.heap[new.ptr].table = table
            BY <3>1, Take
        <3> QED BY <2>a, <3>2
    <2>4. /\ heap' \in Heaps /\ blockOffset' \in Pointers
          /\ Owns(Nb', blockOffset', heap')
          /\ Spares(h, nb, blockOffset, mem, heap')
          /\ n # 0 => new.ptr \in Addresses /\ heap'[new.ptr].table = table
        BY <2>2, <2>3, <2>b
    <2>5. Spares(h, Nb, blockOffset, heap, heap')
        BY <1>1, <2>1, <2>4 DEF Spares, nb
    <2>6. blockOffset'[h] = new.ptr /\ \A g \in Headers \ {h} : blockOffset'[g] = blockOffset[g]
        BY <1>1, <2>2 DEF Pointers
    <2> QED BY <1>1, <1>2, <2>2, <2>4, <2>5, <2>6, HeapStep
<1> QED BY <1>3, <1>4

-----------------------------------------------------------------------------
\* The operations of a header.
LEMMA HeaderTypes ==
    ASSUME HeaderInv, NEW h \in Headers
    PROVE  /\ image[h] \in AnyImage /\ Nb[h] \in Lengths /\ TableOf(h) \in AnyImage
           /\ calculateNumBlocks(image[h]) \in Lengths
           /\ \A img \in AnyImage : calculateNumBlocks(img) \in Lengths
<1>1. \A img \in AnyImage : calculateNumBlocks(img) \in Lengths
    BY DEF AnyImage, Lengths, calculateNumBlocks
<1>2. image[h] \in AnyImage /\ Nb[h] \in Lengths
    BY DEF HeaderInv, HeaderTypeOK, AnyImage
<1>3. TableOf(h) \in AnyImage
    BY DEF HeaderInv, HeaderTypeOK, Owns, TableOf, AnyImage, Junk
<1> QED BY <1>1, <1>2, <1>3

\* What the constructor leaves: a header of no image, with no table.
LEMMA ConstructStep ==
    ASSUME HeaderInv, NEW h \in Headers, Construct(h)
    PROVE  Becomes(h, TRUE, NoImage, 0, Junk)
<1>1. /\ alive' = [alive EXCEPT ![h] = TRUE] /\ image' = [image EXCEPT ![h] = NoImage]
      /\ Nb' = [Nb EXCEPT ![h] = 0] /\ heap' = heap /\ Nb' = Nb
      /\ blockOffset' = [blockOffset EXCEPT ![h] = NULL]
    BY DEF Construct, HeaderInv, HeaderTypeOK
<1>2. Owns(Nb', blockOffset', heap') /\ Spares(h, Nb, blockOffset, heap, heap')
    BY <1>1 DEF HeaderInv, HeaderTypeOK, Construct, Owns, Spares
<1>3. /\ heap' \in Heaps /\ blockOffset' \in Pointers
      /\ \A g \in Headers \ {h} : blockOffset'[g] = blockOffset[g]
    BY <1>1 DEF HeaderInv, HeaderTypeOK, Heaps, Pointers, AnyImage
<1> QED BY <1>1, <1>2, <1>3, HeapStep, LengthsAreNumbers DEF AnyImage

\* The copy constructor leaves the image and the table of the other header.
LEMMA CopyConstructStep ==
    ASSUME HeaderInv, NEW h \in Headers, NEW p \in Headers, CopyConstruct(h, p)
    PROVE  Becomes(h, TRUE, image[p], Nb[p], TableOf(p))
<1>1. PICK img, n, t : img = image[p] /\ n = Nb[p] /\ t = TableOf(p)
    OBVIOUS
<1>2. img \in AnyImage /\ n \in Lengths /\ t \in AnyImage
    BY <1>1, HeaderTypes
<1>3. PICK new \in Allocate(n, t, heap) :
          heap' = new.heap /\ blockOffset' = [blockOffset EXCEPT ![h] = new.ptr]
    BY <1>1 DEF CopyConstruct
<1>4. PICK nb, ptr, mem : nb = Nb /\ ptr = blockOffset /\ mem = heap
    OBVIOUS
<1>5. /\ nb \in Counts /\ ptr \in Pointers /\ mem \in Heaps /\ Owns(nb, ptr, mem) /\ nb[h] = 0
      /\ new \in Allocate(n, t, mem)
    BY <1>3, <1>4 DEF HeaderInv, HeaderTypeOK, Counts, Pointers, Heaps, AnyImage, CopyConstruct
<1>6. /\ new.heap \in Heaps /\ [ptr EXCEPT ![h] = new.ptr] \in Pointers
      /\ Owns([nb EXCEPT ![h] = n], [ptr EXCEPT ![h] = new.ptr], new.heap)
      /\ Spares(h, nb, ptr, mem, new.heap)
      /\ n # 0 => new.ptr \in Addresses /\ new.heap[new.ptr].table = t
    BY <1>2, <1>5, Take
<1>7. /\ alive' = [alive EXCEPT ![h] = TRUE] /\ image' = [image EXCEPT ![h] = img]
      /\ Nb' = [Nb EXCEPT ![h] = n]
    BY <1>1 DEF CopyConstruct
<1>8. blockOffset'[h] = new.ptr /\ \A g \in Headers \ {h} : blockOffset'[g] = blockOffset[g]
    BY <1>3 DEF HeaderInv, HeaderTypeOK
<1>9. Becomes(h, TRUE, img, n, t)
    BY <1>2, <1>3, <1>4, <1>6, <1>7, <1>8, HeapStep
<1> QED BY <1>1, <1>9 DEF Becomes

\* So does operator=.
LEMMA AssignStep ==
    ASSUME HeaderInv, NEW h \in Headers, NEW p \in Headers, Assign(h, p)
    PROVE  Becomes(h, TRUE, image[p], Nb[p], TableOf(p))
<1>1. PICK img, n, t : img = image[p] /\ n = Nb[p] /\ t = TableOf(p)
    OBVIOUS
<1>2. img \in AnyImage /\ n \in Lengths /\ t \in AnyImage
    BY <1>1, HeaderTypes
<1>3. alive[h] /\ alive' = alive /\ image' = [image EXCEPT ![h] = img] /\ resizeBlockOffset(h, n, t)
    BY <1>1 DEF Assign, resizeBlockOffset
<1>4. Becomes(h, TRUE, img, n, t)
    BY <1>2, <1>3, Resize
<1> QED BY <1>1, <1>4 DEF Becomes

\* setHeader leaves the number of blocks and the table as they were.
LEMMA SetHeaderStep ==
    ASSUME HeaderInv, NEW h \in Headers, NEW img \in AnyImage, setHeader(h, img)
    PROVE  Becomes(h, TRUE, img, Nb[h], TableOf(h))
<1>1. /\ alive' = [alive EXCEPT ![h] = TRUE] /\ image' = [image EXCEPT ![h] = img]
      /\ Nb' = [Nb EXCEPT ![h] = Nb[h]] /\ UNCHANGED <<alive, Nb, blockOffset, heap>>
    BY DEF setHeader, HeaderInv, HeaderTypeOK
<1>2. HeaderInv'
    BY <1>1 DEF HeaderInv, HeaderTypeOK, Owns, AnyImage
<1> QED BY <1>1, <1>2 DEF Becomes, TableOf

\* readHeader leaves the image of the file and its table; of a file that ends before the
\* table does, a table of junk.
LEMMA ReadHeaderStep ==
    ASSUME HeaderInv, NEW h \in Headers, NEW img \in AnyImage
    PROVE  /\ readHeader(h, img) => Becomes(h, TRUE, img, calculateNumBlocks(img), img)
           /\ readHeaderShort(h, img) => Becomes(h, TRUE, img, calculateNumBlocks(img), Junk)
<1>1. calculateNumBlocks(img) \in Lengths /\ Junk \in AnyImage
    BY HeaderTypes DEF AnyImage, Junk
<1> QED BY <1>1, Resize DEF readHeader, readHeaderShort

\* resizeBlockOffset leaves a table for the blocks of the present image, the same one if
\* it is long enough already.
LEMMA ResizeOnlyStep ==
    ASSUME HeaderInv, NEW h \in Headers, alive[h], resizeOnly(h)
    PROVE  \E t : Becomes(h, TRUE, image[h], calculateNumBlocks(image[h]), t)
<1>1. PICK img, n, t : /\ img = image[h] /\ n = calculateNumBlocks(image[h])
                       /\ t = IF Nb[h] = n THEN TableOf(h) ELSE Junk
    OBVIOUS
<1>2. img \in AnyImage /\ n \in Lengths /\ t \in AnyImage
    BY <1>1, HeaderTypes DEF Junk, AnyImage
<1>3. alive' = alive /\ image' = [image EXCEPT ![h] = img] /\ resizeBlockOffset(h, n, t)
    BY <1>1 DEF resizeOnly, resizeBlockOffset, HeaderInv, HeaderTypeOK
<1>4. Becomes(h, TRUE, img, n, t)
    BY <1>2, <1>3, Resize
<1> QED BY <1>1, <1>4 DEF Becomes

\* The writer fills the table with the blocks of the image.
LEMMA FillTableStep ==
    ASSUME HeaderInv, NEW h \in Headers, alive[h], fillTable(h)
    PROVE  Becomes(h, TRUE, image[h], Nb[h], image[h])
<1>1. PICK img, n : img = image[h] /\ n = Nb[h]
    OBVIOUS
<1>2. img \in AnyImage /\ n \in Lengths /\ n # 0
    BY <1>1, HeaderTypes DEF fillTable
<1>3. /\ alive' = alive /\ image' = [image EXCEPT ![h] = img]
      /\ resizeBlockOffset(h, n, img)
    BY <1>1, <1>2 DEF fillTable, resizeBlockOffset, HeaderInv, HeaderTypeOK
<1>4. Becomes(h, TRUE, img, n, img)
    BY <1>2, <1>3, Resize
<1> QED BY <1>1, <1>4 DEF Becomes

\* The destructor leaves nothing.
LEMMA DestroyStep ==
    ASSUME HeaderInv, NEW h \in Headers, Destroy(h)
    PROVE  Becomes(h, FALSE, NoImage, 0, Junk)
<1> DEFINE nb == [Nb EXCEPT ![h] = 0]
<1>1. /\ alive' = [alive EXCEPT ![h] = FALSE] /\ image' = [image EXCEPT ![h] = NoImage]
      /\ Nb' = nb /\ heap' = Deallocate(h, heap)
      /\ blockOffset' = [blockOffset EXCEPT ![h] = NULL]
    BY DEF Destroy
<1>2. /\ heap' \in Heaps /\ Owns(nb, blockOffset, heap')
      /\ Spares(h, Nb, blockOffset, heap, heap')
    BY <1>1, Release DEF HeaderInv
<1>3. /\ blockOffset' \in Pointers
      /\ \A g \in Headers \ {h} : blockOffset'[g] = blockOffset[g]
      /\ nb[h] = 0
    BY <1>1 DEF HeaderInv, HeaderTypeOK, Pointers
<1>4. Owns(Nb', blockOffset', heap')
    BY <1>1, <1>2, <1>3 DEF Owns
<1> QED BY <1>1, <1>2, <1>3, <1>4, HeapStep, LengthsAreNumbers DEF AnyImage

-----------------------------------------------------------------------------
\* The invariant of an object.
DeadIsQuiet(h) == ~alive[h] => busy[h] = "no" /\ ~current[h]

\* What a call that has begun, or a header that is current, stands on.
HasWhatItNeeds(h) ==
    /\ busy[h] = "writing" => image[h] \in Images /\ filename[h] \in Files
    /\ busy[h] \in {"reading", "torn"} => Nb[h] # 0 /\ filename[h] \in Files
    /\ current[h] => filename[h] \in Files
    /\ busy[h] = "torn" => ~current[h]

Fits(h) == current[h] \/ busy[h] = "writing" => Nb[h] = calculateNumBlocks(image[h])

\* The header is that of the file, and its table, and what was read with them.
Agrees(h) ==
    current[h] /\ File(h).state = "complete" =>
        /\ image[h] = File(h).image
        /\ Nb[h] # 0 => TableOf(h) = image[h]
        /\ result[h] \in Images \cup {Torn} =>
              \/ result[h] = File(h).image
              \/ File(h).image \in Zlib /\ result[h] = Torn

ObjectInv(h) == DeadIsQuiet(h) /\ HasWhatItNeeds(h) /\ Fits(h) /\ Agrees(h)

FileInv == HeaderInv /\ FileTypeOK /\ \A h \in Headers : ObjectInv(h)

\* What files hold.
LEMMA Contents ==
    ASSUME FileTypeOK, NEW f \in Files
    PROVE  /\ disk[f] \in FileContents
           /\ disk[f].image \in AnyImage
           /\ disk[f].state \in {"partial", "damaged", "complete"} => disk[f].image \in Images
           /\ disk[f].state \in {"missing", "empty", "partial", "damaged", "complete"}
           /\ disk[f].state = "missing" => disk[f] = Missing
           /\ disk[f].state = "complete" => disk[f] = [state |-> "complete", image |-> disk[f].image]
<1>1. disk[f] \in FileContents
    BY DEF FileTypeOK
<1>2. CASE disk[f] \in [state : {"partial", "damaged", "complete"}, image : Images]
    BY <1>1, <1>2 DEF AnyImage
<1>3. CASE disk[f] \in {Missing, EmptyFile}
    BY <1>1, <1>3 DEF AnyImage, Missing, EmptyFile
<1> QED BY <1>1, <1>2, <1>3 DEF FileContents

\* Of an object with which nothing happens everything stays true.
LEMMA Undisturbed ==
    ASSUME NEW g \in Headers, ObjectInv(g),
           alive'[g] = alive[g], image'[g] = image[g], Nb'[g] = Nb[g], TableOf(g)' = TableOf(g),
           filename'[g] = filename[g], busy'[g] = busy[g], result'[g] = result[g],
           current'[g] = current[g], disk'[filename[g]] = disk[filename[g]]
    PROVE  ObjectInv(g)'
  BY DEF ObjectInv, DeadIsQuiet, HasWhatItNeeds, Fits, Agrees, File, calculateNumBlocks

\* The same of an object that another one leaves alone.
LEMMA Others ==
    ASSUME FileInv, NEW h \in Headers, NEW lives, NEW img, NEW n, NEW t,
           Becomes(h, lives, img, n, t),
           \A g \in Headers \ {h} : /\ filename'[g] = filename[g] /\ busy'[g] = busy[g]
                                    /\ result'[g] = result[g] /\ current'[g] = current[g],
           disk' = disk
    PROVE  \A g \in Headers \ {h} : ObjectInv(g)'
<1> SUFFICES ASSUME NEW g \in Headers \ {h} PROVE ObjectInv(g)'
    OBVIOUS
<1>1. alive'[g] = alive[g] /\ image'[g] = image[g] /\ Nb'[g] = Nb[g] /\ TableOf(g)' = TableOf(g)
    BY DEF Becomes, FileInv, HeaderInv, HeaderTypeOK
<1> QED BY <1>1, Undisturbed DEF FileInv

\* What Becomes says of h itself.
LEMMA Itself ==
    ASSUME FileInv, NEW h \in Headers, NEW lives, NEW img, NEW n, NEW t, Becomes(h, lives, img, n, t)
    PROVE  HeaderInv' /\ alive'[h] = lives /\ image'[h] = img /\ Nb'[h] = n /\ (n # 0 => TableOf(h)' = t)
  BY DEF Becomes, FileInv, HeaderInv, HeaderTypeOK

\* Headers that do not change become what they are.
LEMMA NoChange ==
    ASSUME HeaderInv, UNCHANGED headerVars, NEW h \in Headers
    PROVE  Becomes(h, alive[h], image[h], Nb[h], TableOf(h))
<1>1. HeaderInv'
    BY DEF HeaderInv, HeaderTypeOK, Owns, headerVars
<1> QED BY <1>1 DEF Becomes, HeaderInv, HeaderTypeOK, TableOf, headerVars

-----------------------------------------------------------------------------
\* The short operations.
LEMMA NewStep ==
    ASSUME FileInv, NEW h \in Headers, NEW name \in Files \cup {NoName}, New(h, name)
    PROVE  FileInv' /\ \A g \in Headers : alive[g] => alive'[g]
<1>1. Becomes(h, TRUE, NoImage, 0, Junk)
    BY ConstructStep DEF New, FileInv
<1>2. FileTypeOK' /\ filename'[h] = name
    BY DEF New, FileInv, FileTypeOK
<1>3. \A g \in Headers \ {h} : ObjectInv(g)'
    <2>1. \A g \in Headers \ {h} : filename'[g] = filename[g]
        BY DEF New, FileInv, FileTypeOK
    <2> QED BY <1>1, <2>1, Others DEF New
<1>4. ObjectInv(h)'
    <2>1. ~alive[h] /\ busy'[h] = "no" /\ ~current'[h]
        BY DEF New, Construct, FileInv, ObjectInv, DeadIsQuiet
    <2> QED BY <2>1 DEF ObjectInv, DeadIsQuiet, HasWhatItNeeds, Fits, Agrees
<1>5. \A g \in Headers : alive[g] => alive'[g]
    BY <1>1 DEF Becomes, FileInv, HeaderInv, HeaderTypeOK
<1> QED BY <1>1, <1>2, <1>3, <1>4, <1>5, Itself DEF FileInv

\* A copy of an object keeps what holds of all objects and files, and ends none.
LEMMA CopyStep ==
    ASSUME FileInv, NEW h \in Headers, NEW p \in Headers, Copy(h, p)
    PROVE  FileInv' /\ \A g \in Headers : alive[g] => alive'[g]
<1>0. PICK img, n, t : img = image[p] /\ n = Nb[p] /\ t = TableOf(p)
    OBVIOUS
<1>1. Becomes(h, TRUE, img, n, t)
    BY <1>0, CopyConstructStep DEF Copy, FileInv, Becomes
<1>2. FileTypeOK' /\ UNCHANGED fileVars
    BY DEF Copy, FileInv, FileTypeOK, fileVars
<1>3. \A g \in Headers \ {h} : ObjectInv(g)'
    BY <1>1, <1>2, Others DEF fileVars
<1>4. ObjectInv(h)'
    <2>1. ~alive[h] /\ busy'[h] = "no" /\ ~current'[h]
        BY <1>2 DEF Copy, CopyConstruct, FileInv, ObjectInv, DeadIsQuiet, fileVars
    <2> QED BY <2>1 DEF ObjectInv, DeadIsQuiet, HasWhatItNeeds, Fits, Agrees
<1>5. \A g \in Headers : alive[g] => alive'[g]
    BY <1>1 DEF Becomes, FileInv, HeaderInv, HeaderTypeOK
<1> QED BY <1>1, <1>2, <1>3, <1>4, <1>5, Itself DEF FileInv

\* An operation after which the header is nobody's, and nothing else of note.
LEMMA Uncurrent ==
    ASSUME FileInv, NEW h \in Headers, NEW lives, NEW img, NEW n, NEW t,
           Becomes(h, lives, img, n, t), Idle(h), FileTypeOK',
           \A g \in Headers \ {h} : filename'[g] = filename[g],
           current' = [current EXCEPT ![h] = FALSE], Return(h, OK), UNCHANGED <<disk, busy>>
    PROVE  FileInv' /\ \A g \in Headers \ {h} : alive[g] => alive'[g]
<1>1. \A g \in Headers \ {h} : result'[g] = result[g] /\ current'[g] = current[g]
    BY DEF Return, FileInv, FileTypeOK
<1>2. \A g \in Headers \ {h} : ObjectInv(g)'
    BY <1>1, Others
<1>3. busy'[h] = "no" /\ ~current'[h]
    BY DEF Idle, FileInv, FileTypeOK
<1>4. ObjectInv(h)'
    BY <1>3 DEF ObjectInv, DeadIsQuiet, HasWhatItNeeds, Fits, Agrees
<1>5. \A g \in Headers \ {h} : alive[g] => alive'[g]
    BY DEF Becomes, FileInv, HeaderInv, HeaderTypeOK
<1> QED BY <1>2, <1>4, <1>5, Itself DEF FileInv

\* So does an assignment to an object.
LEMMA CopyIntoStep ==
    ASSUME FileInv, NEW h \in Headers, NEW p \in Headers, CopyInto(h, p)
    PROVE  FileInv' /\ \A g \in Headers : alive[g] => alive'[g]
<1>1. PICK img, n, t : img = image[p] /\ n = Nb[p] /\ t = TableOf(p)
    OBVIOUS
<1>2. Becomes(h, TRUE, img, n, t)
    BY <1>1, AssignStep DEF CopyInto, FileInv, Becomes
<1>3. FileTypeOK'
    BY DEF CopyInto, Return, FileInv, FileTypeOK
<1> QED BY <1>2, <1>3, Uncurrent, Itself DEF CopyInto

\* So does setHeader of an object.
LEMMA SetHeaderOfObject ==
    ASSUME FileInv, NEW h \in Headers, NEW img \in Images, SetHeader(h, img)
    PROVE  FileInv' /\ \A g \in Headers : alive[g] => alive'[g]
<1>1. PICK n, t : n = Nb[h] /\ t = TableOf(h)
    OBVIOUS
<1>2. Becomes(h, TRUE, img, n, t)
    BY <1>1, SetHeaderStep DEF SetHeader, FileInv, Becomes, AnyImage
<1>3. FileTypeOK'
    BY DEF SetHeader, Return, FileInv, FileTypeOK
<1> QED BY <1>2, <1>3, Uncurrent, Itself DEF SetHeader

\* So does setFilename.
LEMMA SetFilenameStep ==
    ASSUME FileInv, NEW h \in Headers, NEW name \in Files \cup {NoName}, setFilename(h, name)
    PROVE  FileInv' /\ \A g \in Headers : alive[g] => alive'[g]
<1>1. PICK img, n, t : img = image[h] /\ n = Nb[h] /\ t = TableOf(h)
    OBVIOUS
<1>2. UNCHANGED headerVars /\ alive[h]
    BY DEF setFilename, Idle
<1>3. Becomes(h, TRUE, img, n, t)
    BY <1>1, <1>2, NoChange DEF FileInv, Becomes
<1>4. FileTypeOK' /\ \A g \in Headers \ {h} : filename'[g] = filename[g]
    BY DEF setFilename, Return, FileInv, FileTypeOK
<1> QED BY <1>3, <1>4, Uncurrent, Itself DEF setFilename

\* The end of an object ends no other.
LEMMA DeleteStep ==
    ASSUME FileInv, NEW h \in Headers, Delete(h)
    PROVE  FileInv' /\ \A g \in Headers \ {h} : alive[g] => alive'[g]
<1>1. Becomes(h, FALSE, NoImage, 0, Junk)
    BY DestroyStep DEF Delete, FileInv
<1>2. FileTypeOK' /\ \A g \in Headers \ {h} : filename'[g] = filename[g]
    BY DEF Delete, Return, FileInv, FileTypeOK
<1> QED BY <1>1, <1>2, Uncurrent DEF Delete

\* Calls that fail at once, and functions that stop: only the result is set.
LEMMA Refuse ==
    ASSUME FileInv, NEW h \in Headers, Return(h, Error),
           UNCHANGED <<headerVars, filename, disk, busy, current>>
    PROVE  FileInv' /\ \A g \in Headers : alive[g] => alive'[g]
<1>1. PICK lives, img, n, t : lives = alive[h] /\ img = image[h] /\ n = Nb[h] /\ t = TableOf(h)
    OBVIOUS
<1>2. Becomes(h, lives, img, n, t)
    BY <1>1, NoChange DEF FileInv, Becomes
<1>3. FileTypeOK' /\ result'[h] = Error /\ \A g \in Headers \ {h} : result'[g] = result[g]
    BY DEF Return, FileInv, FileTypeOK
<1>4. \A g \in Headers \ {h} : ObjectInv(g)'
    BY <1>2, <1>3, Others
<1>5. ObjectInv(h)'
    <2>1. TableOf(h)' = TableOf(h) /\ File(h)' = File(h)
        BY DEF TableOf, File, headerVars
    <2> QED BY <2>1, <1>3, ImageFileAssumption
            DEF FileInv, ObjectInv, DeadIsQuiet, HasWhatItNeeds, Fits, Agrees, headerVars, calculateNumBlocks
<1> QED BY <1>2, <1>3, <1>4, <1>5, Itself DEF FileInv, headerVars

\* A step that changes no object and no file keeps what holds of them.
LEMMA Stutter ==
    ASSUME FileInv, UNCHANGED vars
    PROVE  FileInv' /\ \A g \in Headers : alive[g] => alive'[g]
<1>1. UNCHANGED headerVars /\ UNCHANGED fileVars /\ FileTypeOK'
    BY DEF vars, fileVars, FileInv, FileTypeOK
<1>2. HeaderInv'
    BY <1>1 DEF FileInv, HeaderInv, HeaderTypeOK, Owns, headerVars
<1>3. \A g \in Headers : ObjectInv(g)'
    BY <1>1, Undisturbed DEF FileInv, headerVars, fileVars, TableOf
<1> QED BY <1>1, <1>2, <1>3 DEF FileInv, headerVars

-----------------------------------------------------------------------------
\* readHeader, of a file as far as it is written.
LEMMA TakeHeaderStep ==
    ASSUME FileInv, NEW h \in Headers, alive[h], Exists(h), TakeHeader(h)
    PROVE  \E img, t : /\ Becomes(h, TRUE, img, calculateNumBlocks(img), t)
                       /\ File(h).state = "complete" => img = File(h).image /\ t = img
<1>1. PICK file, mine : file = File(h) /\ mine = image[h]
    OBVIOUS
<1>2. /\ file.image \in AnyImage /\ file # Missing
      /\ file.state \in {"empty", "partial", "damaged", "complete"}
    BY <1>1, Contents DEF Exists, File, FileInv
<1>3. CASE file.state = "empty"
    <2>1. resizeOnly(h)
        BY <1>1, <1>3 DEF TakeHeader, readHeaderOfEmptyFile
    <2>2. PICK t : Becomes(h, TRUE, image[h], calculateNumBlocks(image[h]), t)
        BY <2>1, ResizeOnlyStep DEF FileInv
    <2>3. Becomes(h, TRUE, mine, calculateNumBlocks(mine), t)
        BY <1>1, <2>2 DEF Becomes
    <2> QED BY <1>1, <1>3, <2>3
<1>4. CASE file.state = "partial"
    <2>1. readHeaderShort(h, file.image)
        BY <1>1, <1>4 DEF TakeHeader, readHeaderShort, resizeBlockOffset
    <2>2. Becomes(h, TRUE, file.image, calculateNumBlocks(file.image), Junk)
        BY <1>2, <2>1, ReadHeaderStep DEF FileInv
    <2> QED BY <1>1, <1>4, <2>2
<1>5. CASE file.state \in {"damaged", "complete"}
    <2>1. readHeader(h, file.image)
        BY <1>1, <1>5 DEF TakeHeader, readHeader, resizeBlockOffset
    <2>2. Becomes(h, TRUE, file.image, calculateNumBlocks(file.image), file.image)
        BY <1>2, <2>1, ReadHeaderStep DEF FileInv
    <2> QED BY <1>1, <1>5, <2>2
<1> QED BY <1>2, <1>3, <1>4, <1>5

\* An object that has read its header and does now something or nothing with it.
LEMMA HeaderTaken ==
    ASSUME FileInv, NEW h \in Headers, Idle(h), Exists(h), TakeHeader(h),
           NEW value \in {OK, Error}, Return(h, value), UNCHANGED <<filename, disk>>,
           NEW now \in {"no", "reading"}, busy' = [busy EXCEPT ![h] = now],
           now = "reading" => Nb'[h] # 0
    PROVE  FileInv' /\ \A g \in Headers : alive[g] => alive'[g]
<1>1. PICK img, t : /\ Becomes(h, TRUE, img, calculateNumBlocks(img), t)
                    /\ File(h).state = "complete" => img = File(h).image /\ t = img
    BY TakeHeaderStep DEF Idle
<1> DEFINE n == calculateNumBlocks(img)
<1> HIDE DEF n
<1>2. HeaderInv' /\ alive'[h] /\ image'[h] = img /\ Nb'[h] = n /\ (n # 0 => TableOf(h)' = t)
    BY <1>1, Itself DEF n
<1>3. /\ FileTypeOK' /\ result'[h] = value /\ current'[h] /\ busy'[h] = now
      /\ \A g \in Headers \ {h} : /\ result'[g] = result[g] /\ current'[g] = current[g]
                                  /\ busy'[g] = busy[g]
    BY DEF Return, TakeHeader, FileInv, FileTypeOK
<1>4. \A g \in Headers \ {h} : ObjectInv(g)'
    BY <1>1, <1>3, Others
<1>5. ObjectInv(h)'
    <2>1. value \notin Images \cup {Torn}
        BY ImageFileAssumption
    <2>2. File(h)' = File(h) /\ filename'[h] \in Files
        BY DEF File, Exists
    <2>3. Agrees(h)'
        BY <1>1, <1>2, <1>3, <2>1, <2>2 DEF Agrees
    <2>4. Fits(h)' /\ DeadIsQuiet(h)' /\ HasWhatItNeeds(h)'
        BY <1>2, <1>3, <2>2 DEF Fits, DeadIsQuiet, HasWhatItNeeds, n, calculateNumBlocks
    <2> QED BY <2>3, <2>4 DEF ObjectInv
<1>6. \A g \in Headers : alive[g] => alive'[g]
    BY <1>1 DEF Becomes, FileInv, HeaderInv, HeaderTypeOK
<1> QED BY <1>2, <1>3, <1>4, <1>5, <1>6 DEF FileInv

\* readHeader of an object.
LEMMA ReadHeaderOfObject ==
    ASSUME FileInv, NEW h \in Headers, ReadHeader(h)
    PROVE  FileInv' /\ \A g \in Headers : alive[g] => alive'[g]
<1>1. busy' = [busy EXCEPT ![h] = "no"]
    BY DEF ReadHeader, Idle, FileInv, FileTypeOK
<1> QED BY <1>1, HeaderTaken DEF ReadHeader

\* readImage, to the point where the blocks are read.
LEMMA StartReadStep ==
    ASSUME FileInv, NEW h \in Headers, StartRead(h)
    PROVE  FileInv' /\ \A g \in Headers : alive[g] => alive'[g]
<1>1. busy = [busy EXCEPT ![h] = "no"]
    BY DEF StartRead, Idle, FileInv, FileTypeOK
<1>2. CASE NeedsHeader(h)
    <2>1. Exists(h) /\ TakeHeader(h) /\ Idle(h)
        BY <1>2 DEF StartRead
    <2>2. CASE Nb'[h] = 0
        BY <1>1, <2>1, <2>2, HeaderTaken DEF StartRead
    <2>3. CASE Nb'[h] # 0
        BY <2>1, <2>3, HeaderTaken DEF StartRead
    <2> QED BY <2>2, <2>3
<1>3. CASE ~NeedsHeader(h)
    <2>1. PICK lives, img, n, t : lives = alive[h] /\ img = image[h] /\ n = Nb[h] /\ t = TableOf(h)
        OBVIOUS
    <2>2. UNCHANGED headerVars /\ UNCHANGED <<filename, disk, current>> /\ Nb[h] # 0
        BY <1>3 DEF StartRead, NeedsHeader
    <2>3. Becomes(h, lives, img, n, t)
        BY <2>1, <2>2, NoChange DEF FileInv, Becomes
    <2>4. Return(h, OK) /\ busy' = [busy EXCEPT ![h] = "reading"]
        BY <2>2 DEF StartRead, headerVars
    <2>5. /\ FileTypeOK' /\ result'[h] = OK /\ busy'[h] = "reading"
          /\ \A g \in Headers \ {h} : result'[g] = result[g] /\ busy'[g] = busy[g]
        BY <2>2, <2>4 DEF Return, FileInv, FileTypeOK
    <2>6. \A g \in Headers \ {h} : ObjectInv(g)'
        BY <2>2, <2>3, <2>5, Others
    <2>7. ObjectInv(h)'
        <3>1. TableOf(h)' = TableOf(h) /\ File(h)' = File(h) /\ alive[h] /\ filename[h] \in Files
            BY <2>2 DEF TableOf, File, headerVars, StartRead, Idle, FileInv, FileTypeOK
        <3> QED BY <2>2, <2>5, <3>1, ImageFileAssumption
                DEF FileInv, ObjectInv, DeadIsQuiet, HasWhatItNeeds, Fits, Agrees, headerVars, calculateNumBlocks
    <2> QED BY <2>2, <2>3, <2>5, <2>6, <2>7, Itself DEF FileInv, headerVars
<1> QED BY <1>2, <1>3

\* readImage, from there to its end.
LEMMA FinishReadStep ==
    ASSUME FileInv, NEW h \in Headers, FinishRead(h)
    PROVE  FileInv' /\ \A g \in Headers : alive[g] => alive'[g]
<1>1. PICK lives, img, n, t : lives = alive[h] /\ img = image[h] /\ n = Nb[h] /\ t = TableOf(h)
    OBVIOUS
<1>2. UNCHANGED headerVars /\ UNCHANGED <<filename, disk, current>>
    BY DEF FinishRead
<1>3. Becomes(h, lives, img, n, t)
    BY <1>1, <1>2, NoChange DEF FileInv, Becomes
<1>4. PICK value : /\ Return(h, value)
                   /\ value = Error \/ (Exists(h) /\ value \in Delivered(h))
    BY DEF FinishRead
<1>5. value \in Images \cup {Torn, OK, Error}
    <2>1. ASSUME Exists(h), Readable(h) PROVE image[h] \in Images
        <3>1. disk[filename[h]].state = "complete" /\ disk[filename[h]].image = image[h]
            BY <2>1 DEF Readable, File
        <3> QED BY <2>1, <3>1, Contents DEF Exists, FileInv
    <2> QED BY <1>4, <2>1 DEF Delivered
<1>6. /\ FileTypeOK' /\ result'[h] = value /\ busy'[h] = "no"
      /\ \A g \in Headers \ {h} : result'[g] = result[g] /\ busy'[g] = busy[g]
    BY <1>2, <1>4, <1>5 DEF Return, FinishRead, FileInv, FileTypeOK
<1>7. \A g \in Headers \ {h} : ObjectInv(g)'
    BY <1>2, <1>3, <1>6, Others
<1>8. ObjectInv(h)'
    <2>1. TableOf(h)' = TableOf(h) /\ File(h)' = File(h)
        BY <1>2 DEF TableOf, File, headerVars
    <2>2. ObjectInv(h)
        BY DEF FileInv
    \* A header that is current finds in a complete file what is there.
    <2>3. ASSUME current[h], File(h).state = "complete"
          PROVE  value \in Images \cup {Torn} =>
                     \/ value = File(h).image
                     \/ File(h).image \in Zlib /\ value = Torn
        <3>1. filename[h] \in Files /\ Nb[h] # 0 /\ busy[h] = "reading"
            BY <2>2, <2>3 DEF ObjectInv, HasWhatItNeeds, FinishRead
        <3>2. image[h] = File(h).image /\ TableOf(h) = image[h] /\ Nb[h] = calculateNumBlocks(image[h])
            BY <2>2, <2>3, <3>1 DEF ObjectInv, Agrees, Fits
        <3>3. File(h) = [state |-> "complete", image |-> image[h]]
            BY <2>3, <3>1, <3>2, Contents DEF File, FileInv
        <3>4. Readable(h)
            BY <3>1, <3>2, <3>3 DEF Readable
        <3>5. value \in Delivered(h) =>
                  value = image[h] \/ (image[h] \in Zlib /\ value = Torn)
            BY <3>4 DEF Delivered
        <3> QED BY <1>4, <3>2, <3>5, ImageFileAssumption
    <2>4. Agrees(h)'
        BY <1>2, <1>6, <2>1, <2>2, <2>3 DEF ObjectInv, Agrees, headerVars
    <2> QED BY <1>2, <1>6, <2>2, <2>4
            DEF ObjectInv, DeadIsQuiet, HasWhatItNeeds, Fits, headerVars, calculateNumBlocks
<1> QED BY <1>2, <1>3, <1>6, <1>7, <1>8, Itself DEF FileInv, headerVars

-----------------------------------------------------------------------------
\* Who changes a file spoils what others know of it, and nothing else.
LEMMA ChangeStep ==
    ASSUME FileInv, NEW h \in Headers, NEW img, NEW n, NEW t, Becomes(h, TRUE, img, n, t),
           alive[h], filename[h] \in Files, NEW contents \in FileContents,
           NEW now \in {"no", "writing"}, Change(h, contents, now),
           result' \in [Headers -> Images \cup {Torn, OK, Error}],
           \A g \in Headers \ {h} : result'[g] = result[g], UNCHANGED filename,
           ObjectInv(h)'
    PROVE  FileInv' /\ \A g \in Headers : alive[g] => alive'[g]
<1>1. disk' = [disk EXCEPT ![filename[h]] = contents] /\ disk' \in [Files -> FileContents]
    BY DEF Change, FileInv, FileTypeOK
<1>2. FileTypeOK'
    BY <1>1 DEF Change, FileInv, FileTypeOK
<1>3. ASSUME NEW g \in Headers \ {h} PROVE ObjectInv(g)'
    <2>1. alive'[g] = alive[g] /\ image'[g] = image[g] /\ Nb'[g] = Nb[g] /\ TableOf(g)' = TableOf(g)
        BY DEF Becomes, FileInv, HeaderInv, HeaderTypeOK
    <2>2. CASE filename[g] = filename[h]
        <3>1. ~current'[g] /\ busy'[g] = (IF busy[g] = "reading" THEN "torn" ELSE busy[g])
            BY <2>2 DEF Change
        <3> QED BY <2>1, <3>1 DEF FileInv, ObjectInv, DeadIsQuiet, HasWhatItNeeds, Fits, Agrees, calculateNumBlocks
    <2>3. CASE filename[g] # filename[h]
        <3>1. current'[g] = current[g] /\ busy'[g] = busy[g]
            BY <2>3 DEF Change, FileInv, FileTypeOK
        <3>2. CASE filename[g] \in Files
            <4>1. disk'[filename[g]] = disk[filename[g]]
                BY <1>1, <2>3, <3>2 DEF FileInv, FileTypeOK
            <4> QED BY <2>1, <3>1, <4>1, Undisturbed DEF FileInv
        <3>3. CASE filename[g] \notin Files
            BY <2>1, <3>1, <3>3 DEF FileInv, ObjectInv, DeadIsQuiet, HasWhatItNeeds, Fits, Agrees, calculateNumBlocks
        <3> QED BY <3>2, <3>3
    <2> QED BY <2>2, <2>3
<1>4. \A g \in Headers : alive[g] => alive'[g]
    BY DEF Becomes, FileInv, HeaderInv, HeaderTypeOK
<1> QED BY <1>2, <1>3, <1>4, Itself DEF FileInv

\* writeImage, to the point where the file is opened and truncated.
LEMMA StartWriteStep ==
    ASSUME FileInv, NEW h \in Headers, StartWrite(h)
    PROVE  FileInv' /\ \A g \in Headers : alive[g] => alive'[g]
<1>1. PICK img, n : img = image[h] /\ n = calculateNumBlocks(image[h])
    OBVIOUS
<1>2. PICK t : Becomes(h, TRUE, img, n, t)
    BY <1>1, ResizeOnlyStep DEF StartWrite, Idle, FileInv, Becomes
<1>3. alive[h] /\ filename[h] \in Files /\ img \in Images
    BY <1>1 DEF StartWrite, Idle, FileInv, FileTypeOK, HeaderInv, HeaderTypeOK
<1>4. /\ result' \in [Headers -> Images \cup {Torn, OK, Error}]
      /\ \A g \in Headers \ {h} : result'[g] = result[g]
    BY DEF StartWrite, Return, FileInv, FileTypeOK
<1>5. Change(h, EmptyFile, "writing") /\ EmptyFile \in FileContents /\ UNCHANGED filename
    BY DEF StartWrite, FileContents
<1>6. ObjectInv(h)'
    <2>1. ~current'[h] /\ busy'[h] = "writing"
        BY <1>5 DEF Change
    <2>2. alive'[h] /\ image'[h] = img /\ Nb'[h] = n
        BY <1>2 DEF Becomes, FileInv, HeaderInv, HeaderTypeOK
    <2> QED BY <1>1, <1>3, <1>5, <2>1, <2>2
            DEF ObjectInv, DeadIsQuiet, HasWhatItNeeds, Fits, Agrees, calculateNumBlocks
<1> QED BY <1>2, <1>3, <1>4, <1>5, <1>6, ChangeStep

\* A flush of the buffer leaves a part of the image in the file.
LEMMA FlushStep ==
    ASSUME FileInv, NEW h \in Headers, Flush(h)
    PROVE  FileInv' /\ \A g \in Headers : alive[g] => alive'[g]
<1>1. PICK img, n, t : img = image[h] /\ n = Nb[h] /\ t = TableOf(h)
    OBVIOUS
<1>2. UNCHANGED headerVars /\ UNCHANGED <<filename, result>> /\ busy[h] = "writing"
    BY DEF Flush
<1>3. alive[h] /\ img \in Images /\ filename[h] \in Files
    BY <1>1, <1>2 DEF FileInv, ObjectInv, DeadIsQuiet, HasWhatItNeeds
<1>4. Becomes(h, TRUE, img, n, t)
    BY <1>1, <1>2, <1>3, NoChange DEF FileInv, Becomes
<1> DEFINE contents == [state |-> "partial", image |-> img]
<1>5. contents \in FileContents /\ Change(h, contents, "writing")
    BY <1>1, <1>3 DEF Flush, FileContents, Change
<1>6. ObjectInv(h)'
    <2>1. ~current'[h] /\ busy'[h] = "writing"
        BY <1>5 DEF Change
    <2> QED BY <1>2, <2>1 DEF FileInv, ObjectInv, DeadIsQuiet, HasWhatItNeeds, Fits, Agrees,
                              headerVars, calculateNumBlocks
<1> HIDE DEF contents
<1>7. /\ result' \in [Headers -> Images \cup {Torn, OK, Error}]
      /\ \A g \in Headers \ {h} : result'[g] = result[g]
    BY <1>2 DEF FileInv, FileTypeOK
<1> QED BY <1>2, <1>3, <1>4, <1>5, <1>6, <1>7, ChangeStep

\* writeImage, from there to its end: the table is filled in, and the file complete or damaged.
LEMMA FinishWriteStep ==
    ASSUME FileInv, NEW h \in Headers, FinishWrite(h)
    PROVE  FileInv' /\ \A g \in Headers : alive[g] => alive'[g]
<1>1. PICK img, n : img = image[h] /\ n = Nb[h]
    OBVIOUS
<1>2. busy[h] = "writing" /\ fillTable(h) /\ UNCHANGED filename /\ n # 0
    BY <1>1 DEF FinishWrite, fillTable
<1>3. alive[h] /\ img \in Images /\ filename[h] \in Files /\ n = calculateNumBlocks(img)
    BY <1>1, <1>2 DEF FileInv, ObjectInv, DeadIsQuiet, HasWhatItNeeds, Fits
<1>4. Becomes(h, TRUE, img, n, img)
    BY <1>1, <1>2, <1>3, FillTableStep DEF FileInv, Becomes
<1>5. PICK state \in {"complete", "damaged"}, value \in {OK, Error} :
          /\ Change(h, [state |-> state, image |-> image[h]], "no")
          /\ Return(h, value)
    BY DEF FinishWrite
<1> DEFINE contents == [state |-> state, image |-> img]
<1>6. contents \in FileContents /\ Change(h, contents, "no")
    BY <1>1, <1>3, <1>5 DEF FileContents, Change
<1>7. /\ result' \in [Headers -> Images \cup {Torn, OK, Error}] /\ result'[h] \in {OK, Error}
      /\ \A g \in Headers \ {h} : result'[g] = result[g]
    BY <1>5 DEF Return, FileInv, FileTypeOK
<1>8. ObjectInv(h)'
    <2>1. current'[h] /\ busy'[h] = "no" /\ disk'[filename[h]] = contents
        BY <1>3, <1>6 DEF Change, FileInv, FileTypeOK
    <2>2. alive'[h] /\ image'[h] = img /\ Nb'[h] = n /\ TableOf(h)' = img
        BY <1>2, <1>4 DEF Becomes, FileInv, HeaderInv, HeaderTypeOK
    <2>3. File(h)'.image = img /\ result'[h] \notin Images \cup {Torn}
        BY <1>2, <1>7, <2>1, ImageFileAssumption DEF File
    <2> QED BY <1>2, <1>3, <2>1, <2>2, <2>3
            DEF ObjectInv, DeadIsQuiet, HasWhatItNeeds, Fits, Agrees, calculateNumBlocks
<1> HIDE DEF contents
<1> QED BY <1>2, <1>3, <1>4, <1>6, <1>7, <1>8, ChangeStep

-----------------------------------------------------------------------------
\* All calls.
CallInv ==
    /\ call = [h \in Headers |-> call[h]]
    /\ \A h \in Headers : call[h] # Own => alive[h]

IInv == FileInv /\ CallInv

\* A crash ends the objects and leaves the files.
LEMMA CrashStep ==
    ASSUME FileInv, Crash
    PROVE  FileInv'
<1>1. FileTypeOK'
    BY DEF Crash, FileInv, FileTypeOK
<1>2. HeaderInv'
    BY LengthsAreNumbers DEF Crash, LoseMemory, HeaderInv, HeaderTypeOK, Owns, Free
<1>3. \A h \in Headers : ObjectInv(h)'
    BY DEF Crash, ObjectInv, DeadIsQuiet, HasWhatItNeeds, Fits, Agrees
<1> QED BY <1>1, <1>2, <1>3 DEF FileInv

\* The invariant holds before the first call.
LEMMA Initially == CallsInit => IInv
<1> SUFFICES ASSUME CallsInit PROVE IInv
    OBVIOUS
<1>1. FileTypeOK
    BY DEF CallsInit, Init, FileTypeOK, FileContents
<1>2. HeaderInv
    BY LengthsAreNumbers DEF CallsInit, Init, HeaderInit, HeaderInv, HeaderTypeOK, Owns, Free
<1>3. \A h \in Headers : ObjectInv(h)
    BY DEF CallsInit, Init, ObjectInv, DeadIsQuiet, HasWhatItNeeds, Fits, Agrees
<1>4. CallInv
    BY DEF CallsInit, CallInv
<1> QED BY <1>1, <1>2, <1>3, <1>4 DEF IInv, FileInv

\* An operation, of the program's or a function's, on an object that stays.
LEMMA ByStep ==
    ASSUME CallInv, NEW h \in Headers,
           \A g \in Headers : alive[g] => alive'[g],
           \/ UNCHANGED call
           \/ call[h] # Own /\ \E c : call' = [call EXCEPT ![h] = c]
    PROVE  CallInv'
  BY DEF CallInv

\* What the operations of a call do is what those of an object do.
LEMMA OperationStep ==
    ASSUME FileInv, NEW h \in Headers, NEW op,
           \/ \E img \in Images : By(h, "setHeader", SetHeader(h, img))
           \/ By(h, "readHeader", ReadHeader(h) \/ NoSuchFile(h))
           \/ By(h, op, StartRead(h) \/ NoSuchFile(h) \/ FinishRead(h))
           \/ By(h, "writeImage", WriteFails(h) \/ StartWrite(h) \/ Flush(h) \/ FinishWrite(h))
    PROVE  FileInv' /\ \A g \in Headers : alive[g] => alive'[g]
<1>1. \/ \E img \in Images : SetHeader(h, img)
      \/ ReadHeader(h) \/ NoSuchFile(h) \/ StartRead(h) \/ FinishRead(h)
      \/ WriteFails(h) \/ StartWrite(h) \/ Flush(h) \/ FinishWrite(h)
    BY DEF By
<1>2. NoSuchFile(h) \/ WriteFails(h) => Return(h, Error) /\ UNCHANGED <<headerVars, filename, disk, busy, current>>
    BY DEF NoSuchFile, WriteFails
<1> QED BY <1>1, <1>2, SetHeaderOfObject, ReadHeaderOfObject, StartReadStep, FinishReadStep, Refuse,
           StartWriteStep, FlushStep, FinishWriteStep

\* To make room for an image changes no object.
LEMMA MakeRoomStep ==
    ASSUME IInv, NEW h \in Headers, NEW op, NEW pixels, MakeRoom(h, op, pixels)
    PROVE  IInv'
<1>1. FileInv' /\ \A g \in Headers : alive[g] => alive'[g]
    BY Stutter DEF MakeRoom, IInv
<1>2. call[h] # Own /\ \E c : call' = [call EXCEPT ![h] = c]
    BY DEF MakeRoom, Own
<1> QED BY <1>1, <1>2, ByStep DEF IInv

\* One step per kind of call.
LEMMA Step ==
    ASSUME IInv, [Next]_allVars
    PROVE  IInv'
<1>0. FileInv /\ CallInv
    BY DEF IInv
<1>1. ASSUME NEW h \in Headers, NEW name \in Files, NEW function, Enter(h, function, name)
      PROVE  IInv'
    <2>1. New(h, name) /\ \E c : call' = [call EXCEPT ![h] = c]
        BY <1>1 DEF Enter
    <2>2. FileInv' /\ \A g \in Headers : alive[g] => alive'[g]
        BY <1>0, <2>1, NewStep
    <2>3. alive'[h]
        BY <1>0, <2>1 DEF New, Construct, FileInv, HeaderInv, HeaderTypeOK
    <2>4. CallInv'
        BY <1>0, <2>1, <2>2, <2>3 DEF CallInv
    <2> QED BY <2>2, <2>4 DEF IInv
<1>2. ASSUME NEW h \in Headers, Leave(h)
      PROVE  IInv'
    <2>1. Delete(h) /\ call' = [call EXCEPT ![h] = Own]
        BY <1>2 DEF Leave
    <2>2. FileInv' /\ \A g \in Headers \ {h} : alive[g] => alive'[g]
        BY <1>0, <2>1, DeleteStep
    <2>3. CallInv'
        BY <1>0, <2>1, <2>2 DEF CallInv
    <2> QED BY <2>2, <2>3 DEF IInv
<1>3. ASSUME NEW h \in Headers, NEW name \in Files \cup {NoName},
             ByProgram(h, New(h, name) \/ setFilename(h, name))
      PROVE  IInv'
    <2>1. (New(h, name) \/ setFilename(h, name)) /\ UNCHANGED call
        BY <1>3 DEF ByProgram
    <2>2. FileInv' /\ \A g \in Headers : alive[g] => alive'[g]
        BY <1>0, <2>1, NewStep, SetFilenameStep
    <2> QED BY <1>0, <2>1, <2>2, ByStep DEF IInv
<1>4. ASSUME NEW h \in Headers, NEW p \in Headers, ByProgram(h, Copy(h, p) \/ CopyInto(h, p))
      PROVE  IInv'
    <2>1. (Copy(h, p) \/ CopyInto(h, p)) /\ UNCHANGED call
        BY <1>4 DEF ByProgram
    <2>2. FileInv' /\ \A g \in Headers : alive[g] => alive'[g]
        BY <1>0, <2>1, CopyStep, CopyIntoStep
    <2> QED BY <1>0, <2>1, <2>2, ByStep DEF IInv
<1>5. ASSUME NEW h \in Headers, NEW op,
             \/ \E img \in Images : By(h, "setHeader", SetHeader(h, img))
             \/ By(h, "readHeader", ReadHeader(h) \/ NoSuchFile(h))
             \/ By(h, op, StartRead(h) \/ NoSuchFile(h) \/ FinishRead(h))
             \/ By(h, "writeImage", WriteFails(h) \/ StartWrite(h) \/ Flush(h) \/ FinishWrite(h))
      PROVE  IInv'
    <2>1. FileInv' /\ \A g \in Headers : alive[g] => alive'[g]
        BY <1>0, <1>5, OperationStep
    <2>2. \/ UNCHANGED call
          \/ call[h] # Own /\ \E c : call' = [call EXCEPT ![h] = c]
        BY <1>5 DEF By
    <2> QED BY <1>0, <2>1, <2>2, ByStep DEF IInv
<1>6. ASSUME Crash, call' = [h \in Headers |-> Own]
      PROVE  IInv'
    BY <1>0, <1>6, CrashStep DEF IInv, CallInv
<1>7. CASE UNCHANGED allVars
    <2>1. UNCHANGED vars /\ UNCHANGED call
        BY <1>7 DEF allVars
    <2>2. FileInv' /\ \A g \in Headers : alive[g] => alive'[g]
        BY <1>0, <2>1, Stutter
    <2> QED BY <1>0, <2>1, <2>2 DEF IInv, CallInv
<1>8. CASE Next
    BY <1>1, <1>2, <1>3, <1>4, <1>5, <1>6, <1>8, MakeRoomStep DEF Next
<1> QED BY <1>7, <1>8

\* The invariant holds: of the headers, of what objects know of files, and of calls.
THEOREM Invariant == Spec => []IInv
  BY Initially, Step, PTL DEF Spec

-----------------------------------------------------------------------------
\* The properties are consequences of the invariant.
LEMMA WhatItMeans == IInv => TypeOK /\ LengthIsRight /\ OwnedOnce /\ TableFitsSizes /\ ReadsLastWrite
<1> SUFFICES ASSUME IInv PROVE TypeOK /\ LengthIsRight /\ OwnedOnce /\ TableFitsSizes /\ ReadsLastWrite
    OBVIOUS
<1>1. HeaderInv /\ FileTypeOK /\ CallInv /\ \A h \in Headers : ObjectInv(h)
    BY DEF IInv, FileInv
<1>2. TypeOK
    BY <1>1 DEF TypeOK, HeaderInv, CallInv
<1>3. LengthIsRight
    BY <1>1 DEF LengthIsRight, Owners, HeaderInv, Owns
<1>4. OwnedOnce
    <2> SUFFICES ASSUME NEW a \in Addresses
                 PROVE  LET owners == {h \in Owners : blockOffset[h] = a}
                        IN  /\ heap[a] = Free => owners = {}
                            /\ heap[a] # Free => \E h \in Headers : owners = {h}
        BY DEF OwnedOnce
    <2>1. \A h \in Headers : h \in Owners <=> Nb[h] # 0
        BY <1>1 DEF Owners, HeaderInv
    <2>2. \A g, h \in Owners : blockOffset[g] = a /\ blockOffset[h] = a => g = h /\ heap[a].len = Nb[h]
        BY <1>1, <2>1 DEF HeaderInv, Owns, Owners
    <2>3. ASSUME heap[a] = Free, NEW h \in Owners, blockOffset[h] = a PROVE FALSE
        BY <2>1, <2>2, <2>3 DEF Free, Owners
    <2>4. ASSUME heap[a] # Free PROVE \E h \in Owners : blockOffset[h] = a
        BY <1>1, <2>1, <2>4 DEF HeaderInv, Owns
    <2> QED BY <2>2, <2>3, <2>4 DEF Owners
<1>5. TableFitsSizes
    BY <1>1 DEF TableFitsSizes, ObjectInv, Fits
<1>6. ReadsLastWrite
    BY <1>1 DEF ReadsLastWrite, ObjectInv, Agrees
<1> QED BY <1>2, <1>3, <1>4, <1>5, <1>6

\* All variables keep their types, and only objects that are alive belong to a call.
THEOREM TypeCorrect == Spec => []TypeOK
  BY Invariant, WhatItMeans, PTL

\* The array of a header has as many entries as the header says.
THEOREM LengthsAreRight == Spec => []LengthIsRight
  BY Invariant, WhatItMeans, PTL

\* Every table has one owner.
THEOREM TablesHaveOneOwner == Spec => []OwnedOnce
  BY Invariant, WhatItMeans, PTL

\* A header that is what its file holds, and one whose image is being written, has a
\* table as long as its sizes ask for (klb_imageHeader.cpp:189, :274).
THEOREM TablesFit == Spec => []TableFitsSizes
  BY Invariant, WhatItMeans, PTL

\* A read that returns 0 delivers what the last complete write stored, with an object
\* whose header is the file's; of zlib, unless an error was forgotten (klb_imageIO.cpp:619).
THEOREM ReadsReturnTheLastWrite == Spec => []ReadsLastWrite
  BY Invariant, WhatItMeans, PTL

-----------------------------------------------------------------------------
(***************************************************************************)
(* A function has room for what it reads: from the moment it makes room    *)
(* to the end of its read, its object keeps the header by which it did.    *)
(***************************************************************************)
\* What a function that begins has left to do, and then after each operation.
Todos == Functions \cup
    {<<"malloc", "readImage">>, <<"mxCreate", "readImage">>, <<"mxCreate2D", "readSlice">>,
     <<"mxCreateRegion", "readRegion">>,
     <<"writeImage">>, <<"readImage">>, <<"readSlice">>, <<"readRegion">>, <<>>}

\* It is about to make room, by the header,
ToMakeRoom == {<<"malloc", "readImage">>, <<"mxCreate", "readImage">>, <<"mxCreate2D", "readSlice">>}

\* or in its last operation, which is the only long one.
Last == {<<"writeImage">>, <<"readImage">>, <<"readSlice">>, <<"readRegion">>}

Room(h) == call[h].room > 0

RoomInv(h) == call[h] # Own =>
    LET todo == call[h].todo
        img == image[h]
    IN  /\ call[h] = [todo |-> todo, room |-> call[h].room]
        /\ todo \in Todos /\ call[h].room \in Int
        /\ busy[h] # "no" => todo \in Last
        /\ todo \in ToMakeRoom => Nb[h] = calculateNumBlocks(img)
        /\ Room(h) => todo \in {<<>>, <<"readImage">>, <<"readSlice">>}
        /\ Room(h) /\ todo # <<>> => Nb[h] # 0
        /\ Room(h) /\ todo = <<"readImage">> => getImageSizePixels(img) <= call[h].room
        /\ Room(h) /\ todo = <<"readSlice">> =>
              Channels[img] > 1 \/ defineSlicePixels(img) <= call[h].room

\* The lists, by their first operation.
LEMMA Lists ==
    ASSUME NEW todo \in Todos, todo # <<>>
    PROVE  /\ Tail(todo) \in Todos
           /\ Tail(todo) \in ToMakeRoom => Head(todo) = "readHeader"
           /\ Head(todo) \in ReadOps \cup {"writeImage"} <=> todo \in Last
           /\ todo \in Last => Tail(todo) = <<>>
           /\ Head(todo) \in {"malloc", "mxCreate", "mxCreate2D"} <=> todo \in ToMakeRoom
           /\ Head(todo) = "mxCreateRegion" => Tail(todo) = <<"readRegion">>
           /\ Head(todo) \in {"malloc", "mxCreate"} => Tail(todo) = <<"readImage">>
           /\ Head(todo) = "mxCreate2D" => Tail(todo) = <<"readSlice">>
           /\ todo = <<"readImage">> => Head(todo) = "readImage"
           /\ todo = <<"readSlice">> => Head(todo) = "readSlice"
<1> USE DEF Todos, Functions, ToMakeRoom, Last, ReadOps, writeKLBstack, writeKLBstackSlices, readKLBheader,
           readKLBstack, readKLBstackInPlace, readKLBroiInPlace, mexWriteStack, mexReadHeader,
           mexReadStack, mexReadSlice, mexReadRoi
<1>1. CASE todo = <<"setHeader", "writeImage">>
    BY <1>1
<1>2. CASE todo = <<"readHeader">>
    BY <1>2
<1>3. CASE todo = <<"readHeader", "malloc", "readImage">>
    BY <1>3
<1>4. CASE todo = <<"readHeader", "readImage">>
    BY <1>4
<1>5. CASE todo = <<"readRegion">>
    BY <1>5
<1>6. CASE todo = <<"readHeader", "mxCreate", "readImage">>
    BY <1>6
<1>7. CASE todo = <<"readHeader", "mxCreate2D", "readSlice">>
    BY <1>7
<1>8. CASE todo = <<"readHeader", "mxCreateRegion", "readRegion">>
    BY <1>8
<1>9. CASE todo = <<"malloc", "readImage">>
    BY <1>9
<1>10. CASE todo = <<"mxCreate", "readImage">>
    BY <1>10
<1>11. CASE todo = <<"mxCreate2D", "readSlice">>
    BY <1>11
<1>12. CASE todo = <<"mxCreateRegion", "readRegion">>
    BY <1>12
<1>13. CASE todo = <<"writeImage">>
    BY <1>13
<1>14. CASE todo = <<"readImage">>
    BY <1>14
<1>15. CASE todo = <<"readSlice">>
    BY <1>15
<1> QED BY <1>1, <1>2, <1>3, <1>4, <1>5, <1>6, <1>7, <1>8, <1>9, <1>10, <1>11, <1>12, <1>13, <1>14, <1>15

-----------------------------------------------------------------------------
\* Whatever h does, the headers of others and whether they are busy stay.
Apart(h) ==
    \A g \in Headers \ {h} : /\ image'[g] = image[g] /\ Nb'[g] = Nb[g]
                             /\ busy'[g] = "no" <=> busy[g] = "no"

\* To take the header of a file changes no other object.
LEMMA TakeHeaderApart ==
    ASSUME FileInv, NEW h \in Headers, alive[h], Exists(h), TakeHeader(h)
    PROVE  \A g \in Headers \ {h} : image'[g] = image[g] /\ Nb'[g] = Nb[g]
<1>1. PICK img, t : Becomes(h, TRUE, img, calculateNumBlocks(img), t)
    BY TakeHeaderStep
<1> QED BY <1>1 DEF Becomes, FileInv, HeaderInv, HeaderTypeOK

\* The operations of which By speaks.
Operates(h) ==
    \/ \E img \in Images : SetHeader(h, img)
    \/ ReadHeader(h) \/ NoSuchFile(h) \/ StartRead(h) \/ FinishRead(h)
    \/ WriteFails(h) \/ StartWrite(h) \/ Flush(h) \/ FinishWrite(h)

\* No operation of an object changes the image of another.
LEMMA OperatesApart ==
    ASSUME FileInv, NEW h \in Headers, Operates(h)
    PROVE  Apart(h)
<1>0. /\ image \in [Headers -> AnyImage] /\ Nb \in [Headers -> Lengths]
      /\ busy \in [Headers -> {"no", "writing", "reading", "torn"}] /\ HeaderInv
    BY DEF FileInv, HeaderInv, HeaderTypeOK, FileTypeOK, AnyImage
<1>1. ASSUME NEW img \in Images, SetHeader(h, img) PROVE Apart(h)
    BY <1>0, <1>1 DEF SetHeader, setHeader, Apart
<1>2. ASSUME ReadHeader(h) PROVE Apart(h)
    BY <1>0, <1>2, TakeHeaderApart DEF ReadHeader, Idle, Apart
<1>3. ASSUME NoSuchFile(h) \/ WriteFails(h) PROVE Apart(h)
    BY <1>0, <1>3 DEF NoSuchFile, WriteFails, headerVars, Apart
<1>4. ASSUME StartRead(h) PROVE Apart(h)
    <2>1. \A g \in Headers \ {h} : image'[g] = image[g] /\ Nb'[g] = Nb[g]
        <3>1. CASE NeedsHeader(h)
            BY <1>4, <3>1, TakeHeaderApart DEF StartRead, Idle
        <3>2. CASE ~NeedsHeader(h)
            BY <1>4, <3>2 DEF StartRead, headerVars
        <3> QED BY <3>1, <3>2
    <2>2. \A g \in Headers \ {h} : busy'[g] = busy[g]
        BY <1>0, <1>4 DEF StartRead
    <2> QED BY <2>1, <2>2 DEF Apart
<1>5. ASSUME FinishRead(h) PROVE Apart(h)
    BY <1>0, <1>5 DEF FinishRead, headerVars, Apart
<1>6. ASSUME NEW contents, NEW now, Change(h, contents, now)
      PROVE  \A g \in Headers \ {h} : busy'[g] = "no" <=> busy[g] = "no"
    BY <1>0, <1>6 DEF Change
<1>7. ASSUME StartWrite(h) PROVE Apart(h)
    <2>1. resizeOnly(h) /\ Change(h, EmptyFile, "writing") /\ alive[h]
        BY <1>7 DEF StartWrite, Idle
    <2>2. PICK img, n, t : Becomes(h, TRUE, img, n, t)
        <3>1. PICK t : Becomes(h, TRUE, image[h], calculateNumBlocks(image[h]), t)
            BY <1>0, <2>1, ResizeOnlyStep
        <3>2. PICK img, n : img = image[h] /\ n = calculateNumBlocks(image[h])
            OBVIOUS
        <3> QED BY <3>1, <3>2 DEF Becomes
    <2> QED BY <1>0, <1>6, <2>1, <2>2 DEF Becomes, Apart
<1>8. ASSUME Flush(h) \/ FinishWrite(h) PROVE Apart(h)
    <2>1. image' = image /\ Nb' = Nb
        BY <1>8 DEF Flush, FinishWrite, fillTable, headerVars
    <2>2. \E contents, now : Change(h, contents, now)
        BY <1>8 DEF Flush, FinishWrite, Change
    <2> QED BY <1>6, <2>1, <2>2 DEF Apart
<1> QED BY <1>1, <1>2, <1>3, <1>4, <1>5, <1>7, <1>8 DEF Operates

\* What happens to others does not touch the room a function has made.
LEMMA RoomOfOthers ==
    ASSUME NEW h \in Headers, Apart(h), \A g \in Headers \ {h} : call'[g] = call[g],
           \A g \in Headers : RoomInv(g)
    PROVE  \A g \in Headers \ {h} : RoomInv(g)'
<1> SUFFICES ASSUME NEW g \in Headers \ {h} PROVE RoomInv(g)'
    OBVIOUS
<1>1. /\ call'[g] = call[g] /\ image'[g] = image[g] /\ Nb'[g] = Nb[g]
      /\ busy'[g] # "no" => busy[g] # "no"
    BY DEF Apart
<1>2. /\ calculateNumBlocks(image[g])' = calculateNumBlocks(image[g])
      /\ getImageSizePixels(image[g])' = getImageSizePixels(image[g])
      /\ defineSlicePixels(image[g])' = defineSlicePixels(image[g])
    BY <1>1 DEF calculateNumBlocks, getImageSizePixels, defineSlicePixels
<1>3. RoomInv(g)
    OBVIOUS
<1>4. Room(g)' = Room(g)
    BY <1>1 DEF Room
<1> QED BY <1>1, <1>2, <1>3, <1>4 DEF RoomInv

-----------------------------------------------------------------------------
\* The next operation of a function.
OpsOf(h, op) ==
    \/ op = "setHeader" /\ \E img \in Images : SetHeader(h, img)
    \/ op = "readHeader" /\ (ReadHeader(h) \/ NoSuchFile(h))
    \/ op \in ReadOps /\ (StartRead(h) \/ NoSuchFile(h) \/ FinishRead(h))
    \/ op = "writeImage" /\ (WriteFails(h) \/ StartWrite(h) \/ Flush(h) \/ FinishWrite(h))

\* What By does besides.
Called(h, op) ==
    /\ call[h] = Own \/ (call[h].todo # <<>> /\ Head(call[h].todo) = op)
    /\ call' = IF call[h] = Own \/ busy'[h] # "no" THEN call
               ELSE [call EXCEPT ![h].todo = IF result'[h] = Error THEN <<>> ELSE Tail(@)]

\* While a call lasts, and the header it began with is not empty, it keeps that header.
LEMMA LongCall ==
    ASSUME FileInv, NEW h \in Headers, NEW op, OpsOf(h, op), busy'[h] # "no"
    PROVE  /\ op \in ReadOps \cup {"writeImage"}
           /\ op # "writeImage" /\ Nb[h] # 0 => image' = image /\ Nb' = Nb
<1>0. busy \in [Headers -> {"no", "writing", "reading", "torn"}]
    BY DEF FileInv, FileTypeOK
<1>1. CASE op = "setHeader"
    BY <1>0, <1>1 DEF OpsOf, SetHeader, Idle, ReadOps
<1>2. CASE op = "readHeader"
    BY <1>0, <1>2 DEF OpsOf, ReadHeader, NoSuchFile, Idle, ReadOps
<1>3. CASE op \in ReadOps
    <2>1. StartRead(h) \/ NoSuchFile(h) \/ FinishRead(h)
        BY <1>3 DEF OpsOf, ReadOps
    <2>2. Nb[h] # 0 => image' = image /\ Nb' = Nb
        BY <2>1 DEF StartRead, NeedsHeader, NoSuchFile, FinishRead, headerVars
    <2> QED BY <1>3, <2>2
<1>4. CASE op = "writeImage"
    BY <1>4
<1> QED BY <1>1, <1>2, <1>3, <1>4 DEF OpsOf

\* A readHeader that succeeds leaves a header that fits.
LEMMA AfterReadHeader ==
    ASSUME FileInv, FileInv', NEW h \in Headers, OpsOf(h, "readHeader"), result'[h] # Error
    PROVE  Nb'[h] = calculateNumBlocks(image'[h])
<1>1. ReadHeader(h)
    BY DEF OpsOf, ReadOps, NoSuchFile, Return, FileInv, FileTypeOK
<1>2. current'[h]
    BY <1>1 DEF ReadHeader, TakeHeader, FileInv, FileTypeOK
<1> QED BY <1>2 DEF FileInv, ObjectInv, Fits, calculateNumBlocks

\* After an operation the room made for the image is still what is needed.
LEMMA RoomAfterOperation ==
    ASSUME FileInv, FileInv', NEW h \in Headers, NEW op, OpsOf(h, op), RoomInv(h),
           call = [g \in Headers |-> call[g]], call[h] # Own,
           call[h].todo # <<>>, Head(call[h].todo) = op,
           call' = IF busy'[h] # "no" THEN call
                   ELSE [call EXCEPT ![h].todo = IF result'[h] = Error THEN <<>> ELSE Tail(@)]
    PROVE  RoomInv(h)'
<1> DEFINE todo == call[h].todo
           next == call'[h].todo
<1>1. todo \in Todos /\ todo # <<>> /\ call[h] = [todo |-> todo, room |-> call[h].room]
      /\ call[h].room \in Int /\ (Room(h) => todo \in Last)
    BY DEF RoomInv, Last
<1>2. CASE busy'[h] # "no"
    <2>1. call' = call /\ op \in ReadOps \cup {"writeImage"}
        BY <1>2, LongCall
    <2>2. todo \in Last
        BY <1>1, <2>1, Lists
    <2>3. todo \notin ToMakeRoom
        BY <2>2 DEF Last, ToMakeRoom
    <2>4. Room(h)' = Room(h)
        BY <2>1 DEF Room
    <2>5. ASSUME Room(h) PROVE image' = image /\ Nb' = Nb
        <3>1. todo \in {<<"readImage">>, <<"readSlice">>} /\ Nb[h] # 0
            BY <1>1, <2>5 DEF RoomInv
        <3>2. op # "writeImage"
            BY <1>1, <3>1, Lists
        <3> QED BY <1>2, <3>1, <3>2, LongCall
    <2>6. ASSUME Room(h) PROVE /\ getImageSizePixels(image[h])' = getImageSizePixels(image[h])
                               /\ defineSlicePixels(image[h])' = defineSlicePixels(image[h])
                               /\ image'[h] = image[h] /\ Nb'[h] = Nb[h]
        BY <2>5, <2>6 DEF getImageSizePixels, defineSlicePixels
    <2> QED BY <1>1, <2>1, <2>2, <2>3, <2>4, <2>6 DEF RoomInv
<1>3. CASE busy'[h] = "no"
    <2>1. call'[h] = [todo |-> IF result'[h] = Error THEN <<>> ELSE Tail(todo), room |-> call[h].room]
        BY <1>1, <1>3
    <2>2. next = (IF result'[h] = Error THEN <<>> ELSE Tail(todo)) /\ call'[h].room = call[h].room
        BY <2>1
    <2>3. next \in Todos
        BY <1>1, <2>2, Lists DEF Todos
    <2>4. next \in ToMakeRoom => Nb'[h] = calculateNumBlocks(image'[h])
        <3> SUFFICES ASSUME next \in ToMakeRoom PROVE Nb'[h] = calculateNumBlocks(image'[h])
            OBVIOUS
        <3>1. <<>> \notin ToMakeRoom
            BY DEF ToMakeRoom
        <3>2. result'[h] # Error /\ next = Tail(todo)
            BY <2>2, <3>1
        <3>3. op = "readHeader"
            BY <1>1, <3>2, Lists
        <3> QED BY <3>2, <3>3, AfterReadHeader
    <2>5. Room(h)' => next = <<>>
        BY <1>1, <2>2, Lists DEF Room
    <2>6. next = <<>> => next \notin {<<"readImage">>, <<"readSlice">>}
        OBVIOUS
    <2>7. calculateNumBlocks(image[h])' = calculateNumBlocks(image'[h])
        BY DEF calculateNumBlocks
    <2>8. call'[h] = [todo |-> next, room |-> call'[h].room]
        BY <2>1
    <2> HIDE DEF next, todo
    <2> QED BY <1>1, <1>3, <2>2, <2>3, <2>4, <2>5, <2>6, <2>7, <2>8 DEF RoomInv, next
<1> QED BY <1>2, <1>3

\* The room a function makes is that of the header its object has.
LEMMA RoomMade ==
    ASSUME FileInv, NEW h \in Headers, RoomInv(h), call = [g \in Headers |-> call[g]],
           \/ \E op \in {"malloc", "mxCreate"} : MakeRoom(h, op, getImageSizePixels(image[h]))
           \/ MakeRoom(h, "mxCreate2D", mxSlicePixels(image[h]))
           \/ MakeRoom(h, "mxCreateRegion", Given)
    PROVE  RoomInv(h)'
<1> DEFINE todo == call[h].todo
           next == call'[h].todo
           room == call'[h].room
           img == image[h]
<1>1. PICK op, pixels :
          /\ MakeRoom(h, op, pixels)
          /\ \/ op \in {"malloc", "mxCreate"} /\ pixels = getImageSizePixels(img)
             \/ op = "mxCreate2D" /\ pixels = mxSlicePixels(img)
             \/ op = "mxCreateRegion" /\ pixels = -1
    BY DEF MakeRoom, Given
<1>2. /\ todo # <<>> /\ Head(todo) = op /\ call[h] # Own /\ UNCHANGED <<image, Nb, busy>>
      /\ \/ call' = [call EXCEPT ![h] = [todo |-> Tail(@.todo), room |-> pixels]]
         \/ call' = [call EXCEPT ![h].todo = <<>>]
    BY <1>1 DEF MakeRoom, Own, vars, headerVars, fileVars
<1>3. todo \in Todos /\ call[h] = [todo |-> todo, room |-> call[h].room] /\ call[h].room \in Int
    BY <1>2 DEF RoomInv
<1>4. todo \notin Last
    BY <1>1, <1>2, <1>3, Lists DEF ReadOps
<1>5. busy[h] = "no" /\ ~Room(h)
    BY <1>2, <1>4 DEF RoomInv, Last
<1>6. image'[h] = img /\ Nb'[h] = Nb[h] /\ busy'[h] = "no"
    BY <1>2, <1>5
<1>7. /\ img \in AnyImage
      /\ img \in Images => /\ Plane[img] \in Nat /\ Planes[img] \in Nat /\ Channels[img] \in Nat \ {0}
                            /\ NumBlocksOf[img] # 0
    BY LibraryCallsAssumption DEF FileInv, HeaderInv, HeaderTypeOK, AnyImage
<1>8. /\ getImageSizePixels(img) \in Int /\ mxSlicePixels(img) \in Int
      /\ img \notin Images => getImageSizePixels(img) = 0 /\ mxSlicePixels(img) = 0
      /\ Channels[img] = 1 => defineSlicePixels(img) = mxSlicePixels(img)
    <2>1. CASE img = NoImage
        BY <2>1 DEF getImageSizePixels, mxSlicePixels, defineSlicePixels
    <2>2. CASE img \in Images
        <3>1. img # NoImage
            BY <2>2, ImageHeaderAssumption
        <3>2. Plane[img] * Planes[img] \in Nat
            BY <1>7, <2>2
        <3>3. Plane[img] * Planes[img] * Channels[img] \in Nat
            BY <1>7, <2>2, <3>2
        <3>4. Channels[img] = 1 => Plane[img] * Channels[img] = Plane[img]
            BY <1>7, <2>2
        <3> QED BY <1>7, <2>2, <3>1, <3>3, <3>4 DEF getImageSizePixels, mxSlicePixels, defineSlicePixels
    <2> QED BY <1>7, <2>1, <2>2 DEF AnyImage
<1>9. /\ getImageSizePixels(image[h])' = getImageSizePixels(img)
      /\ defineSlicePixels(image[h])' = defineSlicePixels(img)
    BY <1>6 DEF getImageSizePixels, defineSlicePixels
<1>10. CASE call' = [call EXCEPT ![h].todo = <<>>]
    <2>1. call'[h] = [todo |-> <<>>, room |-> call[h].room]
        BY <1>3, <1>10
    <2>2. <<>> \in Todos \ ToMakeRoom /\ <<>> \notin {<<"readImage">>, <<"readSlice">>}
        BY DEF Todos, ToMakeRoom
    <2>3. ~Room(h)'
        BY <1>5, <2>1 DEF Room
    <2> QED BY <1>3, <1>6, <2>1, <2>2, <2>3 DEF RoomInv
<1>11. CASE call' = [call EXCEPT ![h] = [todo |-> Tail(@.todo), room |-> pixels]]
    <2>1. call'[h] = [todo |-> Tail(todo), room |-> pixels]
        BY <1>11
    <2>2. next = Tail(todo) /\ room = pixels
        BY <2>1
    <2>3. next \in Todos /\ next \notin ToMakeRoom
        BY <1>1, <1>2, <1>3, <2>2, Lists
    <2>4. pixels \in Int
        BY <1>1, <1>8
    <2>5. op # "mxCreateRegion" => todo \in ToMakeRoom /\ Nb[h] = calculateNumBlocks(img)
        BY <1>1, <1>2, <1>3, Lists DEF RoomInv
    <2>6. pixels > 0 => op # "mxCreateRegion" /\ img \in Images
        BY <1>1, <1>8
    <2>7. pixels > 0 => Nb[h] # 0
        BY <1>7, <2>5, <2>6 DEF calculateNumBlocks
    <2>8. pixels > 0 => \/ next = <<"readImage">> /\ pixels = getImageSizePixels(img)
                        \/ next = <<"readSlice">> /\ pixels = mxSlicePixels(img)
        BY <1>1, <1>2, <1>3, <2>2, <2>6, Lists
    <2>9. <<"readImage">> # <<"readSlice">> /\ <<>> # <<"readImage">> /\ <<>> # <<"readSlice">>
        OBVIOUS
    <2>10. pixels > 0 /\ next = <<"readSlice">> => Channels[img] > 1 \/ defineSlicePixels(img) <= pixels
        BY <1>7, <1>8, <2>4, <2>6, <2>8, <2>9
    <2>11. pixels > 0 /\ next = <<"readImage">> => getImageSizePixels(img) <= pixels
        BY <1>8, <2>4, <2>8, <2>9
    <2>12. Room(h)' <=> pixels > 0
        BY <2>2 DEF Room
    <2>13. call'[h] = [todo |-> next, room |-> room]
        BY <2>1
    <2> HIDE DEF next, room, img
    <2>14. /\ image'[h] = img /\ room = pixels
           /\ getImageSizePixels(image[h])' = getImageSizePixels(img)
           /\ defineSlicePixels(image[h])' = defineSlicePixels(img)
        BY <1>6, <1>9, <2>2 DEF img
    <2> QED BY <1>6, <2>3, <2>4, <2>7, <2>8, <2>10, <2>11, <2>12, <2>13, <2>14 DEF RoomInv, next, room
<1> QED BY <1>2, <1>10, <1>11

-----------------------------------------------------------------------------
RInv == IInv /\ \A h \in Headers : RoomInv(h)

\* Objects of the program, and their copies, leave the others' headers alone.
LEMMA ProgramApart ==
    ASSUME FileInv, NEW h \in Headers
    PROVE  /\ \A name : New(h, name) \/ setFilename(h, name) => Apart(h)
           /\ \A p \in Headers : Copy(h, p) \/ CopyInto(h, p) => Apart(h)
           /\ Delete(h) => Apart(h)
<1>0. image \in [Headers -> AnyImage] /\ Nb \in [Headers -> Lengths]
    BY DEF FileInv, HeaderInv, HeaderTypeOK, AnyImage
<1>1. ASSUME NEW name, New(h, name) \/ setFilename(h, name) PROVE Apart(h)
    BY <1>0, <1>1 DEF New, Construct, setFilename, headerVars, Apart
<1>2. ASSUME NEW p \in Headers, Copy(h, p) PROVE Apart(h)
    BY <1>0, <1>2 DEF Copy, CopyConstruct, fileVars, Apart
<1>3. ASSUME NEW p \in Headers, CopyInto(h, p) PROVE Apart(h)
    BY <1>0, <1>3 DEF CopyInto, Assign, resizeBlockOffset, Apart
<1>4. ASSUME Delete(h) PROVE Apart(h)
    BY <1>0, <1>4 DEF Delete, Destroy, Apart
<1> QED BY <1>1, <1>2, <1>3, <1>4

\* One step per kind of call, as for IInv.
LEMMA RoomStep ==
    ASSUME RInv, [Next]_allVars
    PROVE  RInv'
<1>0. /\ FileInv /\ CallInv /\ FileInv' /\ IInv' /\ call = [h \in Headers |-> call[h]]
      /\ \A h \in Headers : RoomInv(h)
    BY Step DEF RInv, IInv, CallInv
<1>1. ASSUME NEW h \in Headers, NEW name \in Files, NEW function \in Functions, Enter(h, function, name)
      PROVE  \A g \in Headers : RoomInv(g)'
    <2>1. New(h, name) /\ call' = [call EXCEPT ![h] = [todo |-> function, room |-> -1]]
        BY <1>1 DEF Enter, Given
    <2>2. call'[h] = [todo |-> function, room |-> -1] /\ \A g \in Headers \ {h} : call'[g] = call[g]
        BY <1>0, <2>1
    <2>3. busy'[h] = "no"
        BY <1>0, <2>1 DEF New, Construct, FileInv, ObjectInv, DeadIsQuiet
    <2>4. function \in Todos /\ function \notin ToMakeRoom
        BY DEF Todos, ToMakeRoom, Functions, writeKLBstack, writeKLBstackSlices, readKLBheader,
               readKLBstack, readKLBstackInPlace, readKLBroiInPlace, mexWriteStack, mexReadHeader,
               mexReadStack, mexReadSlice, mexReadRoi
    <2>5. RoomInv(h)'
        BY <2>2, <2>3, <2>4 DEF RoomInv, Room
    <2>6. Apart(h)
        BY <1>0, <2>1, ProgramApart
    <2> QED BY <1>0, <2>2, <2>5, <2>6, RoomOfOthers
<1>2. ASSUME NEW h \in Headers, Leave(h)
      PROVE  \A g \in Headers : RoomInv(g)'
    <2>1. Delete(h) /\ call' = [call EXCEPT ![h] = Own]
        BY <1>2 DEF Leave
    <2>2. call'[h] = Own /\ \A g \in Headers \ {h} : call'[g] = call[g]
        BY <1>0, <2>1
    <2>3. RoomInv(h)'
        BY <2>2 DEF RoomInv, Own
    <2>4. Apart(h)
        BY <1>0, <2>1, ProgramApart
    <2> QED BY <1>0, <2>2, <2>3, <2>4, RoomOfOthers
<1>3. ASSUME NEW h \in Headers, call[h] = Own, UNCHANGED call, Apart(h)
      PROVE  \A g \in Headers : RoomInv(g)'
    <2>1. RoomInv(h)'
        BY <1>3 DEF RoomInv, Own
    <2> QED BY <1>0, <1>3, <2>1, RoomOfOthers
<1>4. ASSUME NEW h \in Headers, NEW op, OpsOf(h, op), Called(h, op)
      PROVE  \A g \in Headers : RoomInv(g)'
    <2>1. Apart(h)
        BY <1>0, <1>4, OperatesApart DEF OpsOf, Operates
    <2>2. \A g \in Headers \ {h} : call'[g] = call[g]
        BY <1>0, <1>4 DEF Called
    <2>3. CASE call[h] = Own
        <3>1. UNCHANGED call
            BY <1>4, <2>3 DEF Called
        <3> QED BY <1>0, <2>1, <2>2, <2>3, <3>1, RoomOfOthers DEF RoomInv, Own
    <2>4. CASE call[h] # Own
        <3>1. /\ call[h].todo # <<>> /\ Head(call[h].todo) = op
              /\ call' = IF busy'[h] # "no" THEN call
                         ELSE [call EXCEPT ![h].todo = IF result'[h] = Error THEN <<>> ELSE Tail(@)]
            BY <1>4, <2>4 DEF Called
        <3>2. RoomInv(h)'
            BY <1>0, <1>4, <2>4, <3>1, RoomAfterOperation
        <3> QED BY <1>0, <2>1, <2>2, <3>2, RoomOfOthers
    <2> QED BY <2>3, <2>4
<1>5. ASSUME NEW h \in Headers,
             \/ \E op \in {"malloc", "mxCreate"} : MakeRoom(h, op, getImageSizePixels(image[h]))
             \/ MakeRoom(h, "mxCreate2D", mxSlicePixels(image[h]))
             \/ MakeRoom(h, "mxCreateRegion", Given)
      PROVE  \A g \in Headers : RoomInv(g)'
    <2>1. RoomInv(h)'
        BY <1>0, <1>5, RoomMade
    <2>2. UNCHANGED <<image, Nb, busy>> /\ \A g \in Headers \ {h} : call'[g] = call[g]
        BY <1>0, <1>5 DEF MakeRoom, vars, headerVars, fileVars
    <2>3. Apart(h)
        BY <2>2 DEF Apart
    <2> QED BY <1>0, <2>1, <2>2, <2>3, RoomOfOthers
<1>6. ASSUME Crash, call' = [h \in Headers |-> Own]
      PROVE  \A g \in Headers : RoomInv(g)'
    BY <1>6 DEF RoomInv, Own
<1>7. CASE UNCHANGED allVars
    <2> SUFFICES ASSUME NEW g \in Headers PROVE RoomInv(g)'
        BY <1>0 DEF RInv
    <2>1. /\ image' = image /\ call'[g] = call[g] /\ image'[g] = image[g] /\ Nb'[g] = Nb[g]
          /\ busy'[g] = busy[g]
        BY <1>7 DEF allVars, vars, headerVars, fileVars
    <2>2. /\ calculateNumBlocks(image[g])' = calculateNumBlocks(image[g])
          /\ getImageSizePixels(image[g])' = getImageSizePixels(image[g])
          /\ defineSlicePixels(image[g])' = defineSlicePixels(image[g])
        BY <2>1 DEF calculateNumBlocks, getImageSizePixels, defineSlicePixels
    <2>3. RoomInv(g) /\ Room(g)' = Room(g)
        BY <1>0, <2>1 DEF Room
    <2> QED BY <2>1, <2>2, <2>3 DEF RoomInv
<1>8. CASE Next
    <2>1. ASSUME NEW h \in Headers,
                 \/ \E img \in Images : By(h, "setHeader", SetHeader(h, img))
                 \/ By(h, "readHeader", ReadHeader(h) \/ NoSuchFile(h))
                 \/ \E op \in ReadOps : By(h, op, StartRead(h) \/ NoSuchFile(h) \/ FinishRead(h))
                 \/ By(h, "writeImage", WriteFails(h) \/ StartWrite(h) \/ Flush(h) \/ FinishWrite(h))
          PROVE  \A g \in Headers : RoomInv(g)'
        <3>1. ASSUME NEW img \in Images, By(h, "setHeader", SetHeader(h, img)) PROVE \A g \in Headers : RoomInv(g)'
            <4>1. OpsOf(h, "setHeader") /\ Called(h, "setHeader")
                BY <3>1 DEF By, OpsOf, Called
            <4> QED BY <1>4, <4>1
        <3>2. ASSUME By(h, "readHeader", ReadHeader(h) \/ NoSuchFile(h)) PROVE \A g \in Headers : RoomInv(g)'
            <4>1. OpsOf(h, "readHeader") /\ Called(h, "readHeader")
                BY <3>2 DEF By, OpsOf, Called
            <4> QED BY <1>4, <4>1
        <3>3. ASSUME NEW op \in ReadOps, By(h, op, StartRead(h) \/ NoSuchFile(h) \/ FinishRead(h))
              PROVE  \A g \in Headers : RoomInv(g)'
            <4>1. OpsOf(h, op) /\ Called(h, op)
                BY <3>3 DEF By, OpsOf, Called
            <4> QED BY <1>4, <4>1
        <3>4. ASSUME By(h, "writeImage", WriteFails(h) \/ StartWrite(h) \/ Flush(h) \/ FinishWrite(h))
              PROVE  \A g \in Headers : RoomInv(g)'
            <4>1. OpsOf(h, "writeImage") /\ Called(h, "writeImage")
                BY <3>4 DEF By, OpsOf, Called
            <4> QED BY <1>4, <4>1
        <3> QED BY <2>1, <3>1, <3>2, <3>3, <3>4
    <2>2. ASSUME NEW h \in Headers, NEW name, ByProgram(h, New(h, name) \/ setFilename(h, name))
          PROVE  \A g \in Headers : RoomInv(g)'
        BY <1>0, <1>3, <2>2, ProgramApart DEF ByProgram
    <2>3. ASSUME NEW h \in Headers, NEW p \in Headers, ByProgram(h, Copy(h, p) \/ CopyInto(h, p))
          PROVE  \A g \in Headers : RoomInv(g)'
        BY <1>0, <1>3, <2>3, ProgramApart DEF ByProgram
    <2>4. \A g \in Headers : RoomInv(g)'
        BY <1>1, <1>2, <1>5, <1>6, <1>8, <2>1, <2>2, <2>3 DEF Next
    <2> QED BY <1>0, <2>4 DEF RInv
<1> QED BY <1>0, <1>7, <1>8 DEF RInv

\* RoomInv of an object that is reading.
LEMMA RoomInvIsEnough ==
    ASSUME RInv
    PROVE  RoomSuffices
<1> SUFFICES ASSUME NEW h \in Headers, busy[h] \in {"reading", "torn"}, call[h].room > 0
             PROVE  LET slice == Head(call[h].todo) = "readSlice"
                        img == image[h]
                    IN  \/ slice /\ Channels[img] > 1
                        \/ (IF slice THEN defineSlicePixels(img) ELSE getImageSizePixels(img)) <= call[h].room
    BY DEF RoomSuffices
<1>1. call[h] # Own
    BY DEF Own
<1>2. RoomInv(h) /\ call[h].todo \in Todos
    BY <1>1 DEF RInv, RoomInv
<1>3. call[h].todo \in {<<"readImage">>, <<"readSlice">>}
    BY <1>1, <1>2 DEF RoomInv, Room, Last
<1>4. CASE call[h].todo = <<"readImage">>
    BY <1>1, <1>2, <1>4 DEF RoomInv, Room
<1>5. CASE call[h].todo = <<"readSlice">>
    BY <1>1, <1>2, <1>5 DEF RoomInv, Room
<1> QED BY <1>3, <1>4, <1>5

\* What readKLBstack and Matlab's functions read fits in the room they have made for it.
THEOREM RoomIsEnough == Spec => []RoomSuffices
<1>1. CallsInit => RInv
    BY Initially DEF RInv, RoomInv, CallsInit, Own
<1>2. RInv /\ [Next]_allVars => RInv'
    BY RoomStep
<1>3. RInv => RoomSuffices
    BY RoomInvIsEnough
<1> QED BY <1>1, <1>2, <1>3, PTL DEF Spec

=============================================================================
