---------------------------- MODULE ImageHeader ----------------------------
(***************************************************************************)
(* klb_image_header (src/klb_imageHeader.cpp): an object that describes an *)
(* image and owns, through a bare pointer and a length, the table of the   *)
(* offsets of its blocks.  Headers are constructed, copied, assigned, set, *)
(* read from files and destroyed in any order; the length decides whether  *)
(* there is anything to free.                                              *)
(*                                                                         *)
(* An image stands for the fields xyzct, blockSize and so on; all that is  *)
(* asked of it here is how many blocks it has.  The contents of a table is *)
(* the image whose blocks it finds.  A table of length 0, which new makes  *)
(* too, is Empty: it is never read, nor freed (Nb = 0).                    *)
(*                                                                         *)
(* ImageFile puts these operations together with files.                    *)
(***************************************************************************)
EXTENDS Integers

CONSTANTS Headers,      \* the objects
          Addresses,    \* where tables may be allocated
          Images,       \* the images headers describe
          NumBlocksOf,  \* calculateNumBlocks() of each image
          NoImage,      \* xyzct of a new header: no pixel, no block
          NULL, Empty   \* pointers to nothing, and to an array of length 0

ASSUME ImageHeaderAssumption ==
    /\ NoImage \notin Images
    /\ NumBlocksOf \in [Images \cup {NoImage} -> Nat]
    /\ NumBlocksOf[NoImage] = 0
    /\ NULL \notin Addresses /\ Empty \notin Addresses

VARIABLES alive,        \* constructed and not destroyed
          image,        \* what the fixed fields describe
          Nb,           \* length of blockOffset
          blockOffset,  \* its address, NULL, or Empty
          heap          \* the tables allocated: length and contents

headerVars == <<alive, image, Nb, blockOffset, heap>>

Free == [len |-> 0, table |-> NoImage]      \* nothing is allocated here
Junk == NoImage                             \* a table not written yet

calculateNumBlocks(img) == NumBlocksOf[img]

-----------------------------------------------------------------------------
\* new uint64_t[n]: the pointer, and the heap after it.
Allocate(n, table, mem) ==
    IF n = 0 THEN {[ptr |-> Empty, heap |-> mem]}
    ELSE {[ptr |-> a, heap |-> [mem EXCEPT ![a] = [len |-> n, table |-> table]]] :
            a \in {x \in Addresses : mem[x] = Free}}

\* delete[] of a table the header owns, if its length says so.
Deallocate(h, mem) ==
    IF Nb[h] # 0 THEN [mem EXCEPT ![blockOffset[h]] = Free] ELSE mem

\* What a header's table holds.
TableOf(h) == IF Nb[h] = 0 THEN Junk ELSE heap[blockOffset[h]].table

\* Mutant of resizeBlockOffset: a table that is long enough is kept, with its length.
resizeBlockOffset_OnlyGrows(h, n, table) ==
    IF Nb[h] >= n
    THEN /\ heap' = IF n = 0 THEN heap
                    ELSE [heap EXCEPT ![blockOffset[h]].table = table]
         /\ UNCHANGED <<Nb, blockOffset>>
    ELSE \E new \in Allocate(n, table, Deallocate(h, heap)) :
            /\ heap' = new.heap
            /\ blockOffset' = [blockOffset EXCEPT ![h] = new.ptr]
            /\ Nb' = [Nb EXCEPT ![h] = n]

\* Mutant of resizeBlockOffset: one entry more, to hold both ends of every block.
resizeBlockOffset_OneMore(h, n, table) ==
    \E new \in Allocate(n + 1, table, Deallocate(h, heap)) :
        /\ heap' = new.heap
        /\ blockOffset' = [blockOffset EXCEPT ![h] = new.ptr]
        /\ Nb' = [Nb EXCEPT ![h] = n + 1]

\* Resizes the table if its length changes, then gives it contents.
resizeBlockOffset(h, n, table) ==
    IF Nb[h] = n
    THEN /\ heap' = IF n = 0 THEN heap
                    ELSE [heap EXCEPT ![blockOffset[h]].table = table]
         /\ UNCHANGED <<Nb, blockOffset>>
    ELSE \E new \in Allocate(n, table, Deallocate(h, heap)) :
            /\ heap' = new.heap
            /\ blockOffset' = [blockOffset EXCEPT ![h] = new.ptr]
            /\ Nb' = [Nb EXCEPT ![h] = n]

-----------------------------------------------------------------------------
HeaderInit ==
    /\ alive = [h \in Headers |-> FALSE]
    /\ image = [h \in Headers |-> NoImage]
    /\ Nb = [h \in Headers |-> 0]
    /\ blockOffset = [h \in Headers |-> NULL]
    /\ heap = [a \in Addresses |-> Free]

Construct(h) ==
    /\ ~alive[h]
    /\ alive' = [alive EXCEPT ![h] = TRUE]
    /\ image' = [image EXCEPT ![h] = NoImage]
    /\ Nb' = [Nb EXCEPT ![h] = 0]
    /\ blockOffset' = [blockOffset EXCEPT ![h] = NULL]
    /\ UNCHANGED heap

\* Mutant of CopyConstruct: the pointer is copied, as a compiler would.
CopyConstruct_Shallow(h, p) ==
    /\ ~alive[h] /\ alive[p]
    /\ alive' = [alive EXCEPT ![h] = TRUE]
    /\ image' = [image EXCEPT ![h] = image[p]]
    /\ Nb' = [Nb EXCEPT ![h] = Nb[p]]
    /\ blockOffset' = [blockOffset EXCEPT ![h] = blockOffset[p]]
    /\ UNCHANGED heap

\* Mutant of CopyConstruct: the length of the array is calculated, that of the table
\* copied is not asked.
CopyConstruct_CalculatedSize(h, p) ==
    /\ ~alive[h] /\ alive[p]
    /\ alive' = [alive EXCEPT ![h] = TRUE]
    /\ image' = [image EXCEPT ![h] = image[p]]
    /\ Nb' = [Nb EXCEPT ![h] = Nb[p]]
    /\ \E new \in Allocate(calculateNumBlocks(image[p]), TableOf(p), heap) :
          /\ heap' = new.heap
          /\ blockOffset' = [blockOffset EXCEPT ![h] = new.ptr]

\* A table of its own, also for a header that has none.
CopyConstruct(h, p) ==
    /\ ~alive[h] /\ alive[p]
    /\ alive' = [alive EXCEPT ![h] = TRUE]
    /\ image' = [image EXCEPT ![h] = image[p]]
    /\ Nb' = [Nb EXCEPT ![h] = Nb[p]]
    /\ \E new \in Allocate(Nb[p], TableOf(p), heap) :
          /\ heap' = new.heap
          /\ blockOffset' = [blockOffset EXCEPT ![h] = new.ptr]

\* operator=; an assignment to itself changes nothing.
Assign(h, p) ==
    /\ alive[h] /\ alive[p] /\ h # p
    /\ image' = [image EXCEPT ![h] = image[p]]
    /\ resizeBlockOffset(h, Nb[p], TableOf(p))
    /\ UNCHANGED alive

\* Only the fixed fields: the table stays that of another image.
setHeader(h, img) ==
    /\ alive[h]
    /\ image' = [image EXCEPT ![h] = img]
    /\ UNCHANGED <<alive, Nb, blockOffset, heap>>

\* readHeader of a file that holds img: its fixed fields, then the table.  Of a
\* file that ends before the table is through, or before all this, the stream
\* leaves what it cannot read as it was; nobody asks it.
readHeader(h, img) ==
    /\ alive[h]
    /\ image' = [image EXCEPT ![h] = img]
    /\ resizeBlockOffset(h, calculateNumBlocks(img), img)
    /\ UNCHANGED alive

readHeaderShort(h, img) ==
    /\ alive[h]
    /\ image' = [image EXCEPT ![h] = img]
    /\ resizeBlockOffset(h, calculateNumBlocks(img), Junk)
    /\ UNCHANGED alive

\* Mutant of resizeOnly: the table that is there is taken to be long enough.
resizeOnly_NotAgain(h) ==
    IF Nb[h] # 0 THEN UNCHANGED headerVars
    ELSE /\ resizeBlockOffset(h, calculateNumBlocks(image[h]), Junk)
         /\ UNCHANGED <<alive, image>>

\* The table as it was, if it has the length the fixed fields ask for already.
resizeOnly(h) ==
    /\ resizeBlockOffset(h, calculateNumBlocks(image[h]),
                         IF Nb[h] = calculateNumBlocks(image[h]) THEN TableOf(h) ELSE Junk)
    /\ UNCHANGED <<alive, image>>

readHeaderOfEmptyFile(h) == alive[h] /\ resizeOnly(h)

\* writeImage resizes the table to what the image needs, and blockWriter fills it in.
fillTable(h) ==
    /\ Nb[h] # 0
    /\ heap' = [heap EXCEPT ![blockOffset[h]].table = image[h]]
    /\ UNCHANGED <<alive, image, Nb, blockOffset>>

\* Nothing is left of an object that is destroyed.
Destroy(h) ==
    /\ alive[h]
    /\ alive' = [alive EXCEPT ![h] = FALSE]
    /\ heap' = Deallocate(h, heap)
    /\ image' = [image EXCEPT ![h] = NoImage]
    /\ Nb' = [Nb EXCEPT ![h] = 0]
    /\ blockOffset' = [blockOffset EXCEPT ![h] = NULL]

\* The program ends: nothing is alive or allocated.
LoseMemory ==
    /\ alive' = [h \in Headers |-> FALSE]
    /\ image' = [h \in Headers |-> NoImage]
    /\ Nb' = [h \in Headers |-> 0]
    /\ blockOffset' = [h \in Headers |-> NULL]
    /\ heap' = [a \in Addresses |-> Free]

-----------------------------------------------------------------------------
Lengths == {NumBlocksOf[img] : img \in Images \cup {NoImage}}
Owners == {h \in Headers : alive[h] /\ Nb[h] # 0}

HeaderTypeOK ==
    /\ alive \in [Headers -> BOOLEAN]
    /\ image \in [Headers -> Images \cup {NoImage}]
    /\ Nb \in [Headers -> Lengths]
    /\ blockOffset \in [Headers -> Addresses \cup {NULL, Empty}]
    /\ heap \in [Addresses -> [len : Lengths, table : Images \cup {NoImage}]]

\* A header that says it has entries has that many: no operation leaves Nb and
\* the array apart, so getBlockOffset and memcpy stay inside it
\* (klb_imageHeader.cpp:44, :53, :246).
LengthIsRight ==
    \A h \in Owners :
        blockOffset[h] \in Addresses /\ heap[blockOffset[h]].len = Nb[h]

\* Every table has exactly one owner, whoever was copied from whom: nothing is freed
\* twice or while another header uses it, and resizing, assigning and destroying
\* lose nothing (klb_imageHeader.cpp:71, :201).
OwnedOnce ==
    \A a \in Addresses :
        LET owners == {h \in Owners : blockOffset[h] = a}
        IN  /\ heap[a] = Free => owners = {}
            /\ heap[a] # Free => \E h \in Headers : owners = {h}
=============================================================================
