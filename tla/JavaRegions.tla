---------------------------- MODULE JavaRegions ----------------------------
(***************************************************************************)
(* How KLB.java reads an image, or a region of it, into an image of        *)
(* ImgLib2: dimensions of length 1 are squeezed out; a Java array holds at *)
(* most MaxValue pixels, and an image with more is cut into cells, each    *)
(* with an array of its own and read by a call of its own.                 *)
(*                                                                         *)
(* The calls are readROI, of which readFull is the one for the region that *)
(* is the whole image, and readROIinPlace with an ArrayImg of the caller's,*)
(* checked.  What such a read does is the native library's business.       *)
(***************************************************************************)
EXTENDS Products

CONSTANTS ImageSizes,   \* imageSize of a header
          Regions(_),   \* regions of an image of this size
          MaxValue,     \* Integer.MAX_VALUE
          Types,        \* types of pixels,
          BytesOf,      \* their sizes
          InPlaceSizes, \* numbers of pixels of the images of callers
          Kinds         \* of the calls: "new", "inPlace"

Dims == 0 .. 4

ASSUME JavaRegionsAssumption ==
    /\ ImageSizes \subseteq [Dims -> Nat \ {0}]
    /\ \A n \in ImageSizes : \A R \in Regions(n) :
          \A d \in Dims : R.min[d] \in Nat /\ R.max[d] \in Nat
    /\ \A n \in ImageSizes : \A R \in Regions(n) :
          \A d \in Dims : R.min[d] <= R.max[d] /\ R.max[d] < n[d]
    \* What ImgLib2 makes of an image without dimensions is not modelled.
    /\ \A n \in ImageSizes : \A R \in Regions(n) : \E d \in Dims : R.min[d] < R.max[d]
    /\ MaxValue \in Nat \ {0}
    /\ BytesOf \in [Types -> Nat \ {0}]
    /\ InPlaceSizes \subseteq Nat \ {0}
    /\ Kinds \subseteq {"new", "inPlace"}

VARIABLES imageSize, dataType,  \* the header of the file
          kind, region,         \* the call
          outType, outSize,     \* the image it fills
          pc,
          partitionDim,         \* the dimension that is cut
          cellSize,
          todo,                 \* the cells not read yet
          reads                 \* the reads made

callVars == <<imageSize, dataType, kind, region, outType, outSize>>
vars == <<callVars, pc, partitionDim, cellSize, todo, reads>>

-----------------------------------------------------------------------------
CeilDiv(a, b) == (a + b - 1) \div b
Size(R) == [d \in Dims |-> 1 + R.max[d] - R.min[d]]

\* The dimensions below d that are longer than 1.
KeptBelow(size, d) ==
    LET kept[e \in 0 .. 5] ==
            IF e = 0 THEN <<>>
            ELSE IF size[e - 1] > 1 THEN Append(kept[e - 1], e - 1)
            ELSE kept[e - 1]
    IN  kept[d]
Kept(size) == KeptBelow(size, 5)

\* getSqueezedImageAndBlockSize: the lengths of the dimensions that are kept.
squeezed == [i \in 1 .. Len(Kept(Size(region))) |-> Size(region)[Kept(Size(region))[i]]]

numPartitions == CeilDiv(ProductOf(squeezed), MaxValue)

Init ==
    /\ imageSize \in ImageSizes
    /\ dataType \in Types
    /\ kind \in Kinds
    /\ region \in Regions(imageSize)
    /\ IF kind = "new"
       THEN outType = dataType /\ outSize = ProductOf(squeezed)
       ELSE outType \in Types /\ outSize \in InPlaceSizes
    /\ pc = "call"
    /\ partitionDim = 0
    /\ cellSize = <<>>
    /\ todo = {}
    /\ reads = {}

\* A cell: where it starts in the image, and its size there.
OneArray == [offset |-> [i \in 1 .. Len(squeezed) |-> 0], size |-> squeezed]

\* getOptimalCellSize: one array is enough.
UseArray ==
    /\ pc = "call"
    /\ kind = "new"
    /\ numPartitions <= 1
    /\ todo' = {OneArray}
    /\ pc' = "read"
    /\ UNCHANGED <<callVars, partitionDim, cellSize, reads>>

UseCells ==
    /\ pc = "call"
    /\ kind = "new"
    /\ numPartitions > 1
    /\ partitionDim' = Len(squeezed)
    /\ pc' = "partition"
    /\ UNCHANGED <<callVars, cellSize, todo, reads>>

\* readROIinPlace: the check that the image fits, and the read.
mismatch == ProductOf(squeezed) > outSize \/ outType = dataType

Mismatch ==
    /\ pc = "call"
    /\ kind = "inPlace"
    /\ mismatch
    /\ pc' = "IOException"
    /\ UNCHANGED <<callVars, partitionDim, cellSize, todo, reads>>

FillInPlace ==
    /\ pc = "call"
    /\ kind = "inPlace"
    /\ ~mismatch
    /\ todo' = {OneArray}
    /\ pc' = "read"
    /\ UNCHANGED <<callVars, partitionDim, cellSize, reads>>

\* The last dimension that is long enough is cut; there may be none.
SkipDim ==
    /\ pc = "partition"
    /\ partitionDim > 0
    /\ squeezed[partitionDim] < numPartitions
    /\ partitionDim' = partitionDim - 1
    /\ UNCHANGED <<callVars, pc, cellSize, todo, reads>>

NoDim ==
    /\ pc = "partition"
    /\ partitionDim = 0
    /\ pc' = "IndexOutOfBounds"
    /\ UNCHANGED <<callVars, partitionDim, cellSize, todo, reads>>

\* Mutant of CutDim: the last dimension is cut, however short it is.
CutDim_AnyLength ==
    /\ pc = "partition"
    /\ partitionDim > 0
    /\ cellSize' = [squeezed EXCEPT ![partitionDim] = CeilDiv(@, numPartitions)]
    /\ pc' = "shrink"
    /\ UNCHANGED <<callVars, partitionDim, todo, reads>>

CutDim ==
    /\ pc = "partition"
    /\ partitionDim > 0
    /\ squeezed[partitionDim] >= numPartitions
    /\ cellSize' = [squeezed EXCEPT ![partitionDim] = CeilDiv(@, numPartitions)]
    /\ pc' = "shrink"
    /\ UNCHANGED <<callVars, partitionDim, todo, reads>>

\* As long as a cell does not fit into an array it is made shorter.
Shrink ==
    /\ pc = "shrink"
    /\ ProductOf(cellSize) > MaxValue
    /\ cellSize' = [cellSize EXCEPT ![partitionDim] = @ - 1]
    /\ UNCHANGED <<callVars, pc, partitionDim, todo, reads>>

\* CellImgFactory: cells from one end to the other, the last of them smaller.
CellAt(o) ==
    [offset |-> o,
     size   |-> [i \in DOMAIN squeezed |-> IF cellSize[i] < squeezed[i] - o[i]
                                           THEN cellSize[i] ELSE squeezed[i] - o[i]]]
Offsets ==
    {o \in [DOMAIN squeezed -> UNION {0 .. squeezed[i] - 1 : i \in DOMAIN squeezed}] :
        \A i \in DOMAIN squeezed : o[i] < squeezed[i] /\ o[i] % cellSize[i] = 0}
Cells == {CellAt(o) : o \in Offsets}

CreateCells ==
    /\ pc = "shrink"
    /\ ProductOf(cellSize) <= MaxValue
    /\ todo' = Cells
    /\ pc' = "read"
    /\ UNCHANGED <<callVars, partitionDim, cellSize, reads>>

-----------------------------------------------------------------------------
\* The counter i of the loop that maps the dimensions of the file to those of the
\* cell, when it comes to d.  It moves on where the image is longer than 1.
counter(d) == Len(KeptBelow(imageSize, d)) + 1
mapped == \A d \in Dims : imageSize[d] # 1 => counter(d) <= Len(squeezed)

\* Mutants of CellRegion: the cells of a region are read as if it were the image;
\* and its upper bound is taken for excluded.
CellRegion_NoRegion(c) ==
    LET min == [d \in Dims |-> IF imageSize[d] = 1 THEN 0 ELSE c.offset[counter(d)]]
    IN  [min |-> min,
         max |-> [d \in Dims |-> IF imageSize[d] = 1 THEN 0
                                 ELSE min[d] + c.size[counter(d)] - 1]]
CellRegion_Excluded(c) ==
    LET min == [d \in Dims |-> IF imageSize[d] = 1 THEN 0
                               ELSE region.min[d] + c.offset[counter(d)]]
    IN  [min |-> min,
         max |-> [d \in Dims |-> IF imageSize[d] = 1 THEN 0
                                 ELSE min[d] + c.size[counter(d)]]]

\* klbMin and klbMax of a cell.
CellRegion(c) ==
    LET min == [d \in Dims |-> IF imageSize[d] = 1 THEN 0
                               ELSE region.min[d] + c.offset[counter(d)]]
    IN  [min |-> min,
         max |-> [d \in Dims |-> IF imageSize[d] = 1 THEN 0
                                 ELSE min[d] + c.size[counter(d)] - 1]]

\* A read of a region into an array of length pixels.
Read(R, c, length) ==
    [min |-> R.min, max |-> R.max, offset |-> c.offset, length |-> length]

ReadArray ==
    /\ pc = "read"
    /\ cellSize = <<>>
    /\ \E c \in todo :
          /\ reads' = reads \cup {Read(region, c, outSize)}
          /\ todo' = todo \ {c}
    /\ UNCHANGED <<callVars, pc, partitionDim, cellSize>>

ReadCell ==
    /\ pc = "read"
    /\ cellSize # <<>>
    /\ mapped
    /\ \E c \in todo :
          /\ reads' = reads \cup {Read(CellRegion(c), c, ProductOf(c.size))}
          /\ todo' = todo \ {c}
    /\ UNCHANGED <<callVars, pc, partitionDim, cellSize>>

CellUnmapped ==
    /\ pc = "read"
    /\ cellSize # <<>>
    /\ ~mapped
    /\ pc' = "IndexOutOfBounds"
    /\ UNCHANGED <<callVars, partitionDim, cellSize, todo, reads>>

\* The native function reports an error.
ReadFails ==
    /\ pc = "read"
    /\ todo # {}
    /\ cellSize # <<>> => mapped
    /\ pc' = "IOException"
    /\ UNCHANGED <<callVars, partitionDim, cellSize, todo, reads>>

\* imgToImgPlus gives a name to each dimension the image has in the file.
Wrap ==
    /\ pc = "read"
    /\ todo = {}
    /\ pc' = IF kind = "new" /\ Len(Kept(imageSize)) > Len(squeezed)
             THEN "IndexOutOfBounds" ELSE "returned"
    /\ UNCHANGED <<callVars, partitionDim, cellSize, todo, reads>>

Done ==
    /\ pc \in {"returned", "IOException", "IndexOutOfBounds"}
    /\ UNCHANGED vars

Next ==
    \/ UseArray \/ UseCells \/ Mismatch \/ FillInPlace
    \/ SkipDim \/ NoDim \/ CutDim \/ Shrink \/ CreateCells
    \/ ReadArray \/ ReadCell \/ CellUnmapped \/ ReadFails \/ Wrap \/ Done

Spec == Init /\ [][Next]_vars

-----------------------------------------------------------------------------
Cell == [offset : Seq(Nat), size : Seq(Nat \ {0})]

\* In particular: what is cut off a cell to make it fit leaves something of it.
TypeOK ==
    /\ imageSize \in ImageSizes
    /\ dataType \in Types /\ outType \in Types
    /\ kind \in Kinds
    /\ region \in Regions(imageSize)
    /\ outSize \in Nat \ {0}
    /\ pc \in {"call", "partition", "shrink", "read",
               "returned", "IOException", "IndexOutOfBounds"}
    /\ partitionDim \in 0 .. Len(squeezed)
    /\ cellSize \in Seq(Nat \ {0})
    /\ todo \subseteq Cell
    /\ \A r \in reads : r.length \in 1 .. MaxValue \/ r.length = outSize

Fits(r) ==
    ProductOf([i \in 1 .. 5 |-> Size(r)[i - 1]]) * BytesOf[dataType]
        <= r.length * BytesOf[outType]

\* Into an image it makes itself, no read writes more than the array it is given
\* holds, however the image is cut into cells: the native library takes a pointer
\* and never learns the length (KLBJNI.cpp:203, klb_imageIO.cpp:698).
ReadsFit == kind = "new" => \A r \in reads : Fits(r)

\* The same of the image of a caller: if it is too small, or of another type, the
\* caller is told of a "Size/type mismatch!" (KLB.java:366) before anything is read.
InPlaceReadsFit == kind = "inPlace" => \A r \in reads : Fits(r)

\* The size of the image along its longest dimension.
longest == CHOOSE n \in {imageSize[d] : d \in Dims} : \A d \in Dims : imageSize[d] <= n

\* When the call returns, every pixel of the region was read once, into the cell
\* where ImgLib2 looks for it: squeezing dimensions out and putting them back, and
\* cutting cells and placing them in the file, undo each other.
ReadsTileRegion ==
    pc = "returned" =>
        \A p \in [Dims -> 0 .. longest - 1] :
            (\A d \in Dims : region.min[d] <= p[d] /\ p[d] <= region.max[d]) =>
                \E r \in reads :
                    /\ \A s \in reads :
                          (\A d \in Dims : s.min[d] <= p[d] /\ p[d] <= s.max[d]) <=> s = r
                    /\ \A i \in 1 .. Len(squeezed) :
                          LET d == Kept(Size(region))[i]
                          IN  r.offset[i] = r.min[d] - region.min[d]

\* readROI returns the "subvolume, as ArrayImg or CellImg, as appropriate"
\* (KLB.java:464): an index of its own that is out of bounds is not what it says.
RegionIsReturned == pc # "IndexOutOfBounds"
=============================================================================
