--------------------------- MODULE BlockGeometry ---------------------------
(***************************************************************************)
(* How klb_imageIO divides an image into blocks and addresses pixels       *)
(* (src/klb_imageIO.cpp).  Sizes, coordinates and regions are functions on *)
(* the dimensions; offsets count pixels where the code counts bytes (every *)
(* stride of the code has the factor bytesPerPixel).                       *)
(*                                                                         *)
(* The operators above the line are the code's arithmetic, those below are *)
(* what it is meant to compute, said with sets of voxels.                  *)
(***************************************************************************)
EXTENDS Integers

CONSTANTS DataDims,     \* KLB_DATA_DIMS (5), or dataDims (3) for stack slices
          ImageSizes,   \* values of header.xyzct
          BlockSizes,   \* values of header.blockSize a caller may set
          Regions(_)    \* regions asked for, of an image of this size

Dims == 0 .. DataDims - 1

ASSUME BlockGeometryAssumption ==
    /\ DataDims \in Nat \ {0, 1}
    /\ ImageSizes \subseteq [Dims -> Nat \ {0}]
    /\ BlockSizes \subseteq [Dims -> Nat \ {0}]
    \* The region begins in the image, and may end behind it: nothing in the code
    \* checks either.
    /\ \A n \in ImageSizes : \A R \in Regions(n) : \A ii \in Dims :
          /\ R.LB[ii] \in 0 .. n[ii] - 1
          /\ R.UB[ii] \in Nat
          /\ R.LB[ii] <= R.UB[ii]

\* xyzctCum and blockSizeAuxCum: the stride of each dimension of a box.
Cum(size) ==
    LET c[ii \in Dims] == IF ii = 0 THEN 1 ELSE c[ii - 1] * size[ii - 1] IN c

\* The loops that sum up coordinate times stride, and multiply sizes.
Offset(coord, cum) ==
    LET sum[ii \in Dims] == coord[ii] * cum[ii] + (IF ii = 0 THEN 0 ELSE sum[ii - 1])
    IN  sum[DataDims - 1]
Volume(size) == Cum(size)[DataDims - 1] * size[DataDims - 1]

\* Number of blocks in each dimension, and of the image.
dimsBlock(xyzct, blockSize) ==
    [ii \in Dims |-> (xyzct[ii] + blockSize[ii] - 1) \div blockSize[ii]]
calculateNumBlocks(xyzct, blockSize) == Volume(dimsBlock(xyzct, blockSize))

\* coordBlock: the first voxel of block b; blockIdx_aux[ii] is what is left of
\* the id when dimension ii is reached.
coordBlock(b, xyzct, blockSize) ==
    LET dims == dimsBlock(xyzct, blockSize)
        blockIdx_aux[ii \in Dims] ==
            IF ii = 0 THEN b ELSE blockIdx_aux[ii - 1] \div dims[ii - 1]
    IN  [ii \in Dims |-> (blockIdx_aux[ii] % dims[ii]) * blockSize[ii]]

\* Mutant of blockSizeAux: the border is forgotten.
blockSizeAux_NoBorder(coord, xyzct, blockSize) == blockSize

\* blockSizeAux: the size of the block at coord, smaller at the border.
blockSizeAux(coord, xyzct, blockSize) ==
    [ii \in Dims |-> IF blockSize[ii] < xyzct[ii] - coord[ii]
                     THEN blockSize[ii] ELSE xyzct[ii] - coord[ii]]

\* klb_ROI: a region of interest, its upper bound included.
defineFullImage(xyzct) ==
    [LB |-> [ii \in Dims |-> 0], UB |-> [ii \in Dims |-> xyzct[ii] - 1]]
defineSlice(val, dim, xyzct) ==
    [LB |-> [defineFullImage(xyzct).LB EXCEPT ![dim] = val],
     UB |-> [defineFullImage(xyzct).UB EXCEPT ![dim] = val]]
getSizePixels(ROI) == [ii \in Dims |-> ROI.UB[ii] - ROI.LB[ii] + 1]

\* Mutant of Intersects: the bounds are compared as if they were excluded.
Intersects_Strict(c, n, lb, ub) == c < ub /\ c + n - 1 > lb

\* In one dimension: does a block that starts at c meet [lb, ub]?  It is taken
\* for one of full size n, at the border too.
Intersects(c, n, lb, ub) == c <= ub /\ c + n - 1 >= lb

\* bLB and bUB: the intersection, counted from the start of a block of size s.
LowerBound(c, lb) == IF c >= lb THEN 0 ELSE lb - c
UpperBound(c, s, ub) == IF c + s - 1 <= ub THEN s ELSE ub - c + 1

-----------------------------------------------------------------------------
\* The voxels from lb up to ub, included.
Box(lb, ub) ==
    LET top == CHOOSE m \in {ub[ii] : ii \in Dims} : \A ii \in Dims : ub[ii] <= m
    IN  {p \in [Dims -> 0 .. top] : \A ii \in Dims : lb[ii] <= p[ii] /\ p[ii] <= ub[ii]}

\* A voxel belongs to the block its coordinates divide to, each dimension of its
\* own, and blocks are numbered as voxels are.
BlockOf(p, xyzct, blockSize) ==
    Offset([ii \in Dims |-> p[ii] \div blockSize[ii]], Cum(dimsBlock(xyzct, blockSize)))

FirstVoxel(p, blockSize) == [ii \in Dims |-> (p[ii] \div blockSize[ii]) * blockSize[ii]]

\* A voxel's place in an image (or block, or region) that starts at lb.
Place(p, lb, size) == Offset([ii \in Dims |-> p[ii] - lb[ii]], Cum(size))

\* The voxel that has place k.
VoxelAt(k, lb, size) == [ii \in Dims |-> lb[ii] + ((k \div Cum(size)[ii]) % size[ii])]
=============================================================================
