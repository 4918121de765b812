---------------------------- MODULE PasteBlocks ----------------------------
(***************************************************************************)
(* How blockUncompressor and blockUncompressorImageFull put the blocks of  *)
(* a file into the caller's buffer (src/klb_imageIO.cpp:528-721,           *)
(* :953-1100): the first only the part of a block that lies in a region of *)
(* interest, the second all of it.                                         *)
(*                                                                         *)
(* One thread takes all the blocks.  Several share the counter and the     *)
(* buffer only: a block goes to one of them, and ImplementsFill says that  *)
(* what is written for one block never meets what is written for another.  *)
(* A pixel of the image is the number of its place, as in CutBlocks, whose *)
(* blocks are read here (RoundTrip).                                       *)
(***************************************************************************)
EXTENDS BlockGeometry

VARIABLES xyzct, blockSize,     \* the header of the file,
          blocks,               \* and the pixels of its blocks, which others write
          ROI,                  \* the region
          full,                 \* TRUE: readImageFull, FALSE: readImage
          pc,
          blockId,              \* the next block
          bcount, auxDim,       \* the odometer
          offsetBuffer,         \* where the row goes to in bufferOut
          offsetBufferBlock,    \* where it is in the block, for carries,
          bufferInAux,          \* and where memcpy reads it
          bufferIn,             \* the decompressed block
          bufferOut             \* the caller's buffer

callVars == <<xyzct, blockSize, blocks, ROI, full>>
loopVars == <<bcount, auxDim, offsetBuffer, offsetBufferBlock, bufferInAux>>
vars == <<callVars, pc, blockId, loopVars, bufferIn, bufferOut>>

-----------------------------------------------------------------------------
Junk == -1
Origin == [ii \in Dims |-> 0]
NumBlocks == calculateNumBlocks(xyzct, blockSize)
OutSize == getSizePixels(ROI)
xyzctCum == Cum(OutSize)

\* The block being pasted, its size, and its intersection with the region.
coord == coordBlock(blockId - 1, xyzct, blockSize)
size == blockSizeAux(coord, xyzct, blockSize)
blockSizeAuxCum == Cum(size)
bLB == [ii \in Dims |-> LowerBound(coord[ii], ROI.LB[ii])]
bUB == [ii \in Dims |-> UpperBound(coord[ii], size[ii], ROI.UB[ii])]
copySize == [ii \in Dims |-> bUB[ii] - bLB[ii]]

\* readImageFull tests nothing: every block is in the image.
intersect ==
    full \/ \A ii \in Dims :
               Intersects(coord[ii], blockSize[ii], ROI.LB[ii], ROI.UB[ii])

\* What the compression library makes of the bytes of a block: the pixels it was
\* given when the file was written.
BlockPixel(k) == blocks[blockId - 1][k + 1]

Init ==
    /\ full \in BOOLEAN
    /\ ROI \in IF full THEN {defineFullImage(xyzct)} ELSE Regions(xyzct)
    /\ pc = "claim"
    /\ blockId = 0
    /\ bcount = Origin
    /\ auxDim = 1
    /\ offsetBuffer = 0
    /\ offsetBufferBlock = 0
    /\ bufferInAux = 0
    /\ bufferIn = [k \in 0 .. Volume(blockSize) - 1 |-> Junk]
    /\ bufferOut = [k \in 0 .. Volume(OutSize) - 1 |-> Junk]

ClaimBlock ==
    /\ pc = "claim"
    /\ IF blockId < NumBlocks
       THEN blockId' = blockId + 1 /\ pc' = "intersect"
       ELSE blockId' = blockId /\ pc' = "done"
    /\ UNCHANGED <<callVars, loopVars, bufferIn, bufferOut>>

SkipBlock ==
    /\ pc = "intersect"
    /\ ~intersect
    /\ pc' = "claim"
    /\ UNCHANGED <<callVars, blockId, loopVars, bufferIn, bufferOut>>

\* Decompresses the block, behind which bufferIn keeps what it held, and sets the
\* counters to the first row of the intersection.
Uncompress ==
    /\ pc = "intersect"
    /\ intersect
    /\ bufferIn' = [k \in DOMAIN bufferIn |->
                        IF k < Volume(size) THEN BlockPixel(k) ELSE bufferIn[k]]
    /\ bcount' = bLB
    /\ auxDim' = 1
    /\ offsetBuffer' = Offset([ii \in Dims |-> coord[ii] + bLB[ii] - ROI.LB[ii]], xyzctCum)
    /\ offsetBufferBlock' = Offset(bLB, blockSizeAuxCum)
    /\ bufferInAux' = offsetBufferBlock'
    /\ pc' = "row"
    /\ UNCHANGED <<callVars, blockId, bufferOut>>

\* memcpy of a row, and the step of the second dimension.
CopyRow ==
    /\ pc = "row"
    /\ bufferOut' = [k \in DOMAIN bufferOut |->
                        IF k \in offsetBuffer .. offsetBuffer + copySize[0] - 1
                        THEN bufferIn[bufferInAux + (k - offsetBuffer)]
                        ELSE bufferOut[k]]
    /\ bufferInAux' = bufferInAux + size[0]
    /\ bcount' = [bcount EXCEPT ![1] = @ + 1]
    /\ offsetBuffer' = offsetBuffer + xyzctCum[1]
    /\ offsetBufferBlock' = offsetBufferBlock + blockSizeAuxCum[1]
    /\ auxDim' = 1
    /\ pc' = "carry"
    /\ UNCHANGED <<callVars, blockId, bufferIn>>

\* Mutant of Carry: bufferInAux goes on to the next row of the block, as if the
\* intersection were the whole block.
Carry_ConstantIncrement ==
    /\ pc = "carry"
    /\ bcount[auxDim] = bUB[auxDim]
    /\ auxDim' = auxDim + 1
    /\ LET out == offsetBuffer - copySize[auxDim] * xyzctCum[auxDim]
           in  == offsetBufferBlock - copySize[auxDim] * blockSizeAuxCum[auxDim]
       IN  IF auxDim' = DataDims
           THEN /\ bcount' = [bcount EXCEPT ![auxDim] = bLB[auxDim]]
                /\ offsetBuffer' = out
                /\ offsetBufferBlock' = in
                /\ pc' = "claim"
           ELSE /\ bcount' = [bcount EXCEPT ![auxDim] = bLB[auxDim], ![auxDim'] = @ + 1]
                /\ offsetBuffer' = out + xyzctCum[auxDim']
                /\ offsetBufferBlock' = in + blockSizeAuxCum[auxDim']
                /\ pc' = "carry"
    /\ UNCHANGED <<callVars, blockId, bufferInAux, bufferIn, bufferOut>>

\* A dimension of the intersection is through: back to its start in both buffers,
\* and a step of the next dimension.  Only a region makes bufferInAux jump.
Carry ==
    /\ pc = "carry"
    /\ bcount[auxDim] = bUB[auxDim]
    /\ auxDim' = auxDim + 1
    /\ LET out == offsetBuffer - copySize[auxDim] * xyzctCum[auxDim]
           in  == offsetBufferBlock - copySize[auxDim] * blockSizeAuxCum[auxDim]
       IN  IF auxDim' = DataDims
           THEN /\ bcount' = [bcount EXCEPT ![auxDim] = bLB[auxDim]]
                /\ offsetBuffer' = out
                /\ offsetBufferBlock' = in
                /\ bufferInAux' = bufferInAux
                /\ pc' = "claim"
           ELSE /\ bcount' = [bcount EXCEPT ![auxDim] = bLB[auxDim], ![auxDim'] = @ + 1]
                /\ offsetBuffer' = out + xyzctCum[auxDim']
                /\ offsetBufferBlock' = in + blockSizeAuxCum[auxDim']
                /\ bufferInAux' = IF full THEN bufferInAux ELSE offsetBufferBlock'
                /\ pc' = "carry"
    /\ UNCHANGED <<callVars, blockId, bufferIn, bufferOut>>

NoCarry ==
    /\ pc = "carry"
    /\ bcount[auxDim] # bUB[auxDim]
    /\ pc' = "row"
    /\ UNCHANGED <<callVars, blockId, loopVars, bufferIn, bufferOut>>

Done == pc = "done" /\ UNCHANGED vars

Next == ClaimBlock \/ SkipBlock \/ Uncompress \/ CopyRow \/ Carry \/ NoCarry \/ Done

Spec == Init /\ [][Next]_vars

-----------------------------------------------------------------------------
\* Every row memcpy copies has at least one pixel, lies inside the decompressed
\* block, not in what an earlier block left behind it, and inside the caller's
\* buffer: the intersection test, its bounds and the three moving offsets agree
\* (klb_imageIO.cpp:698).
RowsInBounds ==
    pc = "row" =>
        /\ \A ii \in Dims : copySize[ii] > 0
        /\ bufferInAux + copySize[0] <= Volume(size)
        /\ offsetBuffer + copySize[0] <= Volume(OutSize)

InImage(p) == \A ii \in Dims : p[ii] < xyzct[ii]

\* The pixel that belongs at each place of the caller's buffer: the voxels of the
\* region in the order of their places in it, and none behind the image.
Wanted == [k \in 0 .. Volume(OutSize) - 1 |->
              LET p == VoxelAt(k, ROI.LB, OutSize)
              IN  IF InImage(p) THEN Place(p, Origin, xyzct) ELSE Junk]

\* Every row puts the right pixels in the right place, and no place is written
\* twice: that is why threads share bufferOut without a lock (klb_imageIO.cpp:698,
\* :1082).
Filling == INSTANCE RegionFill WITH want <- Wanted, out <- bufferOut
ImplementsFill == Filling!Spec
=============================================================================
