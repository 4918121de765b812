----------------------------- MODULE RoundTrip -----------------------------
(***************************************************************************)
(* An image is cut into blocks (CutBlocks), and when the file is complete  *)
(* it is read, or a region of it (PasteBlocks): what arrives is what was   *)
(* written.  Writer and reader compute where a voxel is stored in ways of  *)
(* their own, and share nothing but the header and the blocks.             *)
(***************************************************************************)
EXTENDS BlockGeometry

CONSTANT SliceModes     \* TRUE: the image comes as slices, FALSE: as one buffer

ASSUME RoundTripAssumption ==
    /\ SliceModes \subseteq BOOLEAN
    /\ TRUE \in SliceModes => DataDims = 3

VARIABLES xyzct, blockSize, slices, cutPc, cutBlockId, cutBcount, cutAuxDim,
          cutOffsetBuffer, cutBufferInAux, cutBufferIn,         \* the writer
          compressed,                                           \* the file
          ROI, full, pc, blockId, bcount, auxDim, offsetBuffer,
          offsetBufferBlock, bufferInAux, bufferIn, bufferOut   \* the reader

Cut == INSTANCE CutBlocks WITH
    pc <- cutPc, blockId <- cutBlockId, bcount <- cutBcount, auxDim <- cutAuxDim,
    offsetBuffer <- cutOffsetBuffer, bufferInAux <- cutBufferInAux, bufferIn <- cutBufferIn

Paste == INSTANCE PasteBlocks WITH blocks <- compressed

writerVars == <<xyzct, blockSize, slices, cutPc, cutBlockId, cutBcount, cutAuxDim,
                cutOffsetBuffer, cutBufferInAux, cutBufferIn, compressed>>
readerVars == <<ROI, full, pc, blockId, bcount, auxDim, offsetBuffer,
                offsetBufferBlock, bufferInAux, bufferIn, bufferOut>>
vars == <<writerVars, readerVars>>

-----------------------------------------------------------------------------
Init == Cut!Init /\ Paste!Init

\* writeImage or writeImageStackSlices.
Write == Cut!Next /\ UNCHANGED readerVars

\* readImage or readImageFull, of a complete file.
Read == cutPc = "done" /\ Paste!Next /\ UNCHANGED writerVars

Next == Write \/ Read

Spec == Init /\ [][Next]_vars

-----------------------------------------------------------------------------
\* No memcpy of a row, on either side, leaves the image, slice, block or buffer it
\* copies from, or the one it copies to (klb_imageIO.cpp:138-146, :698, :1082).
RowsInBounds == Cut!RowsInBounds /\ Paste!RowsInBounds

\* When the reader begins, the file holds each voxel once, in the block and the
\* place where the definition of a block puts it (klb_imageIO.cpp:107-157).
BlocksPartitionImage == blockId = 0 => Cut!BlocksPartitionImage

\* While the region is read, pixels only appear where they belong and once, in any
\* order of rows (klb_imageIO.cpp:698).
ImplementsFill == Paste!ImplementsFill

\* What readImage leaves in the buffer is, voxel for voxel, the part of the image
\* that was given to writeImage: "Read one or more n-dimensional slices from a
\* KLB file" means this (klb_imageIO.cpp:528-721).  Of a region that ends behind the
\* image it leaves the rest as it was (klb_imageIO.cpp:675).
ReadsWhatWasWritten ==
    pc = "done" =>
        \A p \in Box(ROI.LB, ROI.UB) :
            bufferOut[Place(p, ROI.LB, getSizePixels(ROI))]
                = IF Paste!InImage(p) THEN Place(p, [ii \in Dims |-> 0], xyzct) ELSE Paste!Junk
=============================================================================
