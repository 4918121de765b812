----------------------------- MODULE CutBlocks -----------------------------
(***************************************************************************)
(* How blockCompressor and blockCompressorStackSlices cut the blocks out   *)
(* of the image (src/klb_imageIO.cpp:52-158, :264-386): row by row, with   *)
(* an odometer that moves one offset up and down instead of computing it.  *)
(*                                                                         *)
(* One thread takes all the blocks: bufferIn and the counters are its own, *)
(* and the image is only read, so other threads change nothing of this.    *)
(* A pixel of the image is the number of its place.  An image that comes *)
(* as slices has three dimensions.                                         *)
(***************************************************************************)
EXTENDS BlockGeometry, Sequences

CONSTANT SliceModes     \* TRUE: the image comes as slices, FALSE: as one buffer

VARIABLES xyzct, blockSize, slices,     \* the call's arguments
          pc,
          blockId,                      \* the next block
          bcount, auxDim,               \* the odometer
          offsetBuffer,                 \* where the row is in the image
          bufferInAux, bufferIn,        \* where it goes to, and the block cut out
          compressed                    \* what the compression library was given

callVars == <<xyzct, blockSize, slices>>
loopVars == <<bcount, auxDim, offsetBuffer, bufferInAux>>
vars == <<callVars, pc, blockId, loopVars, bufferIn, compressed>>

-----------------------------------------------------------------------------
Junk == -1
xyzctCum == Cum(xyzct)
NumBlocks == calculateNumBlocks(xyzct, blockSize)

\* The block being cut: the one claimed last.
coord == coordBlock(blockId - 1, xyzct, blockSize)
size == blockSizeAux(coord, xyzct, blockSize)

\* Slices of the image: offsetZ and offsetSlice of an offset.
sliceSize == xyzct[0] * xyzct[1]
offsetZ == offsetBuffer \div sliceSize
offsetSlice == offsetBuffer - offsetZ * sliceSize

\* The pixels memcpy finds at the cursor; k counts them.
Pixel(k) == IF slices THEN offsetZ * sliceSize + (offsetSlice + k)
            ELSE offsetBuffer + k

\* "block size cannot be larger than dimensions": the one asked for is cut down.
Init ==
    /\ xyzct \in ImageSizes
    /\ \E n \in BlockSizes :
          blockSize = [ii \in Dims |-> IF n[ii] < xyzct[ii] THEN n[ii] ELSE xyzct[ii]]
    /\ slices \in SliceModes
    /\ pc = "claim"
    /\ blockId = 0
    /\ bcount = [ii \in Dims |-> 0]
    /\ auxDim = 1
    /\ offsetBuffer = 0
    /\ bufferInAux = 0
    /\ bufferIn = [k \in 0 .. Volume(blockSize) - 1 |-> Junk]
    /\ compressed = [b \in 0 .. NumBlocks - 1 |-> <<>>]

\* Claims a block and sets the counters to its first row, if there is one left.
ClaimBlock ==
    /\ pc = "claim"
    /\ IF blockId < NumBlocks
       THEN /\ blockId' = blockId + 1
            /\ bcount' = [ii \in Dims |-> 0]
            /\ auxDim' = 1
            /\ offsetBuffer' = Offset(coordBlock(blockId, xyzct, blockSize), xyzctCum)
            /\ bufferInAux' = 0
            /\ pc' = "row"
       ELSE pc' = "done" /\ UNCHANGED <<blockId, loopVars>>
    /\ UNCHANGED <<callVars, bufferIn, compressed>>

\* memcpy of a row, and the step of the second dimension.
CopyRow ==
    /\ pc = "row"
    /\ bufferIn' = [k \in DOMAIN bufferIn |->
                        IF k \in bufferInAux .. bufferInAux + size[0] - 1
                        THEN Pixel(k - bufferInAux) ELSE bufferIn[k]]
    /\ bufferInAux' = bufferInAux + size[0]
    /\ bcount' = [bcount EXCEPT ![1] = @ + 1]
    /\ offsetBuffer' = offsetBuffer + xyzctCum[1]
    /\ auxDim' = 1
    /\ pc' = "carry"
    /\ UNCHANGED <<callVars, blockId, compressed>>

\* A dimension is through: back to its start, and a step of the next one.  After
\* the last dimension the block is complete.
Carry ==
    /\ pc = "carry"
    /\ bcount[auxDim] = size[auxDim]
    /\ auxDim' = auxDim + 1
    /\ LET rewound == offsetBuffer - bcount[auxDim] * xyzctCum[auxDim]
       IN  IF auxDim' = DataDims
           THEN /\ bcount' = [bcount EXCEPT ![auxDim] = 0]
                /\ offsetBuffer' = rewound
                /\ pc' = "compress"
           ELSE /\ bcount' = [bcount EXCEPT ![auxDim] = 0, ![auxDim'] = @ + 1]
                /\ offsetBuffer' = rewound + xyzctCum[auxDim']
                /\ pc' = "carry"
    /\ UNCHANGED <<callVars, blockId, bufferInAux, bufferIn, compressed>>

NoCarry ==
    /\ pc = "carry"
    /\ bcount[auxDim] # size[auxDim]
    /\ pc' = "row"
    /\ UNCHANGED <<callVars, blockId, loopVars, bufferIn, compressed>>

\* Mutant of Compress: a whole block is compressed at the border too.
Compress_WholeBlock ==
    /\ pc = "compress"
    /\ compressed' = [compressed EXCEPT
                        ![blockId - 1] = [k \in 1 .. Volume(blockSize) |-> bufferIn[k - 1]]]
    /\ pc' = "claim"
    /\ UNCHANGED <<callVars, blockId, loopVars, bufferIn>>

\* The library is given the first gcount pixels of bufferIn; what an earlier,
\* larger block left behind them is not.
Compress ==
    /\ pc = "compress"
    /\ compressed' = [compressed EXCEPT
                        ![blockId - 1] = [k \in 1 .. Volume(size) |-> bufferIn[k - 1]]]
    /\ pc' = "claim"
    /\ UNCHANGED <<callVars, blockId, loopVars, bufferIn>>

Done == pc = "done" /\ UNCHANGED vars

Next == ClaimBlock \/ CopyRow \/ Carry \/ NoCarry \/ Compress \/ Done

Spec == Init /\ [][Next]_vars

-----------------------------------------------------------------------------
\* Every row memcpy copies lies inside the image, inside one slice where the
\* image is given as slices, and inside the block buffer: an odometer that
\* carried one row too late would read a neighbouring block, slice or the memory
\* behind them (klb_imageIO.cpp:138-139, :364-367).
RowsInBounds ==
    pc = "row" =>
        /\ offsetBuffer + size[0] <= Volume(xyzct)
        /\ slices => offsetZ < xyzct[2] /\ offsetSlice + size[0] <= sliceSize
        /\ bufferInAux + size[0] <= Volume(blockSize)

\* The voxels in the order of their places are, in each compressed block, those
\* that belong to the block and no other: one id of a block number, counted down
\* dimension by dimension, and one moving offset give each voxel its one place.
\* A reader finds them there by the same arithmetic (PasteBlocks).
BlocksPartitionImage ==
    pc = "done" =>
        \A p \in Box([ii \in Dims |-> 0], [ii \in Dims |-> xyzct[ii] - 1]) :
            LET b     == BlockOf(p, xyzct, blockSize)
                first == FirstVoxel(p, blockSize)
                n     == blockSizeAux(first, xyzct, blockSize)
            IN  /\ Len(compressed[b]) = Volume(n)
                /\ compressed[b][Place(p, first, n) + 1]
                       = Place(p, [ii \in Dims |-> 0], xyzct)
=============================================================================
