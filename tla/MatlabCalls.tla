---------------------------- MODULE MatlabCalls ----------------------------
(***************************************************************************)
(* The functions of Matlab (matlabWrapper/*.cpp): what becomes of their    *)
(* arguments in the header, which numbers writeImage derives from it       *)
(* before it starts its threads (src/klb_imageIO.cpp:1252-1287), and which *)
(* arrays come back.                                                       *)
(*                                                                         *)
(* A Matlab array has at least two dimensions, and none of length 1 behind *)
(* these; its sizes are taken to fit in the 32 bits a header has for each, *)
(* and so is a block size, which may be a fraction: no conversion of an    *)
(* argument is undefined.  A block size is counted in halves of a pixel.   *)
(* An argument that is [] or missing is Default.  Pixels are left out, and *)
(* so are the arguments that only pass through.                            *)
(***************************************************************************)
EXTENDS FloatSizes

CONSTANTS DataDims,         \* KLB_DATA_DIMS,
          SpatialDims,      \* and those a slice may leave out: 3
          Arrays,           \* sizes of the arrays that are written
          BlockSizes,       \* block sizes asked for, in halves of a pixel,
          Threads,          \* numbers of threads asked for,
          HardwareThreads,  \* and what hardware_concurrency() says, 0 if it does not know
          Types,            \* bytes per pixel of the types of arrays
          OptimalSize,      \* optimalBlockSizeInBytes
          MinSlots, MaxSlots,   \* slots of a queue: 5 and 20
          Default

Dims == 1 .. DataDims

\* A bound: what an array of more dimensions would overwrite is not modelled.
MaxDims == 2 * DataDims

ASSUME MatlabCallsAssumption ==
    /\ DataDims \in Nat /\ SpatialDims \in 2 .. DataDims
    /\ \A a \in Arrays : a \in Seq(Words) /\ Len(a) \in 2 .. MaxDims
    /\ \A a \in Arrays : Len(a) > 2 => a[Len(a)] # 1
    /\ \A b \in BlockSizes : b \in Seq(0 .. 2 * UInt - 1) /\ b # <<>>
    /\ \A b \in BlockSizes : \A ii \in DOMAIN b : ToFloat(b[ii]) < 2 * UInt
    /\ OptimalSize \in [Dims -> Nat \ {0}]
    /\ Types \subseteq Nat \ {0}
    /\ Threads \subseteq Int /\ HardwareThreads \subseteq Nat
    /\ MinSlots \in Nat \ {0} /\ MaxSlots \in Nat \ {0}
    /\ Default \notin Words

VARIABLES pc,
          args,             \* of the call of writeKLBstack, and the machine's threads
          header,           \* of the image object, and then of the file
          numThreads, numBlocks, slots, slotBytes, allocated,   \* set up by writeImage
          roi,              \* the region that is read,
          array             \* and the sizes of the array made for it

setup == <<numThreads, numBlocks, slots, slotBytes, allocated>>
vars == <<pc, args, header, setup, roi, array>>

-----------------------------------------------------------------------------
Init ==
    /\ pc = "matlab"
    /\ args = Default /\ header = Default /\ roi = Default /\ array = Default
    /\ numThreads = -1
    /\ numBlocks = 0 /\ slots = 0 /\ slotBytes = 0 /\ allocated = 0

Write ==
    /\ pc = "matlab"
    /\ args' \in [array : Arrays, type : Types, threads : Threads \cup {Default},
                  blockSize : BlockSizes \cup {Default}, compressed : BOOLEAN,
                  hardware : HardwareThreads]
    /\ pc' = "convert"
    /\ UNCHANGED <<header, setup, roi, array>>

\* Mutant of setDefaultBlockSize: a block may be smaller than a pixel.
setDefaultBlockSize_NoMinimum(bytes) == [ii \in Dims |-> OptimalSize[ii] \div bytes]

setDefaultBlockSize(bytes) == [ii \in Dims |-> Larger(OptimalSize[ii] \div bytes, 1)]

\* The sizes given, and the rest of them.
UpTo(sizes, rest) == [ii \in Dims |-> IF ii <= Len(sizes) THEN sizes[ii] ELSE rest[ii]]

Ones == [ii \in Dims |-> 1]

\* The sizes are copied for all dimensions of the array: those that xyzct has no place
\* for go to pixelSize, which lies behind it.
PixelSizes(sizes) ==
    [ii \in Dims |-> IF DataDims + ii <= Len(sizes) THEN sizes[DataDims + ii] ELSE Default]

\* A block size becomes a float and then an integer, which may be 0.
WholePixels(asked) == [ii \in DOMAIN asked |-> ToFloat(asked[ii]) \div 2]

\* The block size of the header before it is limited to the image.
BlockSizeOf(asked, default) ==
    IF asked = Default THEN default ELSE UpTo(WholePixels(asked), default)

ConvertArguments ==
    /\ pc = "convert"
    /\ LET default == setDefaultBlockSize(args.type)
       IN  header' = [xyzct |-> UpTo(args.array, Ones),
                      pixelSize |-> PixelSizes(args.array),
                      blockSize |-> BlockSizeOf(args.blockSize, default),
                      bytesPerPixel |-> args.type,
                      compressed |-> args.compressed]
    /\ numThreads' = IF args.threads = Default THEN -1 ELSE args.threads
    /\ pc' = "setup"
    /\ UNCHANGED <<args, numBlocks, slots, slotBytes, allocated, roi, array>>

\* Mutant of ThreadsAsked: 0 is a number of threads.
ThreadsAsked_Zero == IF numThreads < 0 THEN args.hardware ELSE numThreads

ThreadsAsked == IF numThreads <= 0 THEN args.hardware ELSE numThreads

\* numBlocskPerQueue
SlotsOf(threads, blocks) ==
    Smaller(Smaller(Larger(threads, MinSlots), MaxSlots), Ceil(blocks, threads))

\* writeImage up to the queues.  Without a thread the division of SlotsOf crashes, and
\* there is none if there is no block.
SetUp ==
    /\ pc = "setup"
    /\ LET block == [ii \in Dims |-> Smaller(header.blockSize[ii], header.xyzct[ii])]
       IN  /\ header' = [header EXCEPT !.blockSize = block]
           /\ numBlocks' = calculateNumBlocks(header.xyzct, block)
           /\ numThreads' = Smaller(ThreadsAsked, numBlocks')
           /\ \/ /\ numThreads' = 0
                 /\ pc' = "crashed"
                 /\ UNCHANGED <<slots, slotBytes, allocated>>
              \/ /\ numThreads' # 0
                 /\ slots' = SlotsOf(numThreads', numBlocks')
                 /\ slotBytes' = maximumBlockSizeCompressedInBytes(block, header.bytesPerPixel,
                                                                   header.compressed)
                 /\ allocated' \in queueBytes(slotBytes', slots')
                 /\ pc' = "file"
    /\ UNCHANGED <<args, roi, array>>

-----------------------------------------------------------------------------
\* The sizes of the array mxCreateNumericArray makes: the sizes without the ones
\* behind the second; of no sizes, an array that may be empty.
mxCreateNumericArray(dims) ==
    LET last == Max({2} \cup {ii \in DOMAIN dims : dims[ii] # 1})
        made == [ii \in 1 .. last |-> IF ii <= Len(dims) THEN dims[ii] ELSE 1]
    IN  IF dims = <<>> THEN {<<0, 0>>, made} ELSE {made}

\* The region that is read from the file, and the sizes asked for the array.
Return(kind, lb, ub, dims) ==
    /\ pc' = kind
    /\ roi' = [lb |-> lb, ub |-> ub]
    /\ array' \in mxCreateNumericArray(dims)
    /\ UNCHANGED <<args, header, setup>>

Zeros == [ii \in Dims |-> 0]
LastPixel == [ii \in Dims |-> header.xyzct[ii] - 1]

\* Mutant of Squeezed: sizes of 1 are left out everywhere.
Squeezed_Everywhere == SelectSeq(header.xyzct, LAMBDA n : n # 1)

\* Sizes of 1 at the end are left out.
Squeezed == SubSeq(header.xyzct, 1, Max({0} \cup {ii \in Dims : header.xyzct[ii] # 1}))

readKLBstack == pc = "file" /\ Return("stack", Zeros, LastPixel, Squeezed)

\* A slice of all channels and times, into the two spatial dimensions that are left.
readKLBslice ==
    /\ pc = "file"
    /\ \E dim \in 1 .. SpatialDims :
          \E slice \in {0, header.xyzct[dim] - 1} :
             Return("slice", [Zeros EXCEPT ![dim] = slice], [LastPixel EXCEPT ![dim] = slice],
                    RemoveAt(SubSeq(header.xyzct, 1, SpatialDims), dim))

\* A region of as many dimensions as the caller has bounds for, the first of the others.
readKLBroi ==
    /\ pc = "file"
    /\ \E columns \in Dims :
          \E lower, upper \in [1 .. columns -> {0, 2}] :
             /\ \A ii \in 1 .. columns : lower[ii] <= upper[ii] /\ upper[ii] < header.xyzct[ii]
             /\ Return("region", UpTo(lower, Zeros), UpTo(upper, Zeros),
                       [ii \in 1 .. columns |-> upper[ii] - lower[ii] + 1])

Next == Write \/ ConvertArguments \/ SetUp \/ readKLBstack \/ readKLBslice \/ readKLBroi

Spec == Init /\ [][Next]_vars

-----------------------------------------------------------------------------
Sizes == [Dims -> Nat \ {0}]

TypeOK ==
    /\ pc \in {"matlab", "convert", "setup", "crashed", "file", "stack", "slice", "region"}
    /\ pc = "setup" =>
          /\ header \in [xyzct : [Dims -> Nat], pixelSize : [Dims -> Words \cup {Default}],
                         blockSize : [Dims -> Nat], bytesPerPixel : Types,
                         compressed : BOOLEAN]
          /\ args.blockSize = Default => header.blockSize \in Sizes
    /\ pc = "file" => header.xyzct \in Sizes /\ header.blockSize \in Sizes
    /\ numThreads \in Int /\ numBlocks \in Nat /\ slots \in Nat /\ slotBytes \in 0 .. UInt - 1

\* calculateNumBlocks divides floats (klb_imageHeader.cpp:82); up to the integers all
\* of which are floats it counts the blocks an image is cut into, every one of them.
CountsAreExact ==
    (pc = "file" /\ \A ii \in Dims : header.xyzct[ii] <= Exact)
    => numBlocks = ProductOf([ii \in Dims |-> Ceil(header.xyzct[ii], header.blockSize[ii])])

\* maximumBlockSizeCompressedInBytes gives a queue room for blocks that grow by a third
\* and an overhead (klb_imageIO.cpp:1607-1620), though it counts in 32 bits and floats
\* and the queue in ints (klb_imageHeader.cpp:133, klb_circularDequeue.cpp:27), as long
\* as the queue of twice these blocks is one an int can count.
QueuesHoldBlocks ==
    LET bytes == ProductOf(header.blockSize) * header.bytesPerPixel
        grown == IF header.compressed THEN (4 * bytes) \div 3 + CompressionOverhead ELSE bytes
        limit == IntMax \div MaxSlots - CompressionOverhead
    IN  (pc = "file" /\ (IF header.compressed THEN 2 * bytes ELSE bytes) <= limit)
        => slotBytes >= grown /\ allocated >= slots * slotBytes

\* writeImage starts threads that all have a block and a slot to put it in, whatever
\* number is asked for.  It stops the program, which divides by the number of threads
\* (klb_imageIO.cpp:1281), for an array without pixels, if neither the caller nor the
\* machine says how many threads, and for blocks of less than a pixel, which nothing
\* refuses (writeKLBstack.cpp:156) -- and for nothing else.
WorkForAllThreads ==
    /\ pc = "file" => /\ numThreads \in 1 .. numBlocks
                      /\ slots \in 1 .. MaxSlots
                      /\ slots <= Ceil(numBlocks, numThreads)
    /\ pc = "crashed" =>
          \/ \E ii \in Dims : ii <= Len(args.array) /\ args.array[ii] = 0
          \/ args.hardware = 0 /\ (args.threads = Default \/ args.threads <= 0)
          \/ args.blockSize # Default /\ \E ii \in Dims : ii <= Len(args.blockSize)
                                                          /\ args.blockSize[ii] < 2

\* Pixels are read into an array that has as many as are read.
Filled == ProductOf(array) = ProductOf([ii \in Dims |-> roi.ub[ii] - roi.lb[ii] + 1])

\* What readKLBstack returns has the sizes of the array that was written, and the pixel
\* sizes in the file are the caller's; of an array of too many dimensions the first sizes
\* are left, and its other sizes are written over the pixel sizes.
Returned ==
    \/ array = args.array /\ header.pixelSize = [ii \in Dims |-> Default]
    \/ /\ Len(args.array) > DataDims
       /\ \A ii \in DOMAIN array : ii <= DataDims /\ array[ii] = args.array[ii]
       /\ header.pixelSize # [ii \in Dims |-> Default]

\* The array for what is read has as many pixels as are read into it, and that for
\* readKLBstack the sizes of the array that was written, unless this one had more
\* dimensions than a header (writeKLBstack.cpp:257).  A slice of an image of more
\* dimensions than SpatialDims does not fit (readKLBslice.cpp:77-86), and the image of
\* one pixel may not (readKLBstack.cpp:74-80).
ArraysFit ==
    pc \in {"stack", "slice", "region"} =>
        \/ Filled /\ (pc = "stack" => Returned)
        \/ pc = "slice" /\ \E ii \in Dims : ii > SpatialDims /\ header.xyzct[ii] > 1
        \/ pc = "stack" /\ header.xyzct = Ones
=============================================================================
