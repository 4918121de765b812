# A TLA+ development of the KLB image file library

KLB (`src/src`) stores five-dimensional images (x, y, z, channel, time) as files
of independently compressed blocks. Several threads compress while one writes;
several threads read the file back, whole or by region of interest. A C interface,
functions of Matlab, a JNI bridge and a Java API sit on top.

This directory holds TLA+ modules of the library, TLC configurations that check
them on small instances, and TLAPS proofs for all instances. `PROJECT.json` lists
components, runs, hazards, findings, theorems, and for each definition the lines
of code it stands for. In comments and below, `klb_imageIO.cpp` and so on are in
`src/src`, `KLB.java` and so on in `src/javaWrapper/src/main/java/org/janelia/simview/klb`.

    tlc -config MCwrite.cfg MCWritePipeline.tla      # a run
    tlapm WritePipelineProofs.tla                    # proofs

## 1. The system and its parts

### Circular queue: `klb_circular_dequeue`
A ring of equal slots between one compressor and the writer.
*State:* `readIdx`, `writeIdx`, `numTaken`, the slots, one mutex, one condition
variable. *Operations:* `getWriteBlock` (sleeps while the ring is full),
`pushWriteBlock`, `getReadBlock` (never sleeps; NULL if empty), `popReadBlock`
(unlocks, then notifies). *Hard:* both ends use their pointers outside the lock;
the notification comes after the unlock. *Correct if* the two ends never share a
slot, no sleeper is forgotten, and the whole is a bounded FIFO queue.

### Write pipeline: `writeImage`, `writeImageStackSlices`, `blockCompressor*`, `blockWriter`
*State:* the atomic block counter; a queue per compressor; the board
`g_blockSize`/`g_blockThreadId` under `g_lockqueue`; per compressor the block it
works on and an error flag; the writer's memory buffer, running offset and offset
table; the file. *Interaction:* a compressor claims a block, reserves a slot in
*its* queue, compresses, pushes, announces on the board, notifies. The writer
waits for block 0, 1, 2, ... in turn and takes the head of the queue of whichever
thread announced it, *without looking which block it is*. *Hard:* compressors may
be blocked on full queues of later blocks while the writer waits for an earlier
one; two kinds of wakeups cross; board entries are read unlocked after the wait;
the offset table is written last, over a placeholder; errors come from any thread.
*Correct if* the head is always the block waited for, the buffer never overflows,
recorded offsets find the blocks' bytes, a result of 0 means that everything is
stored, and the call returns.

### Read pipeline: `readImage`, `readImageFull`, `blockUncompressor*`
*State:* the atomic counter; per thread a `FILE`, two buffers and an error flag;
the caller's image, written without a lock. *Hard:* failing `fopen` in some
threads, files that end early, decompression errors, who reports them. *Correct
if* each block wanted is pasted once, the error comes back, and the call returns.

### Block geometry: the loops of the compressors and uncompressors, `klb_ROI`
*State:* per thread the coordinates, row counters and precomputed offsets of the
block at hand. *Operations:* cut a block (from one buffer or from slices) row by
row, paste a block or its intersection with a region. *Hard:* border blocks,
carries from dimension to dimension, inclusive bounds; writer and reader compute
addresses in different ways. *Correct if* no row leaves its buffers, the blocks
partition the image, and what is read is what was written.

### Image header: `klb_image_header`
*State:* the fixed fields, a bare pointer `blockOffset` and its length `Nb`.
*Operations:* construct, copy, assign, `setHeader`, `readHeader`, resize, destroy;
the sizes of blocks, buffers and counts that follow from the fields. *Hard:* pointer
and length must stay together through all operations; `setHeader` changes the sizes
and not the table; counts are quotients of floats, byte counts products of 32 bits.
*Correct if* a table has one owner and the length its header says, and the numbers
derived are those of the blocks the pipelines handle.

### Image object: `klb_imageIO`
*State:* a header and a file name, kept from call to call. *Operations:*
`setFilename`, `readHeader`, `readImage`, `readImageFull`, `writeImage`. *Hard:* a
header is read only when the object has none, and nobody compares it with the file;
several objects, in several threads or programs, may use a file; a program may end in
the middle of a write, and a file that is too short is read without complaint.
*Correct if* a read that returns 0 returns what the last complete write stored,
whenever the header is that of the file.

### C interface and Matlab functions
Both make one image object per call, apply two or three operations to it and destroy
it; the reading ones first make room for what they will read, by the header they have
then. The Matlab functions also convert: trailing dimensions of length 1 come and go,
block sizes and thread numbers have defaults. *Correct if* what is read fits in the
room made, arrays come back with the shape they were written with, and `writeImage`
finds numbers it can start its threads with.

### JNI bridge, Java API
The JNI bridge borrows Java arrays from the virtual machine, which may lend the array
or a copy. `KLB.java` squeezes dimensions of length 1 out, cuts images too big for one
Java array into cells and reads each with a call of its own. *Hard:* release modes of
borrowed arrays, arguments that must reach the file, dimension bookkeeping, lengths of
arrays that native code never learns.

### Not modelled
| part | why |
|---|---|
| zlib, bzip2 (`src/external`) | third-party; a call is a choice among the outcomes its caller tells apart. Memory they keep is not counted (`klb_imageIO.cpp:637`) |
| Python wrapper | a reference to another project, no code |
| `blockUncompressorInMem` | compiled only under `USE_MEM_BUFFER_READ`, which no build defines |
| `KlbScifio`, `KlbImageJLoader`, `NativeLibraryLoader` | plug-in glue around classes that are not in the repository; the cache of planes of `KlbScifio` is planned |
| byte layout of the header | written and read by the same sequence of calls; planned (section 8) |
| writing in `KLB.java` | one pass over the pixels into an array, then the JNI bridge, which is modelled |
| copy constructor and `operator=` of the queue | never called |
| two writers of one file at a time | nothing in the code orders them; left out of `StartWrite` |
| tests, build files | read for what they expect |

## 2. Modules

| module | models | notes |
|---|---|---|
| `Dequeue` | `klb_circularDequeue.cpp` | the queue as a record, each operation's critical section an operator |
| `BoundedFifo` | — | what a queue promises: a FIFO of bounded capacity |
| `CircularDequeue` | one producer, one consumer, one queue | EXTENDS `Dequeue`; implements `BoundedFifo` |
| `ReorderBuffer` | — | what the write pipeline promises: blocks become ready in any order, are stored in order, never more than a bound ready and not stored |
| `WritePipeline` | caller, compressors, writer | EXTENDS `Dequeue`, one queue per compressor; implements `ReorderBuffer` |
| `ReadPipeline` | caller, reading threads | implements `RegionFill` |
| `RegionFill` | — | what a read promises: wanted places are filled once each with the right value |
| `BlockGeometry` | arithmetic of blocks and regions | above its line the code's arithmetic, below it the same said with sets of voxels |
| `CutBlocks`, `PasteBlocks` | the row loops of writer and reader | PasteBlocks implements `RegionFill` |
| `RoundTrip` | image → blocks → region | INSTANCEs both |
| `ImageHeader` | the operations of `klb_image_header` | a heap of tables, several objects |
| `ImageFile` | `klb_imageIO` from outside: objects, files, crashes | EXTENDS `ImageHeader` |
| `LibraryCalls` | programs with objects of their own, the functions of `klb_Cwrapper.cpp` and of Matlab | EXTENDS `ImageFile` |
| `Products` | — | products of sizes, which several modules count with |
| `FloatSizes` | arithmetic on sizes: quotients of floats, products of 32 bits and of ints | widths are parameters |
| `MatlabCalls` | arguments of the Matlab functions, set-up of `writeImage`, arrays that come back | EXTENDS `FloatSizes` |
| `JniBridge` | `KLBJNI.java`, its native functions, the C interface under them | arrays lent or copied |
| `JavaRegions` | reading in `KLB.java` | squeezing, cells, in-place checks |
| `Lemmas` | — | induction and recursion over numbers, quotients; what the operations of `Dequeue` do |
| `CircularDequeueProofs`, `WritePipelineProofs`, `ReadPipelineProofs`, `RoundTripProofs`, `LibraryCallsProofs`, `MatlabCallsProofs` | proofs | of the module each is named for, and of the modules that one uses; section 6 |
| `JavaProofs` | proofs | of `JavaRegions` and of `JniBridge`: Java above the native calls, and the calls |
| `MC*` | constants for TLC | |

How state and steps correspond to the code:

* A critical section (lock, body, unlock) is one action; everything outside a lock
  is a step of its own: filling a slot, copying from one, `notify_all`, the
  unlocked reads of the board. `wait(lock, predicate)` is a test under the lock
  that sleeps if it fails, and a wakeup (by notification or for no reason) goes
  back to the test.
* `pc[t]` of a compressor: claim → reserve (⇄ asleep) → compress → push → announce
  → notify → claim, `done` at the end. `wpc` of the writer: header → check
  (⇄ asleep) → flush → copy → pop → notify → record → check, and lastflush → table
  → close at the end.
* The queue length is the code's own formula with its constants 5 and 20 named
  `QueueFloor` and `QueueCap`.
* Bytes of block *b* are `<<b,1>>, <<b,2>>, ...`; the memory buffer, the file and
  the offset table hold these, so that offsets can be checked against contents.
* Compression is a choice of a size and an error flag per type (`Outcomes`). As in
  the code, the zlib branch *assigns* the flag before it compresses.
* In `ReadPipeline` a buffer holds a block's pixels, or `Mixed`; decompressing the
  bytes left over from another block may succeed. Whatever the error, the block is pasted
  all the same; the type `"OTHER"` stands for any byte of a header that names no
  compression, for which the code sets error 5 (`klb_imageIO.cpp:640-644`, :1047-1051).
* In `CutBlocks` and `PasteBlocks` a step is one `memcpy` of a row and the carry
  after it; offsets count pixels where the code counts bytes. Pixels are their own
  addresses in the image, so a misplaced one is seen.
* In `ImageHeader` a table has a length and a contents, the image whose blocks it
  finds; in its heap, freeing twice, leaking or sharing a table shows. It has no
  next-state relation of its own: `ImageFile` uses its operations.
* In `ImageFile` a long call is a beginning, an end, and for a write the first flush
  of the C library's buffer between; other objects' calls come in between. A file is
  missing, empty, partial (no table), damaged (blocks missing) or complete. `current`,
  "the header is what the file holds", is no variable of the code: it is what
  programs would have to know. A read that does not find one image's blocks returns
  an error or `Torn` pixels. So may the read of a complete file: with zlib, `Torn` pixels
  and 0 (`klb_imageIO.cpp:619`, :1026), otherwise an error. The write of a damaged file
  may return 0 (`klb_imageIO.cpp:208`).
* In `LibraryCalls` a function is the sequence of operations it applies to its object
  (`call`), cut short by the first that fails. `room` is what it has made room for.
* In `MatlabCalls` a size that is counted in floats or in 32 bits goes through
  `ToFloat`, `% UInt`, `ToInt`; a product of ints that overflows has both outcomes.
  The caller's block sizes are doubles: the model counts them in halves of a pixel, makes
  floats of them and cuts the fraction off (`WholePixels`), so they may become 0, as in
  `writeKLBstack.cpp:156-158`. The loop at `writeKLBstack.cpp:257` that runs to the number
  of dimensions of the array goes past `xyzct` into `pixelSize`, the next field of the
  header (`PixelSizes`).
* `JniBridge` keeps for each borrowed array whether it is a copy, a choice of the
  virtual machine at each call.

Things abstracted: wording of messages, timing output, fields that only pass through
(pixel sizes, metadata, the names of types), element types (one type of pixel except
where `JavaRegions` and `MatlabCalls` compare sizes).

## 3. Runs: what each checks and shows

| run | question | bounds | states |
|---|---|---|---|
| `dequeue` | Is the ring a FIFO queue that loses no wakeup and delivers everything? | 3 slots, 7 items | 268 |
| `write` | Does the pipeline store every block in its place, whatever the interleaving, and return? | 4 blocks, 2 compressors, queues of 1, sizes 1 and 2, buffer of 3, all compression types | 826,476 |
| `round_trip` | Is what is read what was written? | 3 dimensions, lengths to 3, blocks to 2, every box and slice, the whole, boxes that end behind the image; slices and one buffer | 553,486 |
| `read` | Do errors come back, does everything wanted get read once? | 3 blocks, 2 threads, every set of wanted blocks, whole/empty/truncated files, all compression types and an unknown one | 68,628 |
| `image_file` | Over any calls, by programs and functions, crashes included: do headers own their tables, do reads return the last write, is there room for it? | 2 objects, 2 tables, 2 files, a small image and a large one that is compressed with zlib | 1,039,318 |
| `matlab` | Do sizes survive the way through Matlab, and can `writeImage` start with them? | headers of 4 dimensions, arrays of up to 5, block sizes from 0 on in halves of a pixel, floats of 4 bits, integers of 10, queues of 2 to 3 slots | 639,649 |
| `jni` | Do results reach the Java arrays? | 2 images, 1 region and the whole | 19,601 |
| `java_cells` | Are cells big enough, and do they tile the region? | 3 dimensions of 5, lengths to 3, arrays of 5 pixels | 158,656 |
| `write_errors`, `jni_arguments`, `java_flat`, `java_in_place` | findings, section 5 | smallest that show them | |

Properties of `write`, which carry most of the weight:
`HeadIsNext` (the unchecked head of the announcing thread's queue is the block
waited for; never NULL), `SlotExclusive`, `WriterWakeupPending` and
`CompressorWakeupPending` (a sleeper that should be awake has a notification
coming), `BufferFits`, `BlocksAreFound` (the offsets find the blocks at *every* moment,
across flushes and empty blocks, and a process that stops leaves a file without a
table or a readable one), `AnnouncedOnce` (the board entries read unlocked never change),
`SuccessMeansStoredUnlessZlib`, `ImplementsReorderBuffer`, `Termination`.

Of `read`: `SuccessMeansRead`. When a read returns 0, every block asked for is in its place,
but for the three cases in which the code does not notice: missing bytes of a file that is not
compressed, a block without a byte in the file that comes out as an earlier one of the
same thread, and with zlib an error that a later block of the call made it forget.

Properties of `image_file`: `LengthIsRight`, `OwnedOnce` (a table has one owner and the
length it says), `TableFitsSizes` (for a header that is what its file holds, or is being
written, also after `setHeader`, which changes the sizes and leaves the table),
`ReadsLastWrite` (except that the read of a zlib image may return wrong pixels and 0), and
`RoomSuffices`, which names the two cases in which it does not hold.
Of `matlab`: `CountsAreExact` (up to the integers a float holds), `QueuesHoldBlocks` (up to
a size of blocks it names), `WorkForAllThreads` (threads have blocks and slots; the division
by their number fails for an array without pixels, if nobody says how many threads, for a block
size of less than a pixel, and for nothing else), `ArraysFit` (what comes back has the size
and the pixel sizes of what was written, unless that had more dimensions than a header).

Why the bounds are enough:

* `QueueCap = 1` (20 in the code). With the real cap and few blocks no queue ever
  fills. One slot with two blocks per thread makes compressors sleep on full
  queues while the writer waits for an earlier block, and resets both indices at
  every step; `dequeue` has a ring of 3 that goes round twice. The proofs
  cover every length.
* 4 blocks on 2 threads: each thread's queue may hold 0 1, 0 3, 1 2, ... in any
  split; a thread may do all the work or none. Sizes 1 and 2 in a buffer of 3:
  blocks fit exactly, do not fit, and flush with one or two blocks in the buffer.
* 3 dimensions where the code has 5: the loops treat all dimensions above the first
  alike, and carries over 2 dimensions happen. Lengths 1 to 3 with blocks of 1
  and 2 give blocks that divide the image, that do not, that are as large as it and
  that are larger (cut down by `writeImage`).
* `MaxValue = 5` stands for `Integer.MAX_VALUE` (`KLB.java:803`): images are cut
  along each dimension, with and without a smaller last cell, and some have no
  dimension long enough.
* `java_cells` has images of callers of one length (5), so that some regions fit and
  some do not.
* Regions of `round_trip` may end behind the image; one that begins behind it makes
  the unsigned size of an intersection wrong (`klb_imageIO.cpp:675`), and
  `BlockGeometryAssumption` leaves it out.
* `image_file`: one object writes or changes what another has read; a third adds
  nothing, since objects meet only in a file and in the heap. Two tables for two
  objects: one leaked, and an allocation finds no room, which `OwnedOnce` sees before.
  The images differ in blocks, pixels and channels, so a header or a table of the
  wrong image shows. Objects, addresses and files are symmetric: no action or property
  names one. `Zlib = {large}`: a read that forgets an error, and one that cannot.
* `matlab`: the widths are scaled so that sizes lie on both sides of every limit:
  lengths 0 to 20 and 33 around 2^4 (2^24 in the code), byte counts around
  `IntMax` 511 and beyond `UInt` 1024. `DataDims` 4 leaves one dimension beyond the
  three spatial ones, where the code has two. Some arrays have 5 dimensions, one too many
  for the header. Block sizes of 0, of half a pixel and of a pixel or more with a fraction are
  among those asked for, also in dimensions behind the first.
* `NumItems`, `NumBlocks`, `Headers`, `Addresses` bound what would otherwise be
  unbounded. No run needs a cap on a counter: the block counter stops one past the
  blocks for each thread.

`write` assumes that `fwrite` writes (`DiskFaults = FALSE`). Its result never
decides anything in the code, so neither deadlock nor termination depends on it;
what a full disk does to the file is in section 5.

Deadlock is checked in every run but `matlab`, in which a program writes once, reads
once and stops. A call that has returned stutters (`Finished`,
`Done`); the consumer of `CircularDequeue` asks for ever, as the queue's interface lets it.

## 4. Fairness

`FairSpec` of `WritePipeline`: weak fairness of the caller, of the writer and of
each compressor; of `ReadPipeline`: the caller and each thread; of
`CircularDequeue`: producer and consumer. The code's justification: each is a
`std::thread` the operating system schedules; every critical section is finite and
releases its mutex, and the one-action sections make a mutex always free
between steps; a sleeper takes no step, so nothing is assumed of it until someone
notifies it. No fairness is given to spurious wakeups: `Termination` would then hold
even if notifications were lost. Nor is any failure promised or excluded.

## 5. Findings and disagreements

Each is a run TLC finds violated by the code as it is:

1. `write_errors` (`klb_imageIO.cpp:208`, also 434): with zlib, `*errFlag = deflateInit(...)`
   forgets the failure of an earlier block of the same thread; `writeImage` returns
   0 with a block missing.
   The reader does the same with `inflateInit` (`klb_imageIO.cpp:1026`, :619).
2. `jni_arguments` (`KLBJNI.cpp:366`, :375): the block size passed on is the image's
   size, through a pointer whose array is out of scope; metadata is not passed.
3. `java_flat` (`KLB.java:735`): a region flat in a dimension in which the image is not
   runs past the array of axis names.
4. `java_in_place` (`KLB.java:365`, also 195): the type check is inverted.

Seen while modelling, without a run of their own:

* The results of `fwrite` (`klb_imageIO.cpp:1166`, :1188, :1192) and `fread` (:590, :997)
  are ignored. `MCwrite_errors.cfg` with `DiskFaults = TRUE` and `{"NONE"}` shows a
  result of 0 for a full disk; `SuccessMeansRead` names what is not noticed of a file
  that is too short.
* A read of a zlib image may return 0 with wrong pixels, because `inflateInit`'s result takes
  the place of an earlier block's error (`klb_imageIO.cpp:619`, :1026). `SuccessMeansRead` and
  `ReadsLastWrite` name it as an exception.
* For a type of compression it does not know, the reader sets error 5 and pastes what was in
  the buffer (`klb_imageIO.cpp:640-644`, :1047-1051).
* `writeKLBstack.cpp:156`, :173, :208 cut the caller's block sizes down to whole pixels and
  refuse none: with less than a pixel, the number of blocks is 0 and `klb_imageIO.cpp:1281`
  divides by 0.
* `writeKLBstack.cpp:257-258` fills `xyzct` for every dimension of the array. From the sixth on
  it writes over `pixelSize`, from the eleventh on behind it.
* `readKLBstack` makes room by one header and reads by another if the first had no
  blocks: that of a file which was being written (`klb_Cwrapper.cpp:125-128`).
* `readKLBslice.cpp:77`: the array has two dimensions, what is read into it is the slice
  of all channels and times. `readKLBstack.cpp:74-80`: of an image of one pixel the
  dimensions of the array are none. `readKLBroi.cpp:49` tests `prhs[2]`, and reads
  `prhs[3]` only if there are more than three arguments.
* `deflateEnd` where `inflateEnd` is meant (`klb_imageIO.cpp:637`): refused by the
  library, which keeps the memory.
* `klb_circularDequeue.h:41` says of `getWriteBlock` "return NULL if" the "queue is full";
  it sleeps.
* `README.md:55` calls the table the "offset of each block"; it holds the ends of the
  blocks, counted from the end of the header (`klb_imageIO.cpp:1178-1181`).

## 6. Proofs

`tlapm` checks every leaf. The specifications are the ones TLC runs; the constants
are any values that satisfy the named assumptions.

**Assumptions.** `CircularDequeueAssumption`: at least one slot and one item.
`WritePipelineAssumption`: at least one block and one thread (with none the code
divides by zero, `klb_imageIO.cpp:1281`), positive sizes no larger than the buffer
(which the code allocates so, `:1132`). `ReadPipelineAssumption`: at least one block and
one thread. `BlockGeometryAssumption` and `RoundTrip`'s constants: sizes and blocks of a
pixel or more in every dimension, and a region that begins in the image (which nothing in
the code checks); it may end behind it. `ImageHeaderAssumption` and `ImageFileAssumption`:
an image has a number of blocks, and the names that stand for nothing differ from those
that stand for something. `LibraryCallsAssumption`: an image has pixels, and therefore
blocks. `FloatSizesAssumption`: an integer has more bits than the mantissa of a float.
`MatlabCallsAssumption`: arrays as Matlab has them (two dimensions or more, no last one of
length 1 behind the second), of sizes below 2^32 and of at most twice the dimensions of a
header, block sizes of 0 or more that 32 bits hold (others are undefined for the conversion),
queues of a slot or more; a default is no number. `JavaRegionsAssumption`: images of five sizes of a pixel or more, as headers
have them, regions inside the image and longer than a pixel in some dimension (ImgLib2 has no
images without dimensions), arrays of a pixel or more. Nothing is assumed of how many objects, tables, files, images, blocks or
threads there are. Some theorems carry a hypothesis of their own:

* `StoredBlocksAreFound` says `~DiskFaults`: the code never looks at what `fwrite` returns;
* `RefinesFill` of the read pipeline speaks, as `ImplementsFill` does, of files that are
  whole and were not compressed;
* `NeverDeadlocked` says that the caller passes some number of volumes and that a block
  compresses to some size (`Volumes` and `Sizes` are not empty); else the model, unlike the
  code, has a call or a compression without an outcome;
* `SlotsHoldBlocks` says `Widths` and `SlotsOfCode` says `CodeWidths`, see *Sizes* below.

**The queue** (`CircularDequeueProofs`): `TypeCorrect`, `SlotsAreExclusive`,
`WakeupsAreNotLost`, `RefinesFifo`. The invariant adds to `TypeOK` that the producer
holds `writeIdx` and there is room (`ProducerOwnsSlot`), that the slot it is about
to push holds the item (`SlotIsFilled`), that the consumer holds `readIdx` of a
non-empty queue (`ConsumerOwnsSlot`), and that the producer has an item left.
`SlotExclusive` follows because in a ring that is neither empty nor full the two
indices differ (`ReadWriteDisjoint`). Refinement needs that push appends and pop
removes the head of `Contents`, proved once in `Lemmas` and used by both
components.

`NothingIsLost` uses the refinement: of the steps of `BoundedFifo` it is enough to know
what they do to the queue and the output (`PutDelivers`, `TakeDelivers`,
`ReleaseDelivers`). After n items were put the queue holds the last of them and the
output those before (`DeliveredInv`), so what comes out is 1, 2, 3, ... without a gap. It also
says that if the producer sleeps or is done and the consumer finds the ring empty, every item
has come out. This is the safety core of `AllDelivered`: short of that, one of the two has a
step; that the step is taken is fairness, and stays with TLC.

**The write pipeline** (`WritePipelineProofs`): `TypeCorrect`, `WritesInOrder`,
`SlotsAreExclusive`, `WriterWakesUp`, `CompressorsWakeUp`, `BufferNeverOverflows`,
`BlocksAreAnnouncedOnce`. `HeadIsNext` is far from inductive. The argument:

1. the counter gives each block to one compressor, in increasing order
   (`ClaimInv`, `DistinctInv`);
2. so a queue holds increasing blocks, each announced except possibly the last
   pushed (`QueueInv`, `PushedInv`);
3. a block announced and not popped is in the queue of the thread that announced it
   (`AnnouncedInv`), and what was popped was announced (`BoardInv`);
4. the writer pops in order of ids, so nothing below the next block is in any queue;
   if the next block is announced it is in that queue, and being the smallest there it
   is the head (lemma `HeadFirst`).

`SlotInv` (a compressor writes `writeIdx` of a queue with room) gives
`SlotExclusive`; `RoomInv` (the writer copies only what fits) gives `BufferFits`.
`WriterWakeupPending` and `CompressorWakeupPending` are inductive together with
these. There is a lemma per kind of step (`ClaimStep`, `PushStep`, `AnnounceStep`,
`PopStep`, ..., `QuietStep` for those that touch none of it).

**What is stored** (`WritePipelineProofs`, second half): `StoredBlocksAreFound`,
`SuccessIsStored`, `RefinesReorderBuffer`. `SInv` is inductive together with `IInv`:

1. the offsets recorded so far are the sums of the sizes announced so far (`OffsetInv`), and
   do not change, because the sizes do not (`BlocksAreAnnouncedOnce`);
2. file and buffer together (`Output`) are as long as the offset says, except between the
   copy of a block and the record of its offset (`Pending`), and hold each block at its
   offset (`OutputInv`); a flush only moves the border between the two;
3. the table is in the file when all data is (`TableInv`), so that a process that stops
   leaves no table or one that finds every block;
4. unless zlib resets a flag, a block that was compressed to nothing leaves an error behind
   until the threads are joined (`ErrorInv`, `FlowInv`).

That the reorder buffer never holds more than `NumThreads * QueueLen` blocks is a matter of
cardinality: each block that is ready and not stored is still in the queue of the thread
that announced it (`AnnouncedInv`), so those blocks inject into `Slots`, the pairs of a
thread and a position in its queue (lemma `WaitingFits`).

**No deadlock** (`WritePipelineProofs`, end): `NeverDeadlocked`. `NeverStuck` writes the
guards of the caller, of the compressors and of the writer as state predicates (on the
instance of `write`, TLC finds them equal to `ENABLED` of the three in every reachable state)
and says that one holds until the call returns. TLC's own deadlock check could not see a
deadlock here: a sleeper can always wake up for no reason. The argument is about the circle of
those who wait:

1. threads are started in order, and a compressor is done only when all blocks are claimed
   (`StagesInv`); so, if nobody has a step, the caller waits in its joins, every compressor
   is asleep or done, and so is the writer. It is not stuck before an empty queue
   (`HeadKept`);
2. a block that is claimed and not announced has a compressor at work on it (`CoverInv`);
3. a compressor that sleeps, and that the writer is not about to wake, has a full queue, and
   all blocks in it are older than its own and not stored (`FullQueue`);
4. if the writer is done, all blocks are stored, no queue is full and nobody sleeps. If it
   sleeps, the block it waits for is not announced and nobody is about to notify it
   (`WriterWakeupPending`); every sleeper's block is newer than that one by 3 (and if
   nobody sleeps, all blocks are claimed), so it has been claimed, some compressor works on
   it by 2, and that one is not asleep.

The theorem is the safety core of `Termination`, for every number of threads, blocks and
slots.

**The read pipeline** (`ReadPipelineProofs`): `TypeCorrect`, `SurvivorsFinishTheJob`,
`SuccessIsRead`, `RefinesFill`. The properties speak of the moment the call returns;
the invariant says why they hold of it. Each wanted block below the counter is pasted or
held by exactly one thread (`CoverInv`, `DistinctInv`, `HeldInv`); no thread leaves its loop
before the counter is past the last block, unless it never entered it (`LoopInv`). What is in
the place of a block is the block, or what the code does not notice (`Excused`), or a thread
that came that far has an error; unless zlib took the error back, or has just done so and is
about to paste the block that did (`Accounted`, kept by every step: `StaysAccounted`). That
rests on what a thread may find in its buffers: nothing but blocks of its own, no newer than
the one at hand (`BufferInv`, `FetchedInv`, `PastingInv`).

**Geometry** (`RoundTripProofs`, first half): `IntersectionTest`, the skip test is exact for
all numbers although it takes border blocks for full ones; `IntersectionBounds`, the copied
range is the intersection and lies in the block; `BlockOfVoxel` and `BlockIsUnique`, the
blocks partition the image. The functions that strides and offsets are summed up with (`Cum`,
`Offset`) are recursive functions; their equations (`CumDef`, `SumDef`) come from lemma
`Recursion`, whose induction is over a set of numbers (`InductionUpTo`), since a theorem with
an operator as a parameter cannot be instantiated. Places and coordinates are a number and its digits in a
mixed radix: `DigitsHavePlace`, `PlaceHasDigits`, `OffsetInjective`.

**The round trip** (`RoundTripProofs`, second half): `RoundTripInvariant`, `RowsStayInBounds`,
`BlocksHoldEachVoxelOnce`, `ReadReturnsWhatWasWritten`, `RefinesRegionFill`. Neither side
computes the address of a row: each moves offsets up by a row and, at a carry, by the
difference of two strides. The invariant ties these to the odometer of counters:

1. `CutInv` and `PasteInv`: the counters are inside the block (or its part in the region), and
   each offset is that of the counters' coordinates (`OdometerRow`, `OdometerCarry`: what a
   step of the odometer does to an offset);
2. `BlockInv`, `FileInv`, `PixelsInv`: a block buffer holds the voxels of the rows before the
   counters, a block in the file those of the whole block;
3. `Passed`: a voxel of the region is in the caller's buffer if its block is done, or is the
   present one and the odometer has passed it (`Filled`, `OutInv`); with `OffsetInjective`,
   no row that is written overwrites another.

The invariant is `RoundTripInv`; TLC checked it with images of up to 2 and of up to 3
voxels a dimension before it was proved.

**Headers, objects and files** (`LibraryCallsProofs`): `TypeCorrect`, `LengthsAreRight`,
`TablesHaveOneOwner`, `TablesFit`, `ReadsReturnTheLastWrite`, of all calls in
`LibraryCalls`. The argument has three layers:

1. `Owns(nb, ptr, mem)`: lengths, pointers and tables fit together. It is stated of any
   three values, because `resizeBlockOffset` frees and allocates in one step: `Release`
   (`delete[]`), `Take` (`new[]`) and `Rewrite` (new contents) each keep it and spare the
   tables of others; every operation of a header is one or two of them.
2. `Becomes(h, lives, img, n, table)`: all that a step does to the headers. There is a lemma
   per operation (`AssignStep`, `ReadHeaderStep`, ...), which also gives `HeaderInv'`; nothing
   above it mentions the heap.
3. `ObjectInv(h)`: a call that has begun has what it needs (`HasWhatItNeeds`), a header that
   is current, or being written, fits its sizes (`Fits`; this is
   `TableFitsSizes`), and one that is current agrees with
   a complete file in image, table and last result (`Agrees`). `ReadsLastWrite` alone is not
   inductive: that a read returns the right image needs the table and the length, and
   that a read under way notices a writer (`"torn"` and `current` exclude each other). Wrong
   pixels with a result of 0 can then only come from an image of `Zlib`.
   `Undisturbed` carries it over for the objects that do not act, `ChangeStep` for those
   whose file another object changes.

**Room for what is read** (`LibraryCallsProofs`): `RoomIsEnough`. `RoomInv(h)` follows a
function through what it has left to do (`Todos`): before it makes room its header fits
its sizes, because the `readHeader` before succeeded; once it has made room for more than
nothing, its header has blocks, so the read does not replace it; and only its own
operations change its header (`Apart`), whatever happens to the file.

**Sizes** (`MatlabCallsProofs`): `TypeCorrect`, `FloatsCountExactly`, `ThreadsHaveWork`,
`ArraysAreFilled`, `SlotsHoldBlocks`, `SlotsOfCode`. The theorems hold for any width of float
and integer, hence for 24 bits and 32. What they rest on:

* an integer as a float is the nearest multiple of a power of 2 (`FloatOf`); up to 2^24 it is
  itself (`ToFloatExact`), a greater one is never a smaller float (`ToFloatGrows`), and none below
  2^32 but 0 is 0 (`ToFloatBounds`). So a block size that went through a float is 0
  exactly if less than a pixel was asked for (`ToFloatPixel`);
* the quotient of floats is rounded before `ceil` sees it. `CeilQuotientExact`: up to 2^24 the
  result is that of integers all the same. The rounding error is less than the distance of the
  quotient to the next integer, because the remainder is 1 or more and the denominator is less
  than the mantissa can count. `CeilQuotientPositive`: it is never 0;
* products with a factor of 1 added or removed (`ProductPad`, `ProductRemove`) are the same,
  which is why leaving dimensions out changes no number of pixels.

`MInv` says what a part of a call hands to the next: an image has no blocks if it has no pixels
or its blocks have none, and any other has some (`NumBlocks`), so that the smaller of threads
and blocks is 0 only in the three cases `WorkForAllThreads` names. Of an array of more
dimensions than a header, `PixelSizesAre` says what the loop leaves in the pixel sizes.

`QueuesHoldBlocks` needs more than widths: twice the bytes of a block plus an overhead go
through floats of `Mantissa` bits twice, and what comes back has to be enough for the block
(`RoomToGrow`: the rounding takes less than lies between twice a block and the four thirds
a block may grow to) and a `MaxSlots`th of what an int counts at most. An overhead near
`IntMax` would be rounded away, and a part just below a float would be rounded up. `SlotsHoldBlocks` assumes `Widths`: the
overhead is exact as a float, and the largest block that could fit, rounded as the code rounds
it, does fit. `ToFloat` never reverses an order (`ToFloatGrows`), so this bounds all blocks.
TLC found no widths for which the property holds and `Widths` does not, among those small
enough to try, so it is not stronger than the code needs. `SlotsOfCode` shows that 24 and
32 bits, 50 bytes (`klb_imageIO.cpp:1593-1627`) and 20 slots (`:1280`) satisfy it: the queues
hold all blocks of up to 53,687,066 bytes.

**Reading in Java** (`JavaProofs`): `KlbTypeCorrect`, `NewReadsFit`, `RegionIsTiled`, all from
`KlbInv` (`KlbInvariance`). It says that a call is made once and stays (`CallInv`); that while a
cell is made shorter only the dimension that is cut is, and that this dimension has at least as
many pixels as there are parts (`CutInv`); and that what was read and what is left are the
pieces the image was cut into (`PiecesInv`). The arguments are:

* a dimension that is cut down to one pixel leaves cells that fit an array, because the others
  together have no more pixels than an array (`CutEnough`): shortening never reaches 0;
* `Kept` lists the dimensions longer than 1, and the place of each is the number of those below
  it that are kept (`KeptAt`, `KeptOnly`). A region has no more of them than its image; if the
  loop that maps a cell back into the file does not run past the cell, the two lists are the same
  (`SameKept`, `MappedFacts`), and squeezing out and putting back undo each other;
* the product of all sizes is that of the sizes kept (`ProductOfKept`), so a read has as many
  pixels as its cell (`CellFits`);
* along a dimension a pixel lies in the cell that begins at the last cut before it and in no
  other (`OneCellAlong`), so a pixel of the region is read into one cell (`OneCell`).

**Results in Java** (`JavaProofs`): `ResultsArriveInJava`, an action property, from `JInv`
(`JniInvariance`): before the release, what was read is where native code sees it, and that is
the Java array or its copy.

**Only model-checked:** what the runs of section 5 find violated, and what is **out of the
prover's reach:** liveness under fairness and `ENABLED` (`Termination` of both pipelines,
`AllDelivered`). Every invariant and every action property of a passing run, and each of the
refinements, is stated by a theorem. Induction over data works where it can be said with a set
of numbers, as above. No module declares a RECURSIVE operator.

## 7. Hazards without a property

The list in `PROJECT.json` names for each hazard the properties that would catch
it. For the following none does:

* Of these the code does the wrong thing, so that a property can only name them as an exception:
  the error zlib's reader forgets (`klb_imageIO.cpp:1026`; `SuccessMeansRead`, `ReadsLastWrite`),
  the header that changes between making room and reading (`klb_Cwrapper.cpp:125`;
  `RoomSuffices`), arrays of too many dimensions (`writeKLBstack.cpp:257`; `ArraysFit`).
* Of these no run asks: the result of `fwrite` (`klb_imageIO.cpp:1188`), which the model has and
  the runs exclude (`DiskFaults`); products that no longer fit an int
  (`klb_circularDequeue.cpp:27`), which `QueuesHoldBlocks` stops before; the search that runs
  out of dimensions (`KLB.java:808`), after which no property promises anything.
* These are not modelled: the plane cache (`KlbScifio.java:152`) and the memory zlib keeps
  (`klb_imageIO.cpp:637`).

Some properties stop at a limit that the code does not check: `CountsAreExact` at lengths of
2^24, `QueuesHoldBlocks` where an int no longer counts the bytes of a queue, the geometry at
regions that begin behind the image. What the code does beyond them is no property but a limit
its users have to know.

## 8. Plan

Done, in this order: `Dequeue`/`CircularDequeue` → `WritePipeline` → their proofs →
`BlockGeometry`, `CutBlocks`, `PasteBlocks`, `RoundTrip` → `ReadPipeline` → `ImageHeader` →
`JniBridge` → `JavaRegions` → `ImageFile`, `LibraryCalls` → `FloatSizes`, `MatlabCalls` →
`LibraryCallsProofs` → `ReadPipelineProofs`, storage and refinement in `WritePipelineProofs`,
`RoundTripProofs`, `MatlabCallsProofs`, `JavaProofs`.

Next, the model: the layout of the header (`writeHeader`, `readHeader`,
`getSizeInBytesFixPortion` as sequences of fields, with the format version);
`PlaneCache`, the cache of `KlbScifio.Reader.openPlane`; writing in `KLB.java`.

Next, the proofs: those of these modules. Of the present ones only liveness is left.
