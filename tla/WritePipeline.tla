--------------------------- MODULE WritePipeline ---------------------------
(***************************************************************************)
(* klb_imageIO::writeImage and writeImageStackSlices (src/klb_imageIO.cpp):*)
(* the calling thread opens the file, starts one blockWriter and several   *)
(* blockCompressor threads, joins them and reports the first error.        *)
(*                                                                         *)
(* A compressor claims the next block from the shared counter blockId,     *)
(* compresses it into a slot of its own circular queue, pushes the slot,   *)
(* announces size and thread of the block in g_blockSize/g_blockThreadId   *)
(* under g_lockqueue and notifies g_queuecheck.  The writer waits for the  *)
(* blocks in the order of their ids, copies each from the head of the      *)
(* queue of the thread that announced it into a memory buffer, pops it,    *)
(* and records in blockOffset where it ends.                               *)
(*                                                                         *)
(* As in CircularDequeue a critical section is one action, and notify_all, *)
(* which comes after unlock(), is another.  Pixels are abstracted: block b *)
(* compressed to n bytes is the byte string <<b, 1>> .. <<b, n>>, and what *)
(* the compression library does is a choice among its outcomes.            *)
(***************************************************************************)
EXTENDS Dequeue

CONSTANTS NumBlocks,        \* header.calculateNumBlocks()
          ThreadsWanted,    \* numThreads of the call, or hardware_concurrency()
          QueueFloor,       \* 5 in the code: a queue is this long, ...
          QueueCap,         \* 20 in the code: ... never longer than this
          Sizes,            \* sizes (bytes) a block can compress to
          BufferMaxSize,    \* bufferMaxSize: bytes of the writer's buffer
          CompressionTypes, \* values header.compressionType may have
          StackSlices,      \* TRUE: writeImageStackSlices, FALSE: writeImage
          Volumes,          \* values of xyzct[3] * xyzct[4] the caller may pass
          DiskFaults        \* TRUE: fwrite may write less than it was asked to

ASSUME WritePipelineAssumption ==
    /\ NumBlocks \in Nat \ {0}
    /\ ThreadsWanted \in Nat \ {0}
    /\ QueueFloor \in Nat \ {0}
    /\ QueueCap \in Nat \ {0}
    /\ Sizes \subseteq Nat \ {0}
    /\ BufferMaxSize \in Nat
    /\ \A n \in Sizes : n <= BufferMaxSize      \* klb_imageIO.cpp:1132
    /\ CompressionTypes \subseteq {"NONE", "BZIP2", "ZLIB", "OTHER"}
    /\ StackSlices \in BOOLEAN
    /\ Volumes \subseteq Nat \ {0}
    /\ DiskFaults \in BOOLEAN

VARIABLES
    \* the calling thread, in writeImage
    pcMain,             \* where it is
    result,             \* what the call returned, Running before
    compressionType,    \* header.compressionType, "OTHER": not in the enum
    \* shared by the threads
    blockId,            \* the atomic counter: next block to claim
    cq,                 \* cq[t]: the circular queue of compressor t
    g_blockSize,        \* compressed size of each block, -1: not announced
    g_blockThreadId,    \* which compressor announced it, -1: not announced
    \* the compressors
    pc,                 \* where compressor t is
    blk,                \* blockId_t: the block it works on
    wptr,               \* bufferOutPtr: the slot it writes to
    csize,              \* sizeCompressed
    errFlag,            \* errFlagVec[t]
    \* the writer
    wpc,                \* where it is
    nextBlockId,        \* the block it stores next
    offset,             \* bytes stored so far
    bufferMem,          \* the bytes of bufferMem[0 .. bufferOffset - 1]
    blockOffset,        \* header.blockOffset
    \* the file: header written or not, its offset table, its data, open or not
    fout

mainVars   == <<pcMain, result, compressionType>>
workerVars == <<pc, blk, wptr, csize, errFlag>>
writerVars == <<wpc, nextBlockId, offset, bufferMem, blockOffset, fout>>
boardVars  == <<g_blockSize, g_blockThreadId>>
vars == <<mainVars, blockId, cq, boardVars, workerVars, writerVars>>

-----------------------------------------------------------------------------
Blocks == 0 .. NumBlocks - 1

\* iDivUp: a / b rounded up.
iDivUp(a, b) == IF a % b # 0 THEN a \div b + 1 ELSE a \div b

Smaller(a, b) == IF a < b THEN a ELSE b
Larger(a, b)  == IF a > b THEN a ELSE b

\* No more threads than blocks.
NumThreads == Smaller(ThreadsWanted, NumBlocks)
Workers == 0 .. NumThreads - 1

\* numBlocksPerQueue.
QueueLen == Smaller(Smaller(Larger(NumThreads, QueueFloor), QueueCap),
                    iDivUp(NumBlocks, NumThreads))

\* A slot, a block size or an offset nothing has been written to.
Junk == -1
Unset == -1
Running == -1

\* The n bytes block b compresses to; a slot holds b, and the bytes read from it
\* are those of the block in it.
BytesOf(b, n) == [k \in 1 .. n |-> <<b, k>>]

\* The error codes a compressor leaves, and the outcomes of compressing a block:
\* its size and the error flag after it, given the flag before it.
NoError == 0
ErrorCodes == {NoError, 2, 3, 5}
Stored(flag) == {[size |-> n, flag |-> flag] : n \in Sizes}
Failed(flag) == {[size |-> 0, flag |-> flag]}

\* The switch on header.compressionType.  The zlib branch assigns the result of
\* deflateInit to *errFlag before it compresses, whatever the flag was.
Outcomes(flag) ==
    CASE compressionType = "NONE"  -> Stored(flag)
      [] compressionType = "BZIP2" -> Stored(flag) \cup Failed(2)
      [] compressionType = "ZLIB"  -> Stored(NoError) \cup Failed(3)
      [] compressionType = "OTHER" -> Failed(5)

-----------------------------------------------------------------------------
Init ==
    /\ pcMain = "call"
    /\ result = Running
    /\ compressionType \in CompressionTypes
    /\ blockId = 0
    /\ cq = [t \in Workers |-> NewDequeue(QueueLen, Junk)]
    /\ g_blockSize = [b \in Blocks |-> Unset]
    /\ g_blockThreadId = [b \in Blocks |-> Unset]
    /\ pc = [t \in Workers |-> "off"]
    /\ blk = [t \in Workers |-> 0]
    /\ wptr = [t \in Workers |-> 0]
    /\ csize = [t \in Workers |-> 0]
    /\ errFlag = [t \in Workers |-> NoError]
    /\ wpc = "off"
    /\ nextBlockId = 0
    /\ offset = 0
    /\ bufferMem = <<>>
    /\ blockOffset = [b \in Blocks |-> Junk]
    /\ fout = [header |-> FALSE, table |-> [b \in Blocks |-> Junk],
               data |-> <<>>, open |-> FALSE]

-----------------------------------------------------------------------------
(* The calling thread.                                                     *)

\* writeImageStackSlices refuses an image of several volumes before it opens
\* the file.
RejectDims ==
    /\ pcMain = "call"
    /\ StackSlices
    /\ \E n \in Volumes : n # 1
    /\ pcMain' = "returned"
    /\ result' = 3
    /\ UNCHANGED <<compressionType, blockId, cq, boardVars, workerVars, writerVars>>

DimsAccepted == StackSlices => 1 \in Volumes

OpenFails ==
    /\ pcMain = "call"
    /\ DimsAccepted
    /\ pcMain' = "returned"
    /\ result' = 5
    /\ UNCHANGED <<compressionType, blockId, cq, boardVars, workerVars, writerVars>>

\* fopen succeeds; the writer thread is started first.
StartWriter ==
    /\ pcMain = "call"
    /\ DimsAccepted
    /\ pcMain' = "start"
    /\ fout' = [fout EXCEPT !.open = TRUE]
    /\ wpc' = "header"
    /\ UNCHANGED <<result, compressionType, blockId, cq, boardVars, workerVars,
                   nextBlockId, offset, bufferMem, blockOffset>>

\* The compressors are started one by one, in order.
StartWorker(t) ==
    /\ pcMain = "start"
    /\ \A u \in Workers : pc[u] = "off" <=> u >= t
    /\ pc' = [pc EXCEPT ![t] = "claim"]
    /\ pcMain' = IF t = NumThreads - 1 THEN "join" ELSE "start"
    /\ UNCHANGED <<result, compressionType, blockId, cq, boardVars, blk, wptr,
                   csize, errFlag, writerVars>>

\* Mutant of FirstError: only the first thread is asked.
FirstError_FirstThreadOnly == errFlag[0]

\* The flag the call returns: the first one, in the order of the threads, that
\* is not 0.  The writer's own flag errFlagW is 0 and nothing ever sets it.
FirstError ==
    LET failing == {t \in Workers : errFlag[t] # NoError}
    IN  IF failing = {} THEN NoError
        ELSE errFlag[CHOOSE t \in failing : \A u \in failing : t <= u]

JoinAll ==
    /\ pcMain = "join"
    /\ \A t \in Workers : pc[t] = "done"
    /\ wpc = "done"
    /\ pcMain' = "returned"
    /\ result' = FirstError
    /\ UNCHANGED <<compressionType, blockId, cq, boardVars, workerVars, writerVars>>

-----------------------------------------------------------------------------
(* Compressor t: blockCompressor, blockCompressorStackSlices.              *)

\* Mutant of ClaimBlock: a load and a store, which may lose another's update.
ClaimBlock_NotAtomic(t) ==
    /\ pc[t] = "claim"
    /\ blockId' \in {blockId, blockId + 1}
    /\ IF blockId < NumBlocks
       THEN /\ blk' = [blk EXCEPT ![t] = blockId]
            /\ pc' = [pc EXCEPT ![t] = "reserve"]
       ELSE /\ pc' = [pc EXCEPT ![t] = "done"]
            /\ UNCHANGED blk
    /\ UNCHANGED <<mainVars, cq, boardVars, wptr, csize, errFlag, writerVars>>

\* Mutant of ClaimBlock: the loop ends one block too late.
ClaimBlock_OneTooMany(t) ==
    /\ pc[t] = "claim"
    /\ blockId' = blockId + 1
    /\ IF blockId <= NumBlocks
       THEN /\ blk' = [blk EXCEPT ![t] = blockId]
            /\ pc' = [pc EXCEPT ![t] = "reserve"]
       ELSE /\ pc' = [pc EXCEPT ![t] = "done"]
            /\ UNCHANGED blk
    /\ UNCHANGED <<mainVars, cq, boardVars, wptr, csize, errFlag, writerVars>>

\* atomic_fetch_add on the shared counter, and the test that ends the loop.
ClaimBlock(t) ==
    /\ pc[t] = "claim"
    /\ blockId' = blockId + 1
    /\ IF blockId < NumBlocks
       THEN /\ blk' = [blk EXCEPT ![t] = blockId]
            /\ pc' = [pc EXCEPT ![t] = "reserve"]
       ELSE /\ pc' = [pc EXCEPT ![t] = "done"]
            /\ UNCHANGED blk
    /\ UNCHANGED <<mainVars, cq, boardVars, wptr, csize, errFlag, writerVars>>

\* getWriteBlock: a slot of the thread's own queue, or sleep until there is one.
ReserveSlot(t) ==
    /\ pc[t] = "reserve"
    /\ IF HasRoom(cq[t])
       THEN /\ wptr' = [wptr EXCEPT ![t] = GetWriteBlock(cq[t])]
            /\ pc' = [pc EXCEPT ![t] = "compress"]
       ELSE /\ pc' = [pc EXCEPT ![t] = "asleep"]
            /\ UNCHANGED wptr
    /\ UNCHANGED <<mainVars, blockId, cq, boardVars, blk, csize, errFlag,
                   writerVars>>

\* Mutant of SpuriousWakeup: a wait without predicate, which takes every wakeup
\* for room in the queue.
SpuriousWakeup_NoPredicate(t) ==
    /\ pc[t] = "asleep"
    /\ wptr' = [wptr EXCEPT ![t] = GetWriteBlock(cq[t])]
    /\ pc' = [pc EXCEPT ![t] = "compress"]
    /\ UNCHANGED <<mainVars, blockId, cq, boardVars, blk, csize, errFlag,
                   writerVars>>

SpuriousWakeup(t) ==
    /\ pc[t] = "asleep"
    /\ pc' = [pc EXCEPT ![t] = "reserve"]
    /\ UNCHANGED <<mainVars, blockId, cq, boardVars, blk, wptr, csize, errFlag,
                   writerVars>>

\* The compression switch: the slot is written outside any lock.
Compress(t) ==
    /\ pc[t] = "compress"
    /\ \E o \in Outcomes(errFlag[t]) :
          /\ csize' = [csize EXCEPT ![t] = o.size]
          /\ errFlag' = [errFlag EXCEPT ![t] = o.flag]
    /\ cq' = [cq EXCEPT ![t] = FillBlock(@, wptr[t], blk[t])]
    /\ pc' = [pc EXCEPT ![t] = "push"]
    /\ UNCHANGED <<mainVars, blockId, boardVars, blk, wptr, writerVars>>

PushBlock(t) ==
    /\ pc[t] = "push"
    /\ cq' = [cq EXCEPT ![t] = PushWriteBlock(@)]
    /\ pc' = [pc EXCEPT ![t] = "announce"]
    /\ UNCHANGED <<mainVars, blockId, boardVars, blk, wptr, csize, errFlag,
                   writerVars>>

\* Mutant of Announce: nobody is notified.
Announce_NoNotify(t) ==
    /\ pc[t] = "announce"
    /\ g_blockSize' = [g_blockSize EXCEPT ![blk[t]] = csize[t]]
    /\ g_blockThreadId' = [g_blockThreadId EXCEPT ![blk[t]] = t]
    /\ pc' = [pc EXCEPT ![t] = "claim"]
    /\ UNCHANGED <<mainVars, blockId, cq, blk, wptr, csize, errFlag, writerVars>>

\* Size and thread of the block, under g_lockqueue.
Announce(t) ==
    /\ pc[t] = "announce"
    /\ g_blockSize' = [g_blockSize EXCEPT ![blk[t]] = csize[t]]
    /\ g_blockThreadId' = [g_blockThreadId EXCEPT ![blk[t]] = t]
    /\ pc' = [pc EXCEPT ![t] = "notify"]
    /\ UNCHANGED <<mainVars, blockId, cq, blk, wptr, csize, errFlag, writerVars>>

\* g_queuecheck.notify_all(), after the lock is released.
NotifyWriter(t) ==
    /\ pc[t] = "notify"
    /\ wpc' = IF wpc = "asleep" THEN "check" ELSE wpc
    /\ pc' = [pc EXCEPT ![t] = "claim"]
    /\ UNCHANGED <<mainVars, blockId, cq, boardVars, blk, wptr, csize, errFlag,
                   nextBlockId, offset, bufferMem, blockOffset, fout>>

-----------------------------------------------------------------------------
(* The writer: blockWriter.                                                *)

\* How many of n bytes an fwrite writes; the code never looks.
Written(n) == IF DiskFaults THEN {0, n} ELSE {n}

\* fwrite(bufferMem, 1, bufferOffset, fout), and the buffer is taken for empty.
FlushBuffer ==
    /\ \E n \in Written(Len(bufferMem)) :
          fout' = [fout EXCEPT !.data = @ \o SubSeq(bufferMem, 1, n)]
    /\ bufferMem' = <<>>

\* The header goes out with the table as it is: not initialised yet.
WriteHeader ==
    /\ wpc = "header"
    /\ fout' = [fout EXCEPT !.header = TRUE, !.table = blockOffset]
    /\ wpc' = "check"
    /\ UNCHANGED <<mainVars, blockId, cq, boardVars, workerVars, nextBlockId,
                   offset, bufferMem, blockOffset>>

Available(b) == g_blockSize[b] >= 0 /\ g_blockThreadId[b] >= 0

\* The loop test and the wait on g_queuecheck: test under the lock, or sleep.
CheckNext ==
    /\ wpc = "check"
    /\ wpc' = IF nextBlockId = NumBlocks THEN "lastflush"
              ELSE IF Available(nextBlockId) THEN "flush" ELSE "asleep"
    /\ UNCHANGED <<mainVars, blockId, cq, boardVars, workerVars, nextBlockId,
                   offset, bufferMem, blockOffset, fout>>

\* Mutant of SpuriousWriterWakeup: a wait without predicate, which takes every
\* wakeup for the announcement of the next block.
SpuriousWriterWakeup_NoPredicate ==
    /\ wpc = "asleep"
    /\ wpc' = "flush"
    /\ UNCHANGED <<mainVars, blockId, cq, boardVars, workerVars, nextBlockId,
                   offset, bufferMem, blockOffset, fout>>

SpuriousWriterWakeup ==
    /\ wpc = "asleep"
    /\ wpc' = "check"
    /\ UNCHANGED <<mainVars, blockId, cq, boardVars, workerVars, nextBlockId,
                   offset, bufferMem, blockOffset, fout>>

\* Mutant of FlushIfFull: the block to come is left out of the comparison.
FlushIfFull_TooLate ==
    /\ wpc = "flush"
    /\ IF Len(bufferMem) > BufferMaxSize
       THEN FlushBuffer
       ELSE UNCHANGED <<bufferMem, fout>>
    /\ wpc' = "copy"
    /\ UNCHANGED <<mainVars, blockId, cq, boardVars, workerVars, nextBlockId,
                   offset, blockOffset>>

\* A block that does not fit behind the others sends them to the file first.
FlushIfFull ==
    /\ wpc = "flush"
    /\ IF Len(bufferMem) + g_blockSize[nextBlockId] > BufferMaxSize
       THEN FlushBuffer
       ELSE UNCHANGED <<bufferMem, fout>>
    /\ wpc' = "copy"
    /\ UNCHANGED <<mainVars, blockId, cq, boardVars, workerVars, nextBlockId,
                   offset, blockOffset>>

\* The queue of the thread that announced the next block, and its read block.
Source == g_blockThreadId[nextBlockId]
ReadPtr == GetReadBlock(cq[Source])

\* memcpy(&bufferMem[bufferOffset], cq[..]->getReadBlock(), blockSize): outside
\* the lock; NULL is no block and would end the process.
CopyBlock ==
    /\ wpc = "copy"
    /\ ReadPtr # NullPtr
    /\ bufferMem' = bufferMem \o BytesOf(cq[Source].dataBuffer[ReadPtr],
                                         g_blockSize[nextBlockId])
    /\ wpc' = "pop"
    /\ UNCHANGED <<mainVars, blockId, cq, boardVars, workerVars, nextBlockId,
                   offset, blockOffset, fout>>

\* Mutant of PopBlock: the block is released and nobody is notified.
PopBlock_NoNotify ==
    /\ wpc = "pop"
    /\ cq' = [cq EXCEPT ![Source] = PopReadBlock(@)]
    /\ wpc' = "record"
    /\ UNCHANGED <<mainVars, blockId, boardVars, workerVars, nextBlockId,
                   offset, bufferMem, blockOffset, fout>>

\* popReadBlock up to unlock().
PopBlock ==
    /\ wpc = "pop"
    /\ cq' = [cq EXCEPT ![Source] = PopReadBlock(@)]
    /\ wpc' = IF cq[Source].numTaken > 0 THEN "notify" ELSE "record"
    /\ UNCHANGED <<mainVars, blockId, boardVars, workerVars, nextBlockId,
                   offset, bufferMem, blockOffset, fout>>

\* Mutant of NotifyCompressor: a notify_all on another condition variable.
NotifyCompressor_WrongCondition ==
    /\ wpc = "notify"
    /\ wpc' = "record"
    /\ UNCHANGED <<mainVars, blockId, cq, boardVars, workerVars, nextBlockId,
                   offset, bufferMem, blockOffset, fout>>

\* Its notify_all: only thread Source ever waits on g_writeWait of that queue.
NotifyCompressor ==
    /\ wpc = "notify"
    /\ pc' = [pc EXCEPT ![Source] = IF @ = "asleep" THEN "reserve" ELSE @]
    /\ wpc' = "record"
    /\ UNCHANGED <<mainVars, blockId, cq, boardVars, blk, wptr, csize, errFlag,
                   nextBlockId, offset, bufferMem, blockOffset, fout>>

\* Mutant of RecordOffset: the offset is recorded before the size is added.
RecordOffset_Start ==
    /\ wpc = "record"
    /\ offset' = offset + g_blockSize[nextBlockId]
    /\ blockOffset' = [blockOffset EXCEPT ![nextBlockId] = offset]
    /\ nextBlockId' = nextBlockId + 1
    /\ wpc' = "check"
    /\ UNCHANGED <<mainVars, blockId, cq, boardVars, workerVars, bufferMem, fout>>

\* offset += blockSize; blockOffset[nextBlockId] = offset; nextBlockId++.
RecordOffset ==
    /\ wpc = "record"
    /\ offset' = offset + g_blockSize[nextBlockId]
    /\ blockOffset' = [blockOffset EXCEPT ![nextBlockId] = offset']
    /\ nextBlockId' = nextBlockId + 1
    /\ wpc' = "check"
    /\ UNCHANGED <<mainVars, blockId, cq, boardVars, workerVars, bufferMem, fout>>

LastFlush ==
    /\ wpc = "lastflush"
    /\ FlushBuffer
    /\ wpc' = "table"
    /\ UNCHANGED <<mainVars, blockId, cq, boardVars, workerVars, nextBlockId,
                   offset, blockOffset>>

\* Back to the fixed part of the header: the table, now complete.
WriteTable ==
    /\ wpc = "table"
    /\ \E t \in {blockOffset} \cup (IF DiskFaults THEN {fout.table} ELSE {}) :
          fout' = [fout EXCEPT !.table = t]
    /\ wpc' = "close"
    /\ UNCHANGED <<mainVars, blockId, cq, boardVars, workerVars, nextBlockId,
                   offset, bufferMem, blockOffset>>

CloseFile ==
    /\ wpc = "close"
    /\ fout' = [fout EXCEPT !.open = FALSE]
    /\ wpc' = "done"
    /\ UNCHANGED <<mainVars, blockId, cq, boardVars, workerVars, nextBlockId,
                   offset, bufferMem, blockOffset>>

-----------------------------------------------------------------------------
Main == RejectDims \/ OpenFails \/ StartWriter \/ JoinAll
        \/ \E t \in Workers : StartWorker(t)

Compressor(t) == ClaimBlock(t) \/ ReserveSlot(t) \/ Compress(t) \/ PushBlock(t)
                 \/ Announce(t) \/ NotifyWriter(t)

Writer == WriteHeader \/ CheckNext \/ FlushIfFull \/ CopyBlock \/ PopBlock
          \/ NotifyCompressor \/ RecordOffset \/ LastFlush \/ WriteTable
          \/ CloseFile

\* The call has returned: nothing is left to happen.
Finished == pcMain = "returned" /\ UNCHANGED vars

Next == \/ Main
        \/ \E t \in Workers : Compressor(t) \/ SpuriousWakeup(t)
        \/ Writer
        \/ SpuriousWriterWakeup
        \/ Finished

Spec == Init /\ [][Next]_vars

\* Each thread that can take a step takes one in the end: the scheduler runs
\* every thread, and a mutex that is released for ever again is acquired.
\* Nothing is assumed of spurious wakeups.
FairSpec == /\ Spec
            /\ WF_vars(Main)
            /\ WF_vars(Writer)
            /\ \A t \in Workers : WF_vars(Compressor(t))

-----------------------------------------------------------------------------
(* Properties.                                                             *)

Offsets == [Blocks -> Nat \cup {Junk}]

TypeOK ==
    /\ pcMain \in {"call", "start", "join", "returned"}
    /\ result \in ErrorCodes \cup {Running}
    /\ compressionType \in CompressionTypes
    /\ blockId \in Nat
    /\ DOMAIN cq = Workers
    /\ \A t \in Workers : WellFormed(cq[t], QueueLen, Blocks \cup {Junk})
    /\ g_blockSize \in [Blocks -> Sizes \cup {0, Unset}]
    /\ g_blockThreadId \in [Blocks -> Workers \cup {Unset}]
    /\ pc \in [Workers -> {"off", "claim", "reserve", "asleep", "compress",
                           "push", "announce", "notify", "done"}]
    /\ blk \in [Workers -> Blocks]
    /\ wptr \in [Workers -> 0 .. QueueLen - 1]
    /\ csize \in [Workers -> Sizes \cup {0}]
    /\ errFlag \in [Workers -> ErrorCodes]
    /\ wpc \in {"off", "header", "check", "asleep", "flush", "copy", "pop",
                "notify", "record", "lastflush", "table", "close", "done"}
    /\ nextBlockId \in 0 .. NumBlocks
    /\ offset \in Nat
    /\ bufferMem \in Seq((Blocks \cup {Junk}) \X Nat)
    /\ blockOffset \in Offsets
    /\ fout \in [header : BOOLEAN, table : Offsets,
                 data : Seq((Blocks \cup {Junk}) \X Nat), open : BOOLEAN]

\* When the writer has found a block announced, that block is the head of the
\* queue of the thread that announced it, until the writer pops it: getReadBlock
\* is never NULL (klb_imageIO.cpp:1171 copies through it unchecked) and is never
\* another block, although each queue mixes blocks of any ids.
HeadIsNext ==
    wpc \in {"flush", "copy", "pop"} =>
        /\ Source \in Workers
        /\ ReadPtr # NullPtr
        /\ cq[Source].dataBuffer[ReadPtr] = nextBlockId

\* No compressor writes the slot the writer is copying from, although both use
\* their pointers outside the queue's lock (klb_imageIO.cpp:169-246, :1171).
SlotExclusive ==
    \A t \in Workers :
        ~ ( /\ pc[t] \in {"compress", "push"}
            /\ wpc \in {"copy", "pop"}
            /\ Source = t
            /\ wptr[t] = ReadPtr )

\* If the writer sleeps although the block it waits for has been announced, the
\* thread that announced it has still to notify it (klb_imageIO.cpp:254-259).
WriterWakeupPending ==
    wpc = "asleep" /\ Available(nextBlockId) => \E t \in Workers : pc[t] = "notify"

\* If a compressor sleeps although its queue has room, the writer has still to
\* notify it (klb_circularDequeue.cpp:89-90): no third thread would.
CompressorWakeupPending ==
    \A t \in Workers :
        pc[t] = "asleep" /\ HasRoom(cq[t]) => wpc = "notify" /\ Source = t

\* The memory buffer never holds more than it was allocated for, whatever sizes
\* the blocks compress to (klb_imageIO.cpp:1131-1133, :1164-1172).
BufferFits == Len(bufferMem) <= BufferMaxSize

\* The writer reads size and thread of the next block without the lock after
\* the wait (klb_imageIO.cpp:1160-1178): what is announced never changes again,
\* since no block is claimed by two compressors.
AnnouncedOnce ==
    [][ \A b \in Blocks :
            Available(b) => /\ g_blockSize'[b] = g_blockSize[b]
                            /\ g_blockThreadId'[b] = g_blockThreadId[b] ]_vars

\* getBlockOffset and getBlockCompressedSizeBytes of the header (a reader's
\* view of a table), and the bytes a reader then finds in the data, which may end
\* before the block does.
getBlockOffset(table, b) == IF b = 0 THEN 0 ELSE table[b - 1]
getBlockCompressedSizeBytes(table, b) ==
    IF b = 0 THEN table[b] ELSE table[b] - table[b - 1]
BlockBytes(table, data, b) ==
    LET from == getBlockOffset(table, b)
        to   == from + getBlockCompressedSizeBytes(table, b)
    IN  SubSeq(data, from + 1, Smaller(to, Len(data)))

\* At every moment the offsets recorded so far find, in what has gone to the
\* file and the buffer, exactly the bytes each block was compressed to: flushes,
\* empty blocks and the order of the threads do not move them.  A process that
\* stops then leaves a file whose table either was never written or finds every
\* block in the file: the table goes out last (klb_imageIO.cpp:1188-1192).
BlocksAreFound ==
    /\ \A b \in 0 .. nextBlockId - 1 :
          BlockBytes(blockOffset, fout.data \o bufferMem, b)
              = BytesOf(b, g_blockSize[b])
    /\ (\E b \in Blocks : fout.table[b] # Junk) =>
          \A b \in Blocks :
              BlockBytes(fout.table, fout.data, b) = BytesOf(b, g_blockSize[b])

\* A call that returns 0 has left a closed file in which every block is there.
\* Callers decide on this alone whether the image was written (the error switch
\* of klb_Cwrapper.cpp:33-46, and the tests' "if (err > 0) return").
SuccessMeansStored ==
    result = NoError =>
        /\ fout.header /\ ~fout.open
        /\ \A b \in Blocks :
              /\ g_blockSize[b] > 0
              /\ BlockBytes(fout.table, fout.data, b) = BytesOf(b, g_blockSize[b])

\* So it is as long as fwrite writes and no later block's result takes the place
\* of an earlier one's, as with zlib: an error of any block and any thread comes
\* back from the call (klb_imageIO.cpp:1318-1324).
SuccessMeansStoredUnlessZlib ==
    ~DiskFaults /\ compressionType # "ZLIB" => SuccessMeansStored

\* The whole pipeline is a reorder buffer of bounded capacity: a block is ready
\* when it is announced and stored when the writer has popped it.
Reorder == INSTANCE ReorderBuffer WITH
    Capacity <- NumThreads * QueueLen,
    ready    <- {b \in Blocks : Available(b)},
    stored   <- IF wpc \in {"notify", "record"} THEN nextBlockId + 1 ELSE nextBlockId,
    returned <- (pcMain = "returned")
ImplementsReorderBuffer == Reorder!Spec

\* The call returns, whatever the threads' speeds, the errors of compression and
\* the faults of the disk: compressors blocked on full queues and the writer
\* waiting for one particular block never wait for each other.
Termination == <>(pcMain = "returned")
=============================================================================
