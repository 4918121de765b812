------------------------ MODULE WritePipelineProofs ------------------------
(***************************************************************************)
(* The safety of WritePipeline for every number of blocks and threads,     *)
(* every queue length and every set of compressed sizes: first the order   *)
(* in which blocks pass the queues, then what ends up in the file.         *)
(*                                                                         *)
(* HeadIsNext and SlotExclusive are far from inductive.  They hold because *)
(* the shared counter hands every block to one compressor in increasing    *)
(* order, so that each queue holds increasing blocks; because a block is   *)
(* in its queue from before its announcement until it is popped; and       *)
(* because the writer pops the blocks in order, so that the next block, if *)
(* announced, is the smallest block of any queue.  IInv says so.           *)
(***************************************************************************)
EXTENDS WritePipeline, Lemmas, FiniteSetTheorems, SequenceTheorems

\* The division that sizes the queues: at least one slot.
LEMMA iDivUpPositive ==
    ASSUME NEW a \in Nat \ {0}, NEW b \in Nat \ {0}
    PROVE  iDivUp(a, b) \in Nat \ {0}
<1>1. CASE a < b
  <2>1. a \div b = 0 /\ (a % b) # 0
    BY <1>1
  <2> QED
    BY <2>1 DEF iDivUp
<1>2. CASE a >= b
  <2>1. a \div b \in Int /\ a \div b >= 1
    BY <1>2
  <2> QED
    BY <2>1 DEF iDivUp
<1> QED
  BY <1>1, <1>2

\* There is a compressor, and its queue has a slot.
LEMMA Dimensions ==
    /\ NumThreads \in Nat \ {0}
    /\ QueueLen \in Nat \ {0}
<1>1. /\ NumBlocks \in Nat \ {0} /\ ThreadsWanted \in Nat \ {0}
      /\ QueueFloor \in Nat \ {0} /\ QueueCap \in Nat \ {0}
  BY WritePipelineAssumption
<1>2. NumThreads \in Nat \ {0}
  BY <1>1 DEF NumThreads, Smaller
<1>3. iDivUp(NumBlocks, NumThreads) \in Nat \ {0}
  BY <1>1, <1>2, iDivUpPositive
<1>4. Smaller(Larger(NumThreads, QueueFloor), QueueCap) \in Nat \ {0}
  BY <1>1, <1>2 DEF Smaller, Larger
<1>5. QueueLen \in Nat \ {0}
  BY <1>3, <1>4 DEF QueueLen, Smaller
<1> QED
  BY <1>2, <1>5

-----------------------------------------------------------------------------
(* The inductive invariant.                                                *)

\* A compressor has claimed a block and not announced it yet.
Working == {"reserve", "asleep", "compress", "push", "announce"}

\* The blocks below this one have been popped.
Popped == IF wpc \in {"notify", "record"} THEN nextBlockId + 1 ELSE nextBlockId

\* The i-th oldest block in the queue of compressor t.
Queued(t, i) == Contents(cq[t])[i]

\* Size and thread of a block are set together, and only for claimed blocks;
\* whatever has been popped was announced.
BoardInv ==
    \A b \in Blocks :
        /\ g_blockSize[b] = Unset <=> g_blockThreadId[b] = Unset
        /\ b >= blockId => g_blockThreadId[b] = Unset
        /\ b < Popped => g_blockThreadId[b] # Unset

\* A block being worked on has been claimed and is not announced, ...
ClaimInv ==
    \A t \in Workers :
        pc[t] \in Working => blk[t] < blockId /\ g_blockThreadId[blk[t]] = Unset

\* ... and one compressor works on it.
DistinctInv ==
    \A t, u \in Workers :
        pc[t] \in Working /\ pc[u] \in Working /\ t # u => blk[t] # blk[u]

\* A queue holds increasing blocks, not popped yet, smaller than the one its
\* compressor works on, and announced but for the one pushed last.
QueueInv ==
    \A t \in Workers :
        /\ \A i, j \in 1 .. cq[t].numTaken : i < j => Queued(t, i) < Queued(t, j)
        /\ \A i \in 1 .. cq[t].numTaken :
              /\ Queued(t, i) \in Blocks
              /\ Queued(t, i) >= Popped
              /\ pc[t] \in Working \ {"announce"} => Queued(t, i) < blk[t]
              /\ \/ g_blockThreadId[Queued(t, i)] = t
                 \/ pc[t] = "announce" /\ Queued(t, i) = blk[t]

\* What is about to be announced is in the queue, ...
PushedInv ==
    \A t \in Workers :
        pc[t] = "announce" =>
            /\ cq[t].numTaken > 0
            /\ Queued(t, cq[t].numTaken) = blk[t]

\* ... and what has been announced stays there until it is popped.
AnnouncedInv ==
    \A t \in Workers : \A b \in Blocks :
        g_blockThreadId[b] = t /\ b >= Popped =>
            \E i \in 1 .. cq[t].numTaken : Queued(t, i) = b

\* The slot a compressor writes is the one it pushes next.
SlotInv ==
    \A t \in Workers :
        /\ pc[t] \in {"compress", "push"} => HasRoom(cq[t]) /\ wptr[t] = cq[t].writeIdx
        /\ pc[t] = "push" => cq[t].dataBuffer[wptr[t]] = blk[t]

\* The writer goes on with a block only when it is announced, ...
WriterInv ==
    wpc \in {"flush", "copy", "pop", "notify", "record"} =>
        /\ nextBlockId \in Blocks
        /\ g_blockThreadId[nextBlockId] \in Workers

\* ... and copies it only where it fits.
RoomInv ==
    wpc = "copy" => Len(bufferMem) + g_blockSize[nextBlockId] <= BufferMaxSize

Core == /\ BoardInv
        /\ ClaimInv
        /\ DistinctInv
        /\ QueueInv
        /\ PushedInv
        /\ AnnouncedInv
        /\ SlotInv
        /\ WriterInv

\* The writer is started once.
StartInv == pcMain = "call" => wpc = "off"

IInv == /\ TypeOK
        /\ Core
        /\ StartInv
        /\ BufferFits
        /\ RoomInv
        /\ WriterWakeupPending
        /\ CompressorWakeupPending

-----------------------------------------------------------------------------
(* Facts every proof below starts from.                                    *)

Values == Blocks \cup {Junk}

\* What the types say of the queues.
LEMMA QueueFacts ==
    ASSUME TypeOK
    PROVE  \A t \in Workers :
               /\ WellFormed(cq[t], QueueLen, Values)
               /\ cq[t].numTaken \in Nat
               /\ cq[t].numTaken <= QueueLen
               /\ cq[t].numBlocks = QueueLen
<1>1. \A t \in Workers : WellFormed(cq[t], QueueLen, Values)
  BY DEF TypeOK, Values
<1>2. QueueLen \in Nat
  BY Dimensions
<1> QED
  BY <1>1, <1>2 DEF WellFormed

\* The values of the model that are numbers are numbers, and none is a mark.
LEMMA NumberFacts ==
    /\ Blocks \subseteq Nat
    /\ Workers \subseteq Nat
    /\ 0 \in Workers /\ 0 \in Blocks
    /\ Unset \notin Workers
    /\ \A n \in Sizes \cup {0} : n \in Nat /\ n # Unset /\ n <= BufferMaxSize
BY Dimensions, WritePipelineAssumption DEF Blocks, Workers, Unset

\* What TypeOK says of the state the compressors work on.
PcValues == {"off", "claim", "reserve", "asleep", "compress", "push", "announce",
             "notify", "done"}

\* What the invariant says of the variables, each on a line.
LEMMA TypeFacts ==
    ASSUME IInv
    PROVE  /\ TypeOK /\ Core
           /\ blockId \in Nat
           /\ DOMAIN cq = Workers
           /\ pc \in [Workers -> PcValues]
           /\ blk \in [Workers -> Blocks]
           /\ wptr \in [Workers -> 0 .. QueueLen - 1]
           /\ g_blockSize \in [Blocks -> Sizes \cup {0, Unset}]
           /\ g_blockThreadId \in [Blocks -> Workers \cup {Unset}]
           /\ Blocks \subseteq Nat
           /\ nextBlockId \in Nat
           /\ Popped \in Nat
<1>1. TypeOK /\ Core
  BY DEF IInv
<1>2. nextBlockId \in Nat
  <2>1. nextBlockId \in 0 .. NumBlocks
    BY <1>1 DEF TypeOK
  <2> QED
    BY <2>1, WritePipelineAssumption
<1>3. Popped \in Nat
  BY <1>2 DEF Popped
<1> QED
  BY <1>1, <1>2, <1>3, NumberFacts DEF TypeOK, PcValues

\* A step that leaves the blocks in the queues, the announcements, the claimed
\* blocks and what has been popped alone keeps what is said about them.
LEMMA QuietStep ==
    ASSUME TypeOK, Core,
           UNCHANGED <<boardVars, blk>>,
           blockId' \in Nat, blockId' >= blockId,
           Popped' = Popped,
           \A t \in Workers : /\ Contents(cq'[t]) = Contents(cq[t])
                              /\ cq'[t].numTaken = cq[t].numTaken
                              /\ pc'[t] \in Working <=> pc[t] \in Working
                              /\ pc'[t] = "announce" <=> pc[t] = "announce",
           SlotInv', WriterInv'
    PROVE  Core'
<1>1. /\ blockId \in Nat /\ blk \in [Workers -> Blocks] /\ Blocks \subseteq Nat
      /\ g_blockThreadId' = g_blockThreadId /\ g_blockSize' = g_blockSize /\ blk' = blk
  BY NumberFacts DEF TypeOK, boardVars
<1>2. \A t \in Workers : \A i : Queued(t, i)' = Queued(t, i)
  BY DEF Queued
<1>3. BoardInv'
  <2>1. \A b \in Blocks : b >= blockId' => b >= blockId
    BY <1>1
  <2> QED
    BY <1>1, <2>1 DEF Core, BoardInv
<1>4. ClaimInv'
  <2>1. \A t \in Workers : blk[t] < blockId => blk[t] < blockId'
    <3>1. \A t \in Workers : blk[t] \in Nat
      BY <1>1
    <3> QED
      BY <1>1, <3>1
  <2> QED
    BY <1>1, <2>1 DEF Core, ClaimInv
<1>5. DistinctInv'
  BY <1>1 DEF Core, DistinctInv
<1>6. QueueInv'
  BY <1>1, <1>2 DEF Core, QueueInv
<1>7. PushedInv'
  BY <1>1, <1>2 DEF Core, PushedInv
<1>8. AnnouncedInv'
  BY <1>1, <1>2 DEF Core, AnnouncedInv
<1> QED
  BY <1>3, <1>4, <1>5, <1>6, <1>7, <1>8 DEF Core

-----------------------------------------------------------------------------
(* The steps that do change it.                                            *)

\* Claiming: the block claimed is larger than any other claimed before.
LEMMA ClaimStep ==
    ASSUME IInv, NEW t \in Workers, ClaimBlock(t)
    PROVE  Core'
<1>0. /\ TypeOK /\ Core
      /\ blockId \in Nat /\ blk \in [Workers -> Blocks] /\ Blocks \subseteq Nat
      /\ pc \in [Workers -> PcValues]
      /\ pc[t] = "claim" /\ blockId' = blockId + 1
      /\ UNCHANGED <<cq, wptr, wpc, nextBlockId, g_blockSize, g_blockThreadId>>
  BY TypeFacts DEF ClaimBlock, boardVars, writerVars
<1>1. Popped' = Popped /\ WriterInv'
  BY <1>0 DEF Core, Popped, WriterInv
<1>2. CASE blockId >= NumBlocks
  <2>1. blk' = blk /\ pc' = [pc EXCEPT ![t] = "done"]
    <3>1. ~(blockId < NumBlocks)
      BY <1>0, <1>2, WritePipelineAssumption
    <3> QED
      BY <3>1 DEF ClaimBlock
  <2>2. SlotInv'
    BY <1>0, <2>1 DEF Core, SlotInv
  <2>3. \A u \in Workers : /\ pc'[u] \in Working <=> pc[u] \in Working
                           /\ pc'[u] = "announce" <=> pc[u] = "announce"
    BY <1>0, <2>1 DEF Working
  <2> QED
    BY <1>0, <1>1, <2>1, <2>2, <2>3, QuietStep DEF boardVars
<1>3. CASE blockId < NumBlocks
  <2>1. /\ blk' = [blk EXCEPT ![t] = blockId]
        /\ pc' = [pc EXCEPT ![t] = "reserve"]
        /\ blockId \in Blocks
    BY <1>0, <1>3, WritePipelineAssumption DEF ClaimBlock, Blocks
  <2>2. \A u \in Workers : \A i : Queued(u, i)' = Queued(u, i)
    BY <1>0 DEF Queued
  <2>3. g_blockThreadId[blockId] = Unset
    BY <1>0, <2>1 DEF Core, BoardInv
  <2>4. BoardInv'
    <3>1. \A b \in Blocks : b >= blockId' => b >= blockId
      BY <1>0
    <3> QED
      BY <1>0, <1>1, <3>1 DEF Core, BoardInv
  <2>5. ClaimInv' /\ DistinctInv'
    <3>1. \A u \in Workers : u # t /\ pc[u] \in Working =>
              /\ blk[u] < blockId
              /\ blk[u] # blockId
              /\ blk[u] < blockId'
              /\ g_blockThreadId[blk[u]] = Unset
      <4>1. \A u \in Workers : blk[u] \in Nat
        BY <1>0
      <4> QED
        BY <1>0, <4>1 DEF Core, ClaimInv
    <3>2. \A u \in Workers : u # t => blk'[u] = blk[u] /\ pc'[u] = pc[u]
      BY <1>0, <2>1
    <3>3. blk'[t] = blockId /\ blockId < blockId'
      BY <1>0, <2>1
    <3> QED
      BY <1>0, <2>3, <3>1, <3>2, <3>3 DEF ClaimInv, DistinctInv, Core
  <2>6. QueueInv'
    <3>1. \A i \in 1 .. cq[t].numTaken : Queued(t, i) < blockId
      <4>1. \A i \in 1 .. cq[t].numTaken :
                Queued(t, i) \in Blocks /\ g_blockThreadId[Queued(t, i)] = t
        BY <1>0 DEF Core, QueueInv
      <4>2. \A b \in Blocks : b >= blockId => g_blockThreadId[b] # t
        BY <1>0, NumberFacts DEF Core, BoardInv
      <4>3. \A b \in Blocks : b < blockId \/ b >= blockId
        BY <1>0
      <4> QED
        BY <4>1, <4>2, <4>3
    <3>2. /\ \A u \in Workers : u # t => blk'[u] = blk[u] /\ pc'[u] = pc[u]
          /\ blk'[t] = blockId /\ pc'[t] = "reserve"
      BY <1>0, <2>1
    <3> QED
      BY <1>0, <1>1, <2>2, <3>1, <3>2 DEF Core, QueueInv
  <2>7. PushedInv'
    BY <1>0, <2>1, <2>2 DEF Core, PushedInv
  <2>8. AnnouncedInv'
    BY <1>0, <1>1, <2>2 DEF Core, AnnouncedInv
  <2>9. SlotInv'
    BY <1>0, <2>1 DEF Core, SlotInv
  <2> QED
    BY <1>1, <2>4, <2>5, <2>6, <2>7, <2>8, <2>9 DEF Core
<1> QED
  BY <1>0, <1>2, <1>3, WritePipelineAssumption

\* getWriteBlock hands out the slot that is pushed next, while there is room.
LEMMA ReserveStep ==
    ASSUME IInv, NEW t \in Workers, ReserveSlot(t)
    PROVE  Core'
<1>0. /\ TypeOK /\ Core
      /\ blockId \in Nat /\ blockId' = blockId /\ blk' = blk
      /\ pc \in [Workers -> PcValues] /\ wptr \in [Workers -> 0 .. QueueLen - 1]
      /\ pc[t] = "reserve"
      /\ UNCHANGED <<cq, wpc, nextBlockId, g_blockSize, g_blockThreadId>>
  BY TypeFacts DEF ReserveSlot, boardVars, writerVars
<1>1. Popped' = Popped /\ WriterInv'
  BY <1>0 DEF Core, Popped, WriterInv
<1>2. /\ \A u \in Workers : u # t => pc'[u] = pc[u] /\ wptr'[u] = wptr[u]
      /\ pc'[t] \in {"compress", "asleep"}
      /\ pc'[t] = "compress" => HasRoom(cq[t]) /\ wptr'[t] = cq[t].writeIdx
  BY <1>0 DEF ReserveSlot, GetWriteBlock
<1>3. SlotInv'
  BY <1>0, <1>2 DEF Core, SlotInv
<1>4. \A u \in Workers : /\ pc'[u] \in Working <=> pc[u] \in Working
                         /\ pc'[u] = "announce" <=> pc[u] = "announce"
  BY <1>0, <1>2 DEF Working
<1> QED
  BY <1>0, <1>1, <1>3, <1>4, QuietStep DEF boardVars

\* Compressing fills that slot and no other.
LEMMA CompressStep ==
    ASSUME IInv, NEW t \in Workers, Compress(t)
    PROVE  Core'
<1>0. /\ TypeOK /\ Core
      /\ blockId \in Nat /\ blockId' = blockId /\ blk' = blk
      /\ blk \in [Workers -> Blocks]
      /\ pc \in [Workers -> PcValues] /\ pc[t] = "compress"
      /\ pc' = [pc EXCEPT ![t] = "push"]
      /\ DOMAIN cq = Workers
      /\ cq' = [cq EXCEPT ![t] = FillBlock(cq[t], wptr[t], blk[t])]
      /\ UNCHANGED <<wptr, wpc, nextBlockId, g_blockSize, g_blockThreadId>>
  BY TypeFacts DEF Compress, boardVars, writerVars
<1>1. Popped' = Popped /\ WriterInv'
  BY <1>0 DEF Core, Popped, WriterInv
<1>2. /\ HasRoom(cq[t]) /\ wptr[t] = cq[t].writeIdx
      /\ WellFormed(cq[t], QueueLen, Values)
      /\ QueueLen \in Nat \ {0}
      /\ blk[t] \in Values
  BY <1>0, QueueFacts, Dimensions DEF Core, SlotInv, Values
<1>3. /\ cq'[t] = FillBlock(cq[t], cq[t].writeIdx, blk[t])
      /\ \A u \in Workers : u # t => cq'[u] = cq[u]
  BY <1>0, <1>2
<1>4. /\ Contents(cq'[t]) = Contents(cq[t])
      /\ cq'[t].numTaken = cq[t].numTaken
      /\ cq'[t].dataBuffer[cq[t].writeIdx] = blk[t]
  BY <1>2, <1>3, FillPreserves
<1>5. cq'[t].writeIdx = cq[t].writeIdx /\ cq'[t].numBlocks = cq[t].numBlocks
  BY <1>2, <1>3 DEF FillBlock, WellFormed
<1>6. SlotInv'
  <2>1. HasRoom(cq'[t])
    BY <1>2, <1>4, <1>5 DEF HasRoom
  <2>2. pc'[t] = "push" /\ \A u \in Workers : u # t => pc'[u] = pc[u]
    BY <1>0
  <2> QED
    BY <1>0, <1>2, <1>3, <1>4, <1>5, <2>1, <2>2 DEF Core, SlotInv
<1>7. \A u \in Workers : /\ Contents(cq'[u]) = Contents(cq[u])
                         /\ cq'[u].numTaken = cq[u].numTaken
                         /\ pc'[u] \in Working <=> pc[u] \in Working
                         /\ pc'[u] = "announce" <=> pc[u] = "announce"
  BY <1>0, <1>3, <1>4 DEF Working
<1> QED
  BY <1>0, <1>1, <1>6, <1>7, QuietStep DEF boardVars

\* Pushing appends the compressor's block, which is larger than the others and
\* has not been popped since it is not even announced.
LEMMA PushStep ==
    ASSUME IInv, NEW t \in Workers, PushBlock(t)
    PROVE  Core'
<1> DEFINE After(i) == Contents(cq'[t])[i]
           last == cq[t].numTaken + 1
<1>0. /\ TypeOK /\ Core
      /\ blk \in [Workers -> Blocks] /\ Blocks \subseteq Nat
      /\ pc \in [Workers -> PcValues] /\ pc[t] = "push"
      /\ pc' = [pc EXCEPT ![t] = "announce"]
      /\ DOMAIN cq = Workers
      /\ cq' = [cq EXCEPT ![t] = PushWriteBlock(cq[t])]
      /\ UNCHANGED <<blockId, blk, wptr, wpc, nextBlockId,
                     g_blockSize, g_blockThreadId>>
  BY TypeFacts DEF PushBlock, boardVars, writerVars
<1>1. Popped' = Popped /\ WriterInv'
  BY <1>0 DEF Core, Popped, WriterInv
<1>2. /\ HasRoom(cq[t])
      /\ cq[t].dataBuffer[cq[t].writeIdx] = blk[t]
      /\ WellFormed(cq[t], QueueLen, Values)
      /\ QueueLen \in Nat \ {0}
      /\ cq[t].numTaken \in Nat
  BY <1>0, QueueFacts, Dimensions DEF Core, SlotInv
<1>3. /\ cq'[t] = PushWriteBlock(cq[t])
      /\ \A u \in Workers : u # t => cq'[u] = cq[u] /\ pc'[u] = pc[u]
      /\ pc'[t] = "announce"
  BY <1>0
<1>4. cq'[t].numTaken = cq[t].numTaken + 1
  <2>1. PushWriteBlock(cq[t]).numTaken = cq[t].numTaken + 1
    BY <1>2 DEF PushWriteBlock, WellFormed
  <2> QED
    BY <1>3, <2>1
<1>5. /\ \A u \in Workers : \A i : u # t => Contents(cq'[u])[i] = Queued(u, i)
      /\ \A i \in 1 .. cq[t].numTaken : After(i) = Queued(t, i)
      /\ After(last) = blk[t]
  <2>1. \A i \in 1 .. last :
            After(i) = IF i = last THEN cq[t].dataBuffer[cq[t].writeIdx]
                                   ELSE Contents(cq[t])[i]
    BY <1>2, <1>3, PushElements
  <2>2. /\ \A i \in 1 .. cq[t].numTaken : i \in 1 .. last /\ i # last
        /\ last \in 1 .. last
    BY <1>2
  <2> HIDE DEF After, last
  <2> QED
    BY <1>2, <1>3, <2>1, <2>2 DEF Queued
<1>6. blk[t] >= Popped
  <2>1. g_blockThreadId[blk[t]] = Unset
    BY <1>0 DEF Core, ClaimInv, Working
  <2>2. ~(blk[t] < Popped)
    BY <1>0, <2>1 DEF Core, BoardInv
  <2>3. Popped \in Nat /\ blk[t] \in Nat
    BY <1>0, TypeFacts
  <2> QED
    BY <2>2, <2>3
<1>7. BoardInv' /\ ClaimInv' /\ DistinctInv'
  BY <1>0, <1>1, <1>3 DEF Core, BoardInv, ClaimInv, DistinctInv, Working
<1>8. QueueInv'
  <2>1. \A i \in 1 .. last : i \in 1 .. cq[t].numTaken \/ i = last
    BY <1>2
  <2>2. \A i \in 1 .. cq[t].numTaken :
            /\ Queued(t, i) \in Blocks
            /\ Queued(t, i) >= Popped
            /\ Queued(t, i) < blk[t]
            /\ g_blockThreadId[Queued(t, i)] = t
    BY <1>0 DEF Core, QueueInv, Working
  <2>3. \A i, j \in 1 .. cq[t].numTaken : i < j => Queued(t, i) < Queued(t, j)
    BY <1>0 DEF Core, QueueInv
  <2>4. ASSUME NEW i \in 1 .. last, NEW j \in 1 .. last, i < j
        PROVE  After(i) < After(j)
    <3>1. i \in 1 .. cq[t].numTaken
      BY <1>2, <2>4
    <3> HIDE DEF After, last
    <3> QED
      BY <1>5, <2>1, <2>2, <2>3, <2>4, <3>1
  <2>5. ASSUME NEW i \in 1 .. last
        PROVE  /\ After(i) \in Blocks
               /\ After(i) >= Popped
               /\ g_blockThreadId[After(i)] = t \/ After(i) = blk[t]
    <3> HIDE DEF After, last
    <3> QED
      BY <1>0, <1>5, <1>6, <2>1, <2>2
  <2>6. ASSUME NEW u \in Workers, u # t
        PROVE  /\ \A i, j \in 1 .. cq'[u].numTaken :
                      i < j => Contents(cq'[u])[i] < Contents(cq'[u])[j]
               /\ \A i \in 1 .. cq'[u].numTaken :
                      LET b == Contents(cq'[u])[i]
                      IN  /\ b \in Blocks
                          /\ b >= Popped
                          /\ pc[u] \in Working \ {"announce"} => b < blk[u]
                          /\ g_blockThreadId[b] = u \/ (pc[u] = "announce" /\ b = blk[u])
    BY <1>0, <1>3, <1>5, <2>6 DEF Core, QueueInv
  <2> HIDE DEF After
  <2> QED
    BY <1>0, <1>1, <1>3, <1>4, <2>4, <2>5, <2>6 DEF QueueInv, Queued, After
<1>9. PushedInv'
  <2>1. cq'[t].numTaken > 0 /\ Contents(cq'[t])[cq'[t].numTaken] = blk[t]
    BY <1>2, <1>4, <1>5
  <2>2. \A u \in Workers : u # t => Queued(u, cq[u].numTaken)' = Queued(u, cq[u].numTaken)
    BY <1>3 DEF Queued
  <2> QED
    BY <1>0, <1>3, <2>1, <2>2 DEF Core, PushedInv, Queued
<1>10. AnnouncedInv'
  <2> SUFFICES ASSUME NEW u \in Workers, NEW b \in Blocks,
                      g_blockThreadId[b] = u, b >= Popped
               PROVE  \E i \in 1 .. cq'[u].numTaken : Contents(cq'[u])[i] = b
    BY <1>0, <1>1 DEF AnnouncedInv, Queued
  <2>1. PICK i \in 1 .. cq[u].numTaken : Queued(u, i) = b
    BY <1>0 DEF Core, AnnouncedInv
  <2>2. i \in 1 .. cq'[u].numTaken
    BY <1>2, <1>3, <1>4, <2>1
  <2> QED
    BY <1>5, <2>1, <2>2
<1>11. SlotInv'
  BY <1>0, <1>3 DEF Core, SlotInv
<1> QED
  BY <1>1, <1>7, <1>8, <1>9, <1>10, <1>11 DEF Core
\* Announcing: the block is in the compressor's queue already.
LEMMA AnnounceStep ==
    ASSUME IInv, NEW t \in Workers, Announce(t)
    PROVE  Core'
<1>0. /\ TypeOK /\ Core
      /\ blk \in [Workers -> Blocks] /\ Blocks \subseteq Nat
      /\ pc \in [Workers -> PcValues] /\ pc[t] = "announce"
      /\ pc' = [pc EXCEPT ![t] = "notify"]
      /\ g_blockSize \in [Blocks -> Sizes \cup {0, Unset}]
      /\ g_blockThreadId \in [Blocks -> Workers \cup {Unset}]
      /\ g_blockSize' = [g_blockSize EXCEPT ![blk[t]] = csize[t]]
      /\ g_blockThreadId' = [g_blockThreadId EXCEPT ![blk[t]] = t]
      /\ blockId \in Nat
      /\ UNCHANGED <<blockId, blk, wptr, wpc, nextBlockId, cq>>
  BY TypeFacts DEF Announce, writerVars
<1>1. Popped' = Popped /\ \A u \in Workers : \A i : Queued(u, i)' = Queued(u, i)
  BY <1>0 DEF Popped, Queued
<1>2. /\ \A u \in Workers : u # t => pc'[u] = pc[u]
      /\ pc'[t] = "notify"
      /\ \A b \in Blocks : b # blk[t] => /\ g_blockSize'[b] = g_blockSize[b]
                                         /\ g_blockThreadId'[b] = g_blockThreadId[b]
      /\ g_blockSize'[blk[t]] = csize[t] /\ g_blockThreadId'[blk[t]] = t
  BY <1>0
<1>3. /\ blk[t] \in Blocks /\ blk[t] < blockId
      /\ g_blockThreadId[blk[t]] = Unset
      /\ t # Unset /\ csize[t] # Unset
  <2>1. csize[t] \in Sizes \cup {0}
    BY <1>0 DEF TypeOK
  <2> QED
    BY <1>0, <2>1, NumberFacts DEF Core, ClaimInv, Working
<1>4. BoardInv'
  <2>1. ~(blk[t] >= blockId)
    <3>1. blk[t] \in Nat
      BY <1>0
    <3> QED
      BY <1>0, <1>3, <3>1
  <2> SUFFICES ASSUME NEW b \in Blocks
               PROVE  /\ g_blockSize'[b] = Unset <=> g_blockThreadId'[b] = Unset
                      /\ b >= blockId => g_blockThreadId'[b] = Unset
                      /\ b < Popped => g_blockThreadId'[b] # Unset
    BY <1>0, <1>1 DEF BoardInv
  <2>2. CASE b = blk[t]
    BY <1>2, <1>3, <2>1, <2>2
  <2>3. CASE b # blk[t]
    BY <1>0, <1>2, <2>3 DEF Core, BoardInv
  <2> QED
    BY <2>2, <2>3
<1>5. \A u \in Workers : u # t /\ pc[u] \in Working => blk[u] # blk[t]
  BY <1>0 DEF Core, DistinctInv, Working
<1>6. ClaimInv' /\ DistinctInv'
  BY <1>0, <1>2, <1>5 DEF Core, ClaimInv, DistinctInv, Working
<1>7. QueueInv'
  <2>1. ASSUME NEW u \in Workers, NEW i \in 1 .. cq[u].numTaken
        PROVE  \/ g_blockThreadId'[Queued(u, i)] = u
               \/ pc'[u] = "announce" /\ Queued(u, i) = blk[u]
    <3>1. /\ Queued(u, i) \in Blocks
          /\ \/ g_blockThreadId[Queued(u, i)] = u
             \/ pc[u] = "announce" /\ Queued(u, i) = blk[u]
      BY <1>0 DEF Core, QueueInv
    <3>2. CASE u = t
      BY <1>2, <3>1, <3>2
    <3>3. CASE u # t
      <4>1. u # Unset
        BY NumberFacts
      <4> QED
        BY <1>2, <1>3, <3>1, <3>3, <4>1
    <3> QED
      BY <3>2, <3>3
  <2>2. \A u \in Workers : pc'[u] \in Working \ {"announce"}
                               => pc[u] \in Working \ {"announce"}
    BY <1>2 DEF Working
  <2> QED
    BY <1>0, <1>1, <2>1, <2>2 DEF Core, QueueInv
<1>8. PushedInv'
  BY <1>0, <1>1, <1>2 DEF Core, PushedInv
<1>9. AnnouncedInv'
  <2> SUFFICES ASSUME NEW u \in Workers, NEW b \in Blocks,
                      g_blockThreadId'[b] = u, b >= Popped
               PROVE  \E i \in 1 .. cq[u].numTaken : Queued(u, i) = b
    BY <1>0, <1>1 DEF AnnouncedInv
  <2>1. CASE b = blk[t]
    <3>1. u = t
      BY <1>2, <2>1
    <3>2. cq[t].numTaken \in 1 .. cq[t].numTaken /\ Queued(t, cq[t].numTaken) = b
      <4>1. cq[t].numTaken \in Nat
        BY <1>0, QueueFacts
      <4>2. cq[t].numTaken > 0 /\ Queued(t, cq[t].numTaken) = blk[t]
        BY <1>0 DEF Core, PushedInv
      <4> QED
        BY <2>1, <4>1, <4>2
    <3> QED
      BY <3>1, <3>2
  <2>2. CASE b # blk[t]
    BY <1>0, <1>2, <2>2 DEF Core, AnnouncedInv
  <2> QED
    BY <2>1, <2>2
<1>10. SlotInv'
  BY <1>0, <1>2 DEF Core, SlotInv
<1>11. WriterInv'
  BY <1>0, <1>2 DEF Core, WriterInv
<1> QED
  BY <1>4, <1>6, <1>7, <1>8, <1>9, <1>10, <1>11 DEF Core

\* The block the writer goes on with is the head of the queue of the thread
\* that announced it: it is in that queue, and all before it have been popped.
LEMMA HeadFirst ==
    ASSUME IInv, wpc \in {"flush", "copy", "pop"}
    PROVE  /\ Source \in Workers /\ nextBlockId \in Blocks
           /\ cq[Source].numTaken > 0
           /\ Queued(Source, 1) = nextBlockId
           /\ cq[Source].dataBuffer[cq[Source].readIdx] = nextBlockId
<1>0. /\ TypeOK /\ Core /\ Blocks \subseteq Nat
      /\ Source \in Workers /\ nextBlockId \in Blocks
      /\ Popped = nextBlockId
  BY TypeFacts DEF Core, WriterInv, Source, Popped
<1>1. PICK i \in 1 .. cq[Source].numTaken : Queued(Source, i) = nextBlockId
  <2>1. nextBlockId >= Popped
    BY <1>0
  <2> QED
    BY <1>0, <2>1 DEF Core, AnnouncedInv, Source
<1>2. cq[Source].numTaken \in Nat /\ WellFormed(cq[Source], QueueLen, Values)
  BY <1>0, QueueFacts
<1>3. 1 \in 1 .. cq[Source].numTaken /\ cq[Source].numTaken > 0
  BY <1>1, <1>2
<1>4. Queued(Source, 1) >= nextBlockId /\ Queued(Source, 1) \in Blocks
  BY <1>0, <1>3 DEF Core, QueueInv
<1>5. i # 1 => Queued(Source, 1) < Queued(Source, i)
  <2>1. i # 1 => 1 < i
    BY <1>1, <1>2
  <2> QED
    BY <1>0, <1>3, <2>1 DEF Core, QueueInv
<1>6. Queued(Source, 1) = nextBlockId
  <2>1. Queued(Source, 1) \in Nat /\ nextBlockId \in Nat
    BY <1>0, <1>4
  <2>2. CASE i = 1
    BY <1>1, <2>2
  <2>3. CASE i # 1
    <3>1. Queued(Source, 1) < nextBlockId
      BY <1>1, <1>5, <2>3
    <3> QED
      BY <1>4, <2>1, <3>1
  <2> QED
    BY <2>2, <2>3
<1>7. Contents(cq[Source])[1] = cq[Source].dataBuffer[cq[Source].readIdx]
  BY <1>2, <1>3, Dimensions, PopElements
<1> QED
  BY <1>0, <1>3, <1>6, <1>7 DEF Queued
\* Popping takes the next block out of the queues, and no other.
LEMMA PopStep ==
    ASSUME IInv, PopBlock
    PROVE  Core'
<1> DEFINE S == Source
           n == nextBlockId
           k == cq[S].numTaken
           After(i) == Contents(cq'[S])[i]
<1>0. /\ TypeOK /\ Core /\ Blocks \subseteq Nat
      /\ wpc = "pop"
      /\ DOMAIN cq = Workers
      /\ cq' = [cq EXCEPT ![S] = PopReadBlock(cq[S])]
      /\ wpc' = IF cq[S].numTaken > 0 THEN "notify" ELSE "record"
      /\ UNCHANGED <<blockId, blk, pc, wptr, nextBlockId, g_blockSize, g_blockThreadId>>
  BY TypeFacts DEF PopBlock, boardVars, workerVars
<1>1. /\ S \in Workers /\ n \in Blocks /\ n \in Nat
      /\ k > 0 /\ k \in Nat
      /\ Queued(S, 1) = n
      /\ g_blockThreadId[n] = S /\ S # Unset
      /\ WellFormed(cq[S], QueueLen, Values)
      /\ QueueLen \in Nat \ {0}
  BY <1>0, HeadFirst, QueueFacts, Dimensions, NumberFacts DEF Source
<1>2. wpc' = "notify" /\ Popped = n /\ Popped' = n + 1
  BY <1>0, <1>1 DEF Popped
<1>3. /\ cq'[S] = PopReadBlock(cq[S])
      /\ \A u \in Workers : u # S => cq'[u] = cq[u]
  BY <1>0, <1>1
<1> HIDE DEF S, n
<1> HIDE DEF After
<1>4. /\ PopReadBlock(cq[S]).numTaken = k - 1
      /\ PopReadBlock(cq[S]).writeIdx = cq[S].writeIdx
      /\ PopReadBlock(cq[S]).dataBuffer = cq[S].dataBuffer
      /\ PopReadBlock(cq[S]).numBlocks = QueueLen
  <2>1. cq[S].numTaken > 0
    BY <1>1
  <2> HIDE DEF k
  <2>2. /\ PopReadBlock(cq[S]).numTaken = cq[S].numTaken - 1
        /\ PopReadBlock(cq[S]).writeIdx = cq[S].writeIdx
        /\ PopReadBlock(cq[S]).dataBuffer = cq[S].dataBuffer
    BY <1>1, <2>1 DEF PopReadBlock, WellFormed
  <2>3. WellFormed(PopReadBlock(cq[S]), QueueLen, Values)
    BY <1>1, <2>1, PopRemovesHead
  <2> QED
    BY <2>2, <2>3 DEF k, WellFormed
<1>5. /\ cq'[S].numTaken = k - 1
      /\ cq'[S].writeIdx = cq[S].writeIdx
      /\ cq'[S].dataBuffer = cq[S].dataBuffer
  BY <1>3, <1>4
<1> USE DEF After
<1>6. /\ \A u \in Workers : \A i : u # S => Contents(cq'[u])[i] = Queued(u, i)
      /\ \A i \in 1 .. k - 1 : After(i) = Queued(S, i + 1)
  <2>1. \A i \in 1 .. k - 1 : Contents(PopReadBlock(cq[S]))[i] = Contents(cq[S])[i + 1]
    BY <1>1, PopElements
  <2> QED
    BY <1>3, <2>1 DEF Queued
<1> HIDE DEF After
<1>7. BoardInv'
  <2>1. \A b \in Nat : b < n + 1 => b < n \/ b = n
    BY <1>1
  <2> QED
    BY <1>0, <1>1, <1>2, <2>1 DEF Core, BoardInv
<1>8. ClaimInv' /\ DistinctInv'
  BY <1>0 DEF Core, ClaimInv, DistinctInv
<1>9. \A i \in 1 .. k - 1 : i \in 1 .. k /\ i + 1 \in 1 .. k /\ 1 < i + 1
  BY <1>1
<1>10. \A u \in Workers : pc[u] = "announce" => blk[u] # n
  BY <1>0, <1>1 DEF Core, ClaimInv, Working
<1>11. QueueInv'
  <2>1. ASSUME NEW i \in 1 .. k - 1
        PROVE  /\ After(i) \in Blocks
               /\ After(i) >= n + 1
               /\ pc[S] \in Working \ {"announce"} => After(i) < blk[S]
               /\ \/ g_blockThreadId[After(i)] = S
                  \/ pc[S] = "announce" /\ After(i) = blk[S]
    <3>1. /\ Queued(S, i + 1) \in Blocks
          /\ pc[S] \in Working \ {"announce"} => Queued(S, i + 1) < blk[S]
          /\ \/ g_blockThreadId[Queued(S, i + 1)] = S
             \/ pc[S] = "announce" /\ Queued(S, i + 1) = blk[S]
      BY <1>0, <1>1, <1>9 DEF Core, QueueInv
    <3>2. Queued(S, 1) < Queued(S, i + 1)
      <4>1. 1 \in 1 .. k
        BY <1>1
      <4> QED
        BY <1>0, <1>1, <1>9, <4>1 DEF Core, QueueInv
    <3>3. Queued(S, i + 1) >= n + 1
      <4>1. Queued(S, i + 1) \in Nat
        BY <1>0, <3>1
      <4>2. n < Queued(S, i + 1)
        BY <1>1, <3>2
      <4> QED
        BY <1>1, <4>1, <4>2
    <3>4. After(i) = Queued(S, i + 1)
      BY <1>6
    <3> QED
      BY <3>1, <3>3, <3>4
  <2>2. ASSUME NEW i \in 1 .. k - 1, NEW j \in 1 .. k - 1, i < j
        PROVE  After(i) < After(j)
    <3>1. i + 1 < j + 1
      BY <1>1, <2>2
    <3>2. Queued(S, i + 1) < Queued(S, j + 1)
      BY <1>0, <1>1, <1>9, <3>1 DEF Core, QueueInv
    <3> QED
      BY <1>6, <3>2
  <2>3. ASSUME NEW u \in Workers, u # S, NEW i \in 1 .. cq[u].numTaken
        PROVE  Queued(u, i) >= n + 1
    <3>1. /\ Queued(u, i) \in Blocks /\ Queued(u, i) >= n
          /\ \/ g_blockThreadId[Queued(u, i)] = u
             \/ pc[u] = "announce" /\ Queued(u, i) = blk[u]
      BY <1>0, <1>2 DEF Core, QueueInv
    <3>2. Queued(u, i) # n
      BY <1>1, <1>10, <2>3, <3>1
    <3>3. Queued(u, i) \in Nat
      BY <1>0, <3>1
    <3> QED
      BY <1>1, <3>1, <3>2, <3>3
  <2>4. ASSUME NEW u \in Workers, u # S
        PROVE  /\ \A i, j \in 1 .. cq'[u].numTaken :
                      i < j => Contents(cq'[u])[i] < Contents(cq'[u])[j]
               /\ \A i \in 1 .. cq'[u].numTaken :
                      LET b == Contents(cq'[u])[i]
                      IN  /\ b \in Blocks
                          /\ b >= n + 1
                          /\ pc[u] \in Working \ {"announce"} => b < blk[u]
                          /\ g_blockThreadId[b] = u \/ (pc[u] = "announce" /\ b = blk[u])
    BY <1>0, <1>3, <1>6, <2>3, <2>4 DEF Core, QueueInv
  <2>5. \A u \in Workers : u = S \/ u # S
    OBVIOUS
  <2> QED
    BY <1>0, <1>1, <1>2, <1>3, <1>5, <2>1, <2>2, <2>4, <2>5 DEF QueueInv, Queued, After
<1>12. PushedInv'
  <2>1. ASSUME pc[S] = "announce"
        PROVE  k - 1 > 0 /\ After(k - 1) = blk[S]
    <3>1. Queued(S, k) = blk[S]
      BY <1>0, <1>1, <2>1 DEF Core, PushedInv
    <3>2. k # 1
      BY <1>1, <1>10, <2>1, <3>1
    <3>3. k - 1 \in 1 .. k - 1 /\ (k - 1) + 1 = k
      BY <1>1, <3>2
    <3> QED
      BY <1>1, <1>6, <3>1, <3>2, <3>3
  <2>2. \A u \in Workers : u # S => Queued(u, cq[u].numTaken)' = Queued(u, cq[u].numTaken)
    BY <1>3 DEF Queued
  <2>3. pc[S] = "announce" =>
            /\ cq'[S].numTaken > 0
            /\ Contents(cq'[S])[cq'[S].numTaken] = blk[S]
    BY <1>5, <2>1 DEF After
  <2> QED
    BY <1>0, <1>1, <1>3, <2>2, <2>3 DEF Core, PushedInv, Queued
<1>13. AnnouncedInv'
  <2> SUFFICES ASSUME NEW u \in Workers, NEW b \in Blocks,
                      g_blockThreadId[b] = u, b >= n + 1
               PROVE  \E i \in 1 .. cq'[u].numTaken : Contents(cq'[u])[i] = b
    BY <1>0, <1>2 DEF AnnouncedInv, Queued
  <2>1. b >= n /\ b # n
    BY <1>0, <1>1
  <2>2. PICK i \in 1 .. cq[u].numTaken : Queued(u, i) = b
    BY <1>0, <1>2, <2>1 DEF Core, AnnouncedInv
  <2>3. CASE u # S
    BY <1>3, <1>6, <2>2, <2>3
  <2>4. CASE u = S
    <3>1. i # 1
      BY <1>1, <2>1, <2>2, <2>4
    <3>2. i - 1 \in 1 .. k - 1 /\ (i - 1) + 1 = i
      BY <1>1, <2>2, <2>4, <3>1
    <3>3. After(i - 1) = b
      BY <1>6, <2>2, <2>4, <3>2
    <3> QED
      BY <1>5, <2>4, <3>2, <3>3 DEF After
  <2> QED
    BY <2>3, <2>4
<1>14. SlotInv'
  <2>1. HasRoom(cq'[S])
    <3>1. k <= QueueLen
      BY <1>1 DEF WellFormed
    <3> QED
      BY <1>1, <1>3, <1>4, <3>1 DEF HasRoom
  <2> QED
    BY <1>0, <1>1, <1>3, <1>5, <2>1 DEF Core, SlotInv
<1>15. WriterInv'
  BY <1>0, <1>1 DEF WriterInv, n
<1> QED
  BY <1>7, <1>8, <1>11, <1>12, <1>13, <1>14, <1>15 DEF Core
-----------------------------------------------------------------------------
(* The steps that leave the blocks where they are.                         *)

Quiet == \/ RejectDims \/ OpenFails \/ StartWriter \/ JoinAll \/ Finished
         \/ \E t \in Workers : StartWorker(t) \/ SpuriousWakeup(t) \/ NotifyWriter(t)
         \/ WriteHeader \/ CheckNext \/ SpuriousWriterWakeup \/ FlushIfFull
         \/ CopyBlock \/ NotifyCompressor \/ RecordOffset \/ LastFlush
         \/ WriteTable \/ CloseFile

\* Where the threads go in such a step matters in three ways only: who works,
\* who writes a slot, and what the writer has popped.
LEMMA QuietSteps ==
    ASSUME IInv, Quiet \/ UNCHANGED vars
    PROVE  Core'
<1>0. /\ TypeOK /\ Core /\ blockId \in Nat
      /\ pc \in [Workers -> PcValues]
      /\ nextBlockId \in 0 .. NumBlocks
      /\ Blocks \subseteq Nat
      /\ NumBlocks \in Nat
  BY TypeFacts, WritePipelineAssumption DEF TypeOK
<1>1. UNCHANGED <<blockId, boardVars, blk, cq, wptr>>
  BY DEF Quiet, RejectDims, OpenFails, StartWriter, JoinAll, Finished, StartWorker,
         SpuriousWakeup, NotifyWriter, WriteHeader, CheckNext, SpuriousWriterWakeup,
         FlushIfFull, CopyBlock, NotifyCompressor, RecordOffset, LastFlush,
         WriteTable, CloseFile, vars, workerVars, writerVars
<1>2. \A t \in Workers : /\ pc'[t] \in Working <=> pc[t] \in Working
                         /\ pc'[t] = "announce" <=> pc[t] = "announce"
                         /\ pc'[t] \in {"compress", "push"} => pc'[t] = pc[t]
  <2>1. ASSUME NEW t \in Workers, StartWorker(t)
        PROVE  pc[t] = "off" /\ pc' = [pc EXCEPT ![t] = "claim"]
    <3>1. t >= t
      BY NumberFacts
    <3> QED
      BY <2>1, <3>1 DEF StartWorker
  <2>2. ASSUME NEW t \in Workers, SpuriousWakeup(t)
        PROVE  pc[t] = "asleep" /\ pc' = [pc EXCEPT ![t] = "reserve"]
    BY <2>2 DEF SpuriousWakeup
  <2>3. ASSUME NEW t \in Workers, NotifyWriter(t)
        PROVE  pc[t] = "notify" /\ pc' = [pc EXCEPT ![t] = "claim"]
    BY <2>3 DEF NotifyWriter
  <2>4. CASE NotifyCompressor
    <3>1. pc' = [pc EXCEPT ![Source] = IF @ = "asleep" THEN "reserve" ELSE @]
      BY <2>4 DEF NotifyCompressor
    <3> QED
      BY <1>0, <3>1 DEF Working
  <2>5. CASE pc' = pc
    BY <2>5
  <2>6. \/ \E t \in Workers : StartWorker(t) \/ SpuriousWakeup(t) \/ NotifyWriter(t)
        \/ NotifyCompressor
        \/ pc' = pc
    BY DEF Quiet, RejectDims, OpenFails, StartWriter, JoinAll, Finished, WriteHeader,
           CheckNext, SpuriousWriterWakeup, FlushIfFull, CopyBlock, RecordOffset,
           LastFlush, WriteTable, CloseFile, vars, workerVars
  <2>7. CASE \E t \in Workers : StartWorker(t) \/ SpuriousWakeup(t) \/ NotifyWriter(t)
    <3>1. PICK t \in Workers : StartWorker(t) \/ SpuriousWakeup(t) \/ NotifyWriter(t)
      BY <2>7
    <3>2. \/ pc[t] = "off" /\ pc' = [pc EXCEPT ![t] = "claim"]
          \/ pc[t] = "asleep" /\ pc' = [pc EXCEPT ![t] = "reserve"]
          \/ pc[t] = "notify" /\ pc' = [pc EXCEPT ![t] = "claim"]
      BY <2>1, <2>2, <2>3, <3>1
    <3> QED
      BY <1>0, <3>2 DEF Working
  <2> QED
    BY <2>4, <2>5, <2>6, <2>7
<1>3. /\ Popped' = Popped
      /\ wpc' \in {"flush", "copy", "pop", "notify", "record"} =>
            /\ nextBlockId' = nextBlockId
            /\ \/ wpc \in {"flush", "copy", "pop", "notify", "record"}
               \/ nextBlockId # NumBlocks /\ Available(nextBlockId)
  <2>1. CASE RecordOffset
    BY <1>0, <2>1 DEF RecordOffset, Popped
  <2>2. CASE CheckNext
    BY <1>0, <2>2 DEF CheckNext, Popped
  <2>3. CASE NotifyCompressor
    BY <2>3 DEF NotifyCompressor, Popped
  <2>4. CASE FlushIfFull \/ CopyBlock
    BY <2>4 DEF FlushIfFull, CopyBlock, Popped
  <2>5. CASE \E t \in Workers : NotifyWriter(t)
    BY <2>5 DEF NotifyWriter, Popped
  <2>6. CASE /\ nextBlockId' = nextBlockId
             /\ \/ wpc' = wpc
                \/ /\ wpc \in {"off", "header", "asleep", "lastflush", "table", "close"}
                   /\ wpc' \in {"header", "check", "table", "close", "done"}
    BY <2>6 DEF Popped
  <2>7. CASE StartWriter
    <3>1. wpc' = "header" /\ nextBlockId' = nextBlockId
      BY <2>7 DEF StartWriter
    <3>2. wpc = "off"
      BY <2>7 DEF StartWriter, IInv, StartInv
    <3> QED
      BY <2>6, <3>1, <3>2
  <2>8. CASE RejectDims \/ OpenFails \/ JoinAll \/ Finished \/ UNCHANGED vars
    <3>1. wpc' = wpc /\ nextBlockId' = nextBlockId
      BY <2>8 DEF RejectDims, OpenFails, JoinAll, Finished, vars, writerVars
    <3> QED
      BY <2>6, <3>1
  <2>9. CASE \E t \in Workers : StartWorker(t) \/ SpuriousWakeup(t)
    <3>1. wpc' = wpc /\ nextBlockId' = nextBlockId
      BY <2>9 DEF StartWorker, SpuriousWakeup, writerVars
    <3> QED
      BY <2>6, <3>1
  <2>10. CASE WriteHeader \/ SpuriousWriterWakeup \/ LastFlush \/ WriteTable \/ CloseFile
    <3>1. /\ nextBlockId' = nextBlockId
          /\ wpc \in {"header", "asleep", "lastflush", "table", "close"}
          /\ wpc' \in {"check", "table", "close", "done"}
      BY <2>10 DEF WriteHeader, SpuriousWriterWakeup, LastFlush, WriteTable, CloseFile
    <3> QED
      BY <2>6, <3>1
  <2> QED
    BY <2>1, <2>2, <2>3, <2>4, <2>5, <2>7, <2>8, <2>9, <2>10 DEF Quiet
<1>4. SlotInv'
  BY <1>0, <1>1, <1>2 DEF Core, SlotInv
<1>5. WriterInv'
  <2>1. nextBlockId # NumBlocks /\ Available(nextBlockId) =>
            nextBlockId \in Blocks /\ g_blockThreadId[nextBlockId] \in Workers
    <3>1. nextBlockId # NumBlocks => nextBlockId \in Blocks
      BY <1>0 DEF Blocks
    <3>2. g_blockThreadId \in [Blocks -> Workers \cup {Unset}]
      BY TypeFacts
    <3>3. ~(Unset >= 0)
      BY DEF Unset
    <3> QED
      BY <3>1, <3>2, <3>3 DEF Available
  <2> QED
    BY <1>0, <1>1, <1>3, <2>1 DEF Core, WriterInv, boardVars
<1> QED
  BY <1>0, <1>1, <1>2, <1>3, <1>4, <1>5, QuietStep

\* No step disturbs the core of the invariant.
LEMMA CoreStep ==
    ASSUME IInv, [Next]_vars
    PROVE  Core'
<1>1. \/ Quiet \/ UNCHANGED vars
      \/ \E t \in Workers : \/ ClaimBlock(t) \/ ReserveSlot(t) \/ Compress(t)
                            \/ PushBlock(t) \/ Announce(t)
      \/ PopBlock
  BY DEF Next, Main, Compressor, Writer, Quiet
<1> QED
  BY <1>1, QuietSteps, ClaimStep, ReserveStep, CompressStep, PushStep,
     AnnounceStep, PopStep
-----------------------------------------------------------------------------
(* Type correctness.                                                       *)

\* The writer's steps keep its variables in their types.
LEMMA WriterTypes ==
    ASSUME IInv, Writer \/ SpuriousWriterWakeup
    PROVE  /\ wpc' \in {"off", "header", "check", "asleep", "flush", "copy", "pop",
                        "notify", "record", "lastflush", "table", "close", "done"}
           /\ nextBlockId' \in 0 .. NumBlocks
           /\ offset' \in Nat
           /\ bufferMem' \in Seq(Values \X Nat)
           /\ blockOffset' \in Offsets
           /\ fout' \in [header : BOOLEAN, table : Offsets,
                         data : Seq(Values \X Nat), open : BOOLEAN]
<1>0. /\ TypeOK /\ Core
      /\ wpc \in {"off", "header", "check", "asleep", "flush", "copy", "pop",
                  "notify", "record", "lastflush", "table", "close", "done"}
      /\ nextBlockId \in 0 .. NumBlocks /\ NumBlocks \in Nat
      /\ offset \in Nat
      /\ bufferMem \in Seq(Values \X Nat)
      /\ blockOffset \in Offsets
      /\ fout \in [header : BOOLEAN, table : Offsets,
                   data : Seq(Values \X Nat), open : BOOLEAN]
  BY TypeFacts, WritePipelineAssumption DEF TypeOK, Values
<1>1. ASSUME FlushBuffer
      PROVE  /\ bufferMem' \in Seq(Values \X Nat)
             /\ fout' \in [header : BOOLEAN, table : Offsets,
                           data : Seq(Values \X Nat), open : BOOLEAN]
  <2>1. PICK n \in Written(Len(bufferMem)) :
            fout' = [fout EXCEPT !.data = @ \o SubSeq(bufferMem, 1, n)]
    BY <1>1 DEF FlushBuffer
  <2>2. n \in 0 .. Len(bufferMem)
    <3>1. Len(bufferMem) \in Nat
      BY <1>0
    <3> QED
      BY <2>1, <3>1 DEF Written
  <2>3. SubSeq(bufferMem, 1, n) \in Seq(Values \X Nat)
    BY <1>0, <2>2
  <2>4. fout.data \in Seq(Values \X Nat)
    BY <1>0
  <2>5. fout.data \o SubSeq(bufferMem, 1, n) \in Seq(Values \X Nat)
    BY <2>3, <2>4
  <2>6. bufferMem' \in Seq(Values \X Nat)
    BY <1>1 DEF FlushBuffer
  <2> QED
    BY <1>0, <2>1, <2>5, <2>6
<1>2. CASE RecordOffset
  <2>1. /\ nextBlockId \in Blocks /\ g_blockSize[nextBlockId] \in Nat
        /\ nextBlockId + 1 \in 0 .. NumBlocks
    <3>1. nextBlockId \in Blocks /\ g_blockThreadId[nextBlockId] # Unset
      BY <1>0, <1>2, NumberFacts DEF RecordOffset, Core, WriterInv
    <3>2. g_blockSize[nextBlockId] # Unset
      BY <1>0, <3>1 DEF Core, BoardInv
    <3>3. g_blockSize[nextBlockId] \in Sizes \cup {0, Unset}
      BY <3>1, TypeFacts
    <3> QED
      BY <1>0, <3>1, <3>2, <3>3, NumberFacts DEF Blocks
  <2>2. offset' \in Nat /\ offset' = offset + g_blockSize[nextBlockId]
    BY <1>0, <1>2, <2>1 DEF RecordOffset
  <2>3. blockOffset' \in Offsets
    BY <1>0, <1>2, <2>2 DEF RecordOffset, Offsets
  <2> QED
    BY <1>0, <1>2, <2>1, <2>2, <2>3 DEF RecordOffset
<1>3. CASE CopyBlock
  <2> DEFINE v == cq[Source].dataBuffer[ReadPtr]
             n == g_blockSize[nextBlockId]
  <2>1. v \in Values
    <3>1. Source \in Workers /\ cq[Source].numTaken > 0
      BY <1>3, HeadFirst DEF CopyBlock
    <3>2. ReadPtr = cq[Source].readIdx
      BY <3>1 DEF ReadPtr, GetReadBlock
    <3>3. WellFormed(cq[Source], QueueLen, Values)
      BY <1>0, <3>1, QueueFacts
    <3> QED
      BY <3>2, <3>3 DEF WellFormed
  <2>2. n \in Nat
    <3>1. nextBlockId \in Blocks /\ g_blockThreadId[nextBlockId] # Unset
      BY <1>0, <1>3, NumberFacts DEF CopyBlock, Core, WriterInv
    <3>2. g_blockSize[nextBlockId] # Unset
      BY <1>0, <3>1 DEF Core, BoardInv
    <3>3. g_blockSize[nextBlockId] \in Sizes \cup {0, Unset}
      BY <3>1, TypeFacts
    <3> QED
      BY <3>2, <3>3, NumberFacts
  <2> HIDE DEF v, n
  <2>3. BytesOf(v, n) \in Seq(Values \X Nat)
    BY <2>1, <2>2 DEF BytesOf
  <2>4. bufferMem \o BytesOf(v, n) \in Seq(Values \X Nat)
    BY <1>0, <2>3
  <2> QED
    BY <1>0, <1>3, <2>4 DEF CopyBlock, v, n
<1>4. CASE FlushIfFull \/ LastFlush
  BY <1>0, <1>1, <1>4 DEF FlushIfFull, LastFlush
<1>5. CASE WriteHeader \/ WriteTable \/ CloseFile
  <2>1. /\ \/ wpc' \in {"check", "close", "done"}
        /\ UNCHANGED <<nextBlockId, offset, bufferMem, blockOffset>>
    BY <1>5 DEF WriteHeader, WriteTable, CloseFile
  <2>2. \/ fout' = [fout EXCEPT !.header = TRUE, !.table = blockOffset]
        \/ fout' = [fout EXCEPT !.table = blockOffset]
        \/ fout' = [fout EXCEPT !.table = fout.table]
        \/ fout' = [fout EXCEPT !.open = FALSE]
    BY <1>5 DEF WriteHeader, WriteTable, CloseFile
  <2> QED
    BY <1>0, <2>1, <2>2
<1>6. CASE CheckNext \/ SpuriousWriterWakeup \/ PopBlock \/ NotifyCompressor
  BY <1>0, <1>6 DEF CheckNext, SpuriousWriterWakeup, PopBlock, NotifyCompressor
<1> QED
  BY <1>2, <1>3, <1>4, <1>5, <1>6 DEF Writer
\* The outcomes of a compression are sizes and error codes.
LEMMA OutcomesType ==
    ASSUME TypeOK, NEW flag \in ErrorCodes, NEW o \in Outcomes(flag)
    PROVE  o.size \in Sizes \cup {0} /\ o.flag \in ErrorCodes
<1>1. Outcomes(flag) \subseteq Stored(flag) \cup Stored(NoError)
                               \cup Failed(2) \cup Failed(3) \cup Failed(5)
  <2>1. compressionType \in {"NONE", "BZIP2", "ZLIB", "OTHER"}
    BY WritePipelineAssumption DEF TypeOK
  <2> QED
    BY <2>1 DEF Outcomes
<1>2. \A f \in ErrorCodes : \A x \in Stored(f) \cup Failed(f) :
          x.size \in Sizes \cup {0} /\ x.flag \in ErrorCodes
  BY DEF Stored, Failed
<1>3. {flag, NoError, 2, 3, 5} \subseteq ErrorCodes
  BY DEF ErrorCodes, NoError
<1> QED
  BY <1>1, <1>2, <1>3

\* The queues stay well formed.
LEMMA QueueTypes ==
    ASSUME IInv, Next
    PROVE  DOMAIN cq' = Workers
           /\ \A t \in Workers : WellFormed(cq'[t], QueueLen, Values)
<1>0. /\ TypeOK /\ Core
      /\ DOMAIN cq = Workers
      /\ \A t \in Workers : WellFormed(cq[t], QueueLen, Values)
      /\ QueueLen \in Nat \ {0}
  BY TypeFacts, QueueFacts, Dimensions
<1>1. ASSUME NEW t \in Workers, NEW new,
             cq' = [cq EXCEPT ![t] = new],
             WellFormed(new, QueueLen, Values)
      PROVE  /\ DOMAIN cq' = Workers
             /\ \A u \in Workers : WellFormed(cq'[u], QueueLen, Values)
  <2>1. /\ DOMAIN cq' = Workers /\ cq'[t] = new
        /\ \A u \in Workers : u # t => cq'[u] = cq[u]
    BY <1>0, <1>1
  <2> QED
    BY <1>0, <1>1, <2>1
<1>2. ASSUME NEW t \in Workers, Compress(t)
      PROVE  \E new : /\ cq' = [cq EXCEPT ![t] = new]
                      /\ WellFormed(new, QueueLen, Values)
  <2>1. HasRoom(cq[t]) /\ wptr[t] = cq[t].writeIdx
    BY <1>0, <1>2 DEF Compress, Core, SlotInv
  <2>2. blk[t] \in Values
    BY TypeFacts DEF Values
  <2>3. WellFormed(FillBlock(cq[t], cq[t].writeIdx, blk[t]), QueueLen, Values)
    BY <1>0, <2>1, <2>2, FillPreserves
  <2> QED
    BY <1>2, <2>1, <2>3 DEF Compress
<1>3. ASSUME NEW t \in Workers, PushBlock(t)
      PROVE  \E new : /\ cq' = [cq EXCEPT ![t] = new]
                      /\ WellFormed(new, QueueLen, Values)
  <2>1. HasRoom(cq[t])
    BY <1>0, <1>3 DEF PushBlock, Core, SlotInv
  <2>2. WellFormed(PushWriteBlock(cq[t]), QueueLen, Values)
    BY <1>0, <2>1, PushAppends
  <2> QED
    BY <1>3, <2>2 DEF PushBlock
<1>4. ASSUME PopBlock
      PROVE  /\ Source \in Workers
             /\ \E new : /\ cq' = [cq EXCEPT ![Source] = new]
                         /\ WellFormed(new, QueueLen, Values)
  <2>1. Source \in Workers /\ cq[Source].numTaken > 0
    BY <1>4, HeadFirst DEF PopBlock
  <2>2. WellFormed(PopReadBlock(cq[Source]), QueueLen, Values)
    BY <1>0, <2>1, PopRemovesHead
  <2> QED
    BY <1>4, <2>1, <2>2 DEF PopBlock
<1>5. \/ cq' = cq
      \/ \E t \in Workers : Compress(t) \/ PushBlock(t)
      \/ PopBlock
  BY DEF Next, Main, Compressor, Writer, RejectDims, OpenFails, StartWriter, JoinAll,
         StartWorker, ClaimBlock, ReserveSlot, SpuriousWakeup, Announce, NotifyWriter,
         WriteHeader, CheckNext, SpuriousWriterWakeup, FlushIfFull, CopyBlock,
         NotifyCompressor, RecordOffset, LastFlush, WriteTable, CloseFile, Finished, vars
<1>6. CASE \E t \in Workers : Compress(t) \/ PushBlock(t)
  <2>1. PICK t \in Workers : Compress(t) \/ PushBlock(t)
    BY <1>6
  <2>2. PICK new : /\ cq' = [cq EXCEPT ![t] = new]
                   /\ WellFormed(new, QueueLen, Values)
    BY <1>2, <1>3, <2>1
  <2> QED
    BY <1>1, <2>2
<1>7. CASE PopBlock
  <2>1. PICK new : /\ cq' = [cq EXCEPT ![Source] = new]
                   /\ WellFormed(new, QueueLen, Values)
    BY <1>4, <1>7
  <2>2. Source \in Workers
    BY <1>4, <1>7
  <2> QED
    BY <1>1, <2>1, <2>2
<1> QED
  BY <1>0, <1>5, <1>6, <1>7

\* A compressor's step keeps its own variables in their types.
LEMMA CompressorTypes ==
    ASSUME IInv, NEW t \in Workers, Compressor(t) \/ SpuriousWakeup(t)
    PROVE  /\ blockId' \in Nat
           /\ g_blockSize' \in [Blocks -> Sizes \cup {0, Unset}]
           /\ g_blockThreadId' \in [Blocks -> Workers \cup {Unset}]
           /\ pc' \in [Workers -> PcValues]
           /\ blk' \in [Workers -> Blocks]
           /\ wptr' \in [Workers -> 0 .. QueueLen - 1]
           /\ csize' \in [Workers -> Sizes \cup {0}]
           /\ errFlag' \in [Workers -> ErrorCodes]
<1>0. /\ TypeOK /\ blockId \in Nat
      /\ g_blockSize \in [Blocks -> Sizes \cup {0, Unset}]
      /\ g_blockThreadId \in [Blocks -> Workers \cup {Unset}]
      /\ pc \in [Workers -> PcValues]
      /\ blk \in [Workers -> Blocks]
      /\ wptr \in [Workers -> 0 .. QueueLen - 1]
      /\ csize \in [Workers -> Sizes \cup {0}]
      /\ errFlag \in [Workers -> ErrorCodes]
  BY TypeFacts DEF TypeOK
<1>1. CASE ClaimBlock(t)
  <2>1. /\ blockId' \in Nat
        /\ UNCHANGED <<g_blockSize, g_blockThreadId, wptr, csize, errFlag>>
        /\ \/ pc' = [pc EXCEPT ![t] = "done"] /\ blk' = blk
           \/ /\ pc' = [pc EXCEPT ![t] = "reserve"]
              /\ blk' = [blk EXCEPT ![t] = blockId]
              /\ blockId < NumBlocks
    BY <1>0, <1>1 DEF ClaimBlock, boardVars
  <2>2. blockId < NumBlocks => blockId \in Blocks
    BY <1>0, WritePipelineAssumption DEF Blocks
  <2>3. pc' \in [Workers -> PcValues] /\ blk' \in [Workers -> Blocks]
    BY <1>0, <2>1, <2>2 DEF PcValues
  <2> QED
    BY <1>0, <2>1, <2>3
<1>2. CASE ReserveSlot(t) \/ SpuriousWakeup(t)
  <2>1. cq[t].writeIdx \in 0 .. QueueLen - 1
    <3>1. WellFormed(cq[t], QueueLen, Values)
      BY <1>0, QueueFacts
    <3> QED
      BY <3>1 DEF WellFormed
  <2>2. /\ UNCHANGED <<blockId, g_blockSize, g_blockThreadId, blk, csize, errFlag>>
        /\ wptr' = wptr \/ wptr' = [wptr EXCEPT ![t] = cq[t].writeIdx]
        /\ \/ pc' = [pc EXCEPT ![t] = "compress"]
           \/ pc' = [pc EXCEPT ![t] = "asleep"]
           \/ pc' = [pc EXCEPT ![t] = "reserve"]
    BY <1>2 DEF ReserveSlot, SpuriousWakeup, GetWriteBlock, boardVars
  <2>3. pc' \in [Workers -> PcValues] /\ wptr' \in [Workers -> 0 .. QueueLen - 1]
    BY <1>0, <2>1, <2>2 DEF PcValues
  <2> QED
    BY <1>0, <2>2, <2>3
<1>3. CASE Compress(t)
  <2>1. PICK o \in Outcomes(errFlag[t]) :
            /\ csize' = [csize EXCEPT ![t] = o.size]
            /\ errFlag' = [errFlag EXCEPT ![t] = o.flag]
    BY <1>3 DEF Compress
  <2>2. o.size \in Sizes \cup {0} /\ o.flag \in ErrorCodes
    <3>1. errFlag[t] \in ErrorCodes
      BY <1>0
    <3> QED
      BY <1>0, <2>1, <3>1, OutcomesType
  <2>3. /\ UNCHANGED <<blockId, g_blockSize, g_blockThreadId, blk, wptr>>
        /\ pc' = [pc EXCEPT ![t] = "push"]
    BY <1>3 DEF Compress, boardVars
  <2>4. pc' \in [Workers -> PcValues]
    BY <1>0, <2>3 DEF PcValues
  <2> QED
    BY <1>0, <2>1, <2>2, <2>3, <2>4
<1>4. CASE PushBlock(t) \/ NotifyWriter(t)
  <2>1. /\ UNCHANGED <<blockId, g_blockSize, g_blockThreadId, blk, wptr, csize, errFlag>>
        /\ pc' = [pc EXCEPT ![t] = "announce"] \/ pc' = [pc EXCEPT ![t] = "claim"]
    BY <1>4 DEF PushBlock, NotifyWriter, boardVars
  <2>2. pc' \in [Workers -> PcValues]
    BY <1>0, <2>1 DEF PcValues
  <2> QED
    BY <1>0, <2>1, <2>2
<1>5. CASE Announce(t)
  <2>1. /\ g_blockSize' = [g_blockSize EXCEPT ![blk[t]] = csize[t]]
        /\ g_blockThreadId' = [g_blockThreadId EXCEPT ![blk[t]] = t]
        /\ pc' = [pc EXCEPT ![t] = "notify"]
        /\ UNCHANGED <<blockId, blk, wptr, csize, errFlag>>
    BY <1>5 DEF Announce
  <2>2. csize[t] \in Sizes \cup {0, Unset} /\ t \in Workers \cup {Unset}
    BY <1>0
  <2>3. pc' \in [Workers -> PcValues]
    BY <1>0, <2>1 DEF PcValues
  <2> QED
    BY <1>0, <2>1, <2>2, <2>3
<1> QED
  BY <1>1, <1>2, <1>3, <1>4, <1>5 DEF Compressor
\* A set of numbers that is not empty has a smallest element.
LEMMA SmallestElement ==
    ASSUME NEW T, T \subseteq Nat, T # {}
    PROVE  \E x \in T : \A y \in T : x <= y
<1> DEFINE R == {ss \in Nat \X Nat : ss[1] < ss[2]}
<1>1. IsWellFoundedOn(R, Nat)
  BY Zenon, NatLessThanWellFounded DEF OpToRel
<1>2. \E x \in T : \A y \in T : ~ (<<y, x>> \in R)
  <2> HIDE DEF R
  <2> QED
    BY <1>1, WFMin
<1>3. ASSUME NEW x \in T, NEW y \in T, ~ (<<y, x>> \in R)
      PROVE  x <= y
  <2>1. x \in Nat /\ y \in Nat
    OBVIOUS
  <2>2. ~ (y < x)
    BY <1>3, <2>1
  <2> QED
    BY <2>1, <2>2
<1> QED
  BY <1>2, <1>3

\* The error that is returned is one of the codes.
LEMMA FirstErrorType ==
    ASSUME TypeOK
    PROVE  FirstError \in ErrorCodes
<1> DEFINE failing == {t \in Workers : errFlag[t] # NoError}
<1>1. errFlag \in [Workers -> ErrorCodes] /\ NoError \in ErrorCodes
  BY DEF TypeOK, ErrorCodes, NoError
<1>2. CASE failing = {}
  BY <1>1, <1>2 DEF FirstError
<1>3. CASE failing # {}
  <2>1. failing \subseteq Nat
    BY NumberFacts
  <2>2. \E t \in failing : \A u \in failing : t <= u
    <3>1. PICK n \in failing : TRUE
      BY <1>3
    <3>2. \E t \in failing : \A u \in failing : t <= u
      BY <2>1, <3>1, SmallestElement
    <3> QED
      BY <3>2
  <2>3. (CHOOSE t \in failing : \A u \in failing : t <= u) \in failing
    BY <2>2
  <2> QED
    BY <1>1, <1>3, <2>3 DEF FirstError
<1> QED
  BY <1>2, <1>3

\* Every step keeps the types.
LEMMA TypeStep ==
    ASSUME IInv, [Next]_vars
    PROVE  TypeOK'
<1>0. /\ TypeOK
      /\ pc \in [Workers -> PcValues]
      /\ wpc \in {"off", "header", "check", "asleep", "flush", "copy", "pop",
                  "notify", "record", "lastflush", "table", "close", "done"}
      /\ fout \in [header : BOOLEAN, table : Offsets,
                   data : Seq(Values \X Nat), open : BOOLEAN]
  BY TypeFacts DEF TypeOK, Values
<1>1. CASE UNCHANGED vars
  BY <1>0, <1>1 DEF TypeOK, vars, mainVars, boardVars, workerVars, writerVars
<1>2. CASE \E t \in Workers : Compressor(t) \/ SpuriousWakeup(t)
  <2>1. PICK t \in Workers : Compressor(t) \/ SpuriousWakeup(t)
    BY <1>2
  <2>2. /\ UNCHANGED <<mainVars, nextBlockId, offset, bufferMem, blockOffset, fout>>
        /\ wpc' = wpc \/ wpc' = "check"
    BY <2>1 DEF Compressor, ClaimBlock, ReserveSlot, Compress, PushBlock, Announce,
                NotifyWriter, SpuriousWakeup, writerVars
  <2>3. DOMAIN cq' = Workers /\ \A u \in Workers : WellFormed(cq'[u], QueueLen, Values)
    BY <2>1, QueueTypes DEF Next
  <2>4. /\ blockId' \in Nat
        /\ g_blockSize' \in [Blocks -> Sizes \cup {0, Unset}]
        /\ g_blockThreadId' \in [Blocks -> Workers \cup {Unset}]
        /\ pc' \in [Workers -> PcValues]
        /\ blk' \in [Workers -> Blocks]
        /\ wptr' \in [Workers -> 0 .. QueueLen - 1]
        /\ csize' \in [Workers -> Sizes \cup {0}]
        /\ errFlag' \in [Workers -> ErrorCodes]
    BY <2>1, CompressorTypes
  <2> QED
    BY <1>0, <2>2, <2>3, <2>4 DEF TypeOK, mainVars, PcValues, Values
<1>3. CASE Writer \/ SpuriousWriterWakeup
  <2>1. /\ UNCHANGED <<mainVars, blockId, boardVars, blk, wptr, csize, errFlag>>
        /\ pc' = pc \/ pc' = [pc EXCEPT ![Source] = IF @ = "asleep" THEN "reserve" ELSE @]
    BY <1>3 DEF Writer, WriteHeader, CheckNext, SpuriousWriterWakeup, FlushIfFull,
                CopyBlock, PopBlock, NotifyCompressor, RecordOffset, LastFlush,
                WriteTable, CloseFile, workerVars
  <2>2. pc' \in [Workers -> PcValues]
    BY <1>0, <2>1 DEF PcValues
  <2>3. DOMAIN cq' = Workers /\ \A u \in Workers : WellFormed(cq'[u], QueueLen, Values)
    BY <1>3, QueueTypes DEF Next
  <2>4. /\ wpc' \in {"off", "header", "check", "asleep", "flush", "copy", "pop",
                     "notify", "record", "lastflush", "table", "close", "done"}
        /\ nextBlockId' \in 0 .. NumBlocks
        /\ offset' \in Nat
        /\ bufferMem' \in Seq(Values \X Nat)
        /\ blockOffset' \in Offsets
        /\ fout' \in [header : BOOLEAN, table : Offsets,
                      data : Seq(Values \X Nat), open : BOOLEAN]
    BY <1>3, WriterTypes
  <2> QED
    BY <1>0, <2>1, <2>2, <2>3, <2>4
       DEF TypeOK, mainVars, boardVars, PcValues, Values
<1>4. CASE Main
  <2>1. UNCHANGED <<compressionType, blockId, cq, boardVars, blk, wptr, csize, errFlag,
                    nextBlockId, offset, bufferMem, blockOffset>>
    BY <1>4 DEF Main, RejectDims, OpenFails, StartWriter, JoinAll, StartWorker,
                workerVars, writerVars
  <2>2. pcMain' \in {"call", "start", "join", "returned"}
    BY <1>4 DEF Main, RejectDims, OpenFails, StartWriter, JoinAll, StartWorker
  <2>3. result' \in ErrorCodes \cup {Running}
    <3>1. {3, 5, result, FirstError} \subseteq ErrorCodes \cup {Running}
      BY <1>0, FirstErrorType DEF TypeOK, ErrorCodes
    <3>2. result' \in {3, 5, result, FirstError}
      BY <1>4 DEF Main, RejectDims, OpenFails, StartWriter, JoinAll, StartWorker
    <3> QED
      BY <3>1, <3>2
  <2>4. pc' \in [Workers -> PcValues]
    <3>1. pc' = pc \/ \E t \in Workers : pc' = [pc EXCEPT ![t] = "claim"]
      BY <1>4 DEF Main, RejectDims, OpenFails, StartWriter, JoinAll, StartWorker,
                  workerVars
    <3> QED
      BY <1>0, <3>1 DEF PcValues
  <2>5. /\ wpc' \in {wpc, "header"}
        /\ fout' = fout \/ fout' = [fout EXCEPT !.open = TRUE]
    BY <1>4 DEF Main, RejectDims, OpenFails, StartWriter, JoinAll, StartWorker,
                writerVars
  <2>6. fout' \in [header : BOOLEAN, table : Offsets,
                   data : Seq(Values \X Nat), open : BOOLEAN]
    BY <1>0, <2>5
  <2> QED
    BY <1>0, <2>1, <2>2, <2>3, <2>4, <2>5, <2>6
       DEF TypeOK, boardVars, PcValues, Values
<1>5. CASE Finished
  BY <1>0, <1>5 DEF Finished, TypeOK, vars, mainVars, boardVars, workerVars, writerVars
<1> QED
  BY <1>1, <1>2, <1>3, <1>4, <1>5 DEF Next
-----------------------------------------------------------------------------
(* The buffer and the wakeups.                                             *)

\* What is announced stays as it is: only claimed blocks are announced, and only
\* by the compressor that works on them.
LEMMA AnnouncedStays ==
    ASSUME IInv, [Next]_vars, NEW b \in Blocks, Available(b)
    PROVE  g_blockSize'[b] = g_blockSize[b] /\ g_blockThreadId'[b] = g_blockThreadId[b]
<1>1. CASE \E t \in Workers : Announce(t)
  <2>1. PICK t \in Workers : Announce(t)
    BY <1>1
  <2>2. /\ g_blockSize \in [Blocks -> Sizes \cup {0, Unset}]
        /\ g_blockThreadId \in [Blocks -> Workers \cup {Unset}]
        /\ g_blockThreadId[blk[t]] = Unset
    BY <2>1, TypeFacts DEF Announce, Core, ClaimInv, Working
  <2>3. blk[t] # b
    BY <2>2 DEF Available, Unset
  <2> QED
    BY <2>1, <2>2, <2>3 DEF Announce
<1>2. CASE UNCHANGED boardVars
  BY <1>2 DEF boardVars
<1>3. CASE UNCHANGED vars
  BY <1>3 DEF vars, boardVars
<1>4. Next => UNCHANGED boardVars \/ \E t \in Workers : Announce(t)
  BY DEF Next, Main, Compressor, Writer, RejectDims, OpenFails, StartWriter, JoinAll,
         StartWorker, ClaimBlock, ReserveSlot, SpuriousWakeup, Compress, PushBlock,
         NotifyWriter, WriteHeader, CheckNext, SpuriousWriterWakeup, FlushIfFull,
         CopyBlock, PopBlock, NotifyCompressor, RecordOffset, LastFlush, WriteTable,
         CloseFile, Finished, vars, boardVars
<1> QED
  BY <1>1, <1>2, <1>3, <1>4

\* The size of the block the writer goes on with, and its announcement.
LEMMA NextIsAnnounced ==
    ASSUME IInv, wpc \in {"flush", "copy", "pop", "notify", "record"}
    PROVE  /\ nextBlockId \in Blocks /\ Available(nextBlockId)
           /\ g_blockSize[nextBlockId] \in Nat
           /\ g_blockSize[nextBlockId] <= BufferMaxSize
<1>1. /\ nextBlockId \in Blocks
      /\ g_blockThreadId[nextBlockId] \in Workers
      /\ g_blockThreadId[nextBlockId] # Unset
  BY TypeFacts, NumberFacts DEF Core, WriterInv
<1>2. g_blockSize[nextBlockId] # Unset
  BY <1>1, TypeFacts DEF Core, BoardInv
<1>3. g_blockSize[nextBlockId] \in Sizes \cup {0}
  BY <1>1, <1>2, TypeFacts
<1>4. /\ g_blockSize[nextBlockId] \in Nat /\ g_blockSize[nextBlockId] <= BufferMaxSize
      /\ g_blockThreadId[nextBlockId] \in Nat
  BY <1>1, <1>3, NumberFacts
<1> QED
  BY <1>1, <1>4 DEF Available

\* The lengths of two sequences add up, whatever their elements.
LEMMA LengthOfConcat ==
    ASSUME NEW S, NEW T, NEW s \in Seq(S), NEW t \in Seq(T)
    PROVE  Len(s \o t) = Len(s) + Len(t)
<1>1. s \in Seq(S \cup T) /\ t \in Seq(S \cup T)
  OBVIOUS
<1> QED
  BY <1>1

\* Every step keeps what the writer gathers within its buffer.
LEMMA BufferStep ==
    ASSUME IInv, [Next]_vars
    PROVE  BufferFits' /\ RoomInv'
<1>0. /\ bufferMem \in Seq(Values \X Nat) /\ BufferMaxSize \in Nat
      /\ Len(bufferMem) \in Nat /\ Len(bufferMem) <= BufferMaxSize
  BY TypeFacts, WritePipelineAssumption DEF TypeOK, Values, IInv, BufferFits
<1>1. CASE FlushIfFull
  <2>1. /\ nextBlockId \in Blocks /\ nextBlockId' = nextBlockId
        /\ g_blockSize' = g_blockSize
        /\ g_blockSize[nextBlockId] \in Nat
        /\ g_blockSize[nextBlockId] <= BufferMaxSize
    BY <1>1, NextIsAnnounced DEF FlushIfFull, boardVars
  <2>2. CASE Len(bufferMem) + g_blockSize[nextBlockId] > BufferMaxSize
    <3>1. bufferMem' = <<>>
      BY <1>1, <2>2 DEF FlushIfFull, FlushBuffer
    <3> QED
      BY <1>0, <2>1, <3>1 DEF BufferFits, RoomInv
  <2>3. CASE ~ (Len(bufferMem) + g_blockSize[nextBlockId] > BufferMaxSize)
    <3>1. bufferMem' = bufferMem
      BY <1>1, <2>3 DEF FlushIfFull
    <3>2. Len(bufferMem) + g_blockSize[nextBlockId] <= BufferMaxSize
      BY <1>0, <2>1, <2>3
    <3> QED
      BY <1>0, <2>1, <3>1, <3>2 DEF BufferFits, RoomInv
  <2> QED
    BY <2>2, <2>3
<1>2. CASE CopyBlock
  <2> DEFINE v == cq[Source].dataBuffer[ReadPtr]
             n == g_blockSize[nextBlockId]
  <2>1. n \in Nat /\ Len(bufferMem) + n <= BufferMaxSize
    BY <1>2, NextIsAnnounced DEF CopyBlock, IInv, RoomInv
  <2>2. bufferMem' = bufferMem \o BytesOf(v, n) /\ wpc' = "pop"
    BY <1>2 DEF CopyBlock
  <2> HIDE DEF v, n
  <2>3. BytesOf(v, n) \in Seq({v} \X Nat) /\ Len(BytesOf(v, n)) = n
    BY <2>1 DEF BytesOf
  <2>4. Len(bufferMem \o BytesOf(v, n)) = Len(bufferMem) + n
    <3>1. Len(BytesOf(v, n)) \in Nat /\ Len(bufferMem) \in Nat
      BY <1>0, <2>1, <2>3
    <3>2. Len(bufferMem \o BytesOf(v, n)) = Len(bufferMem) + Len(BytesOf(v, n))
      <4> DEFINE A == Values \X Nat
                 B == {v} \X Nat
                 s == BytesOf(v, n)
      <4>1. bufferMem \in Seq(A) /\ s \in Seq(B)
        BY <1>0, <2>3
      <4> HIDE DEF A, B, s
      <4>2. Len(bufferMem \o s) = Len(bufferMem) + Len(s)
        BY <4>1, LengthOfConcat
      <4> QED
        BY <4>2 DEF s
    <3> QED
      BY <2>3, <3>2
  <2> QED
    BY <2>1, <2>2, <2>4 DEF BufferFits, RoomInv
<1>3. CASE LastFlush
  <2>1. bufferMem' = <<>> /\ wpc' = "table"
    BY <1>3 DEF LastFlush, FlushBuffer
  <2> QED
    BY <1>0, <2>1 DEF BufferFits, RoomInv
<1>4. ASSUME ~FlushIfFull, ~CopyBlock, ~LastFlush
      PROVE  /\ bufferMem' = bufferMem
             /\ wpc' = "copy" => wpc = "copy" /\ nextBlockId' = nextBlockId
  BY <1>4
     DEF Next, Main, Compressor, Writer, RejectDims, OpenFails, StartWriter, JoinAll,
         StartWorker, ClaimBlock, ReserveSlot, SpuriousWakeup, Compress, PushBlock,
         Announce, NotifyWriter, WriteHeader, CheckNext, SpuriousWriterWakeup,
         PopBlock, NotifyCompressor, RecordOffset, WriteTable, CloseFile, Finished,
         vars, writerVars
<1>5. CASE ~FlushIfFull /\ ~CopyBlock /\ ~LastFlush
  <2>1. BufferFits'
    BY <1>0, <1>4, <1>5 DEF BufferFits
  <2>2. RoomInv'
    <3>1. wpc = "copy" => nextBlockId \in Blocks /\ Available(nextBlockId)
      BY NextIsAnnounced
    <3> QED
      BY <1>4, <1>5, <3>1, AnnouncedStays DEF IInv, RoomInv
  <2> QED
    BY <2>1, <2>2
<1> QED
  BY <1>1, <1>2, <1>3, <1>5

\* No step starts the writer twice.
LEMMA StartStep ==
    ASSUME IInv, [Next]_vars
    PROVE  StartInv'
<1>1. pcMain' = "call" => pcMain = "call" /\ wpc' = wpc
  <2>1. CASE Main \/ Finished \/ UNCHANGED vars
    BY <2>1 DEF Main, RejectDims, OpenFails, StartWriter, JoinAll, StartWorker,
                Finished, vars, mainVars, writerVars
  <2>2. CASE \E t \in Workers : Compressor(t) \/ SpuriousWakeup(t)
    <3>1. pcMain' = pcMain
      BY <2>2 DEF Compressor, ClaimBlock, ReserveSlot, SpuriousWakeup, Compress,
                  PushBlock, Announce, NotifyWriter, mainVars
    <3>2. wpc = "off" => wpc' = "off"
      BY <2>2 DEF Compressor, ClaimBlock, ReserveSlot, SpuriousWakeup, Compress,
                  PushBlock, Announce, NotifyWriter, writerVars
    <3> QED
      BY <3>1, <3>2 DEF IInv, StartInv
  <2>3. CASE Writer \/ SpuriousWriterWakeup
    <3>1. pcMain' = pcMain /\ wpc # "off"
      BY <2>3 DEF Writer, WriteHeader, CheckNext, SpuriousWriterWakeup, FlushIfFull,
                  CopyBlock, PopBlock, NotifyCompressor, RecordOffset, LastFlush,
                  WriteTable, CloseFile, mainVars
    <3> QED
      BY <3>1 DEF IInv, StartInv
  <2> QED
    BY <2>1, <2>2, <2>3 DEF Next
<1> QED
  BY <1>1 DEF IInv, StartInv

\* A compressor that announces notifies; until it has, the writer that went to
\* sleep before the announcement is not forgotten.
LEMMA WriterWakeupStep ==
    ASSUME IInv, [Next]_vars
    PROVE  WriterWakeupPending'
<1> SUFFICES ASSUME wpc' = "asleep", Available(nextBlockId)'
             PROVE  \E t \in Workers : pc'[t] = "notify"
  BY DEF WriterWakeupPending
<1>0. pc \in [Workers -> PcValues]
  BY TypeFacts
<1>1. CASE \E t \in Workers : Announce(t)
  BY <1>0, <1>1 DEF Announce
<1>2. CASE CheckNext
  BY <1>2 DEF CheckNext, Available, boardVars
<1>3. ASSUME ~CheckNext, ~ \E t \in Workers : Announce(t)
      PROVE  wpc = "asleep" /\ Available(nextBlockId)
  <2>1. wpc = "asleep" /\ nextBlockId' = nextBlockId
    BY <1>3
       DEF Next, Main, Compressor, Writer, RejectDims, OpenFails, StartWriter,
           JoinAll, StartWorker, ClaimBlock, ReserveSlot, SpuriousWakeup, Compress,
           PushBlock, NotifyWriter, WriteHeader, SpuriousWriterWakeup, FlushIfFull,
           CopyBlock, PopBlock, NotifyCompressor, RecordOffset, LastFlush, WriteTable,
           CloseFile, Finished, vars, writerVars
  <2>2. UNCHANGED <<g_blockSize, g_blockThreadId>>
    BY <1>3
       DEF Next, Main, Compressor, Writer, RejectDims, OpenFails, StartWriter,
           JoinAll, StartWorker, ClaimBlock, ReserveSlot, SpuriousWakeup, Compress,
           PushBlock, NotifyWriter, WriteHeader, SpuriousWriterWakeup, FlushIfFull,
           CopyBlock, PopBlock, NotifyCompressor, RecordOffset, LastFlush, WriteTable,
           CloseFile, Finished, vars, boardVars
  <2> QED
    BY <2>1, <2>2 DEF Available
<1>4. ASSUME ~CheckNext, ~ \E t \in Workers : Announce(t),
             NEW t \in Workers, pc[t] = "notify"
      PROVE  pc'[t] = "notify"
  <2>1. ~ \E u \in Workers : NotifyWriter(u)
    BY <1>3, <1>4 DEF NotifyWriter
  <2>2. CASE \E u \in Workers : \/ StartWorker(u) \/ ClaimBlock(u) \/ ReserveSlot(u)
                                \/ SpuriousWakeup(u) \/ Compress(u) \/ PushBlock(u)
    <3>1. PICK u \in Workers : \/ StartWorker(u) \/ ClaimBlock(u) \/ ReserveSlot(u)
                               \/ SpuriousWakeup(u) \/ Compress(u) \/ PushBlock(u)
      BY <2>2
    <3>2. u >= u
      BY NumberFacts
    <3>3. pc[u] # "notify"
      BY <3>1, <3>2 DEF StartWorker, ClaimBlock, ReserveSlot, SpuriousWakeup, Compress,
                        PushBlock
    <3>4. \E v : pc' = [pc EXCEPT ![u] = v]
      BY <3>1 DEF StartWorker, ClaimBlock, ReserveSlot, SpuriousWakeup, Compress,
                  PushBlock
    <3> QED
      BY <1>0, <1>4, <3>3, <3>4
  <2>3. CASE NotifyCompressor
    BY <1>0, <1>4, <2>3 DEF NotifyCompressor
  <2>4. ASSUME ~NotifyCompressor,
               ~ \E u \in Workers : \/ StartWorker(u) \/ ClaimBlock(u) \/ ReserveSlot(u)
                                    \/ SpuriousWakeup(u) \/ Compress(u) \/ PushBlock(u)
        PROVE  pc' = pc
    BY <1>4, <2>1, <2>4
       DEF Next, Main, Compressor, Writer, RejectDims, OpenFails, StartWriter, JoinAll,
           WriteHeader, SpuriousWriterWakeup, FlushIfFull, CopyBlock, PopBlock,
           RecordOffset, LastFlush, WriteTable, CloseFile, Finished, vars, workerVars
  <2> QED
    BY <1>4, <2>2, <2>3, <2>4
<1> QED
  BY <1>1, <1>2, <1>3, <1>4 DEF IInv, WriterWakeupPending
\* Only the owner of a queue sleeps on it, and only when it is full; only the
\* writer makes room in it, and then notifies it.
LEMMA CompressorWakeupStep ==
    ASSUME IInv, [Next]_vars
    PROVE  CompressorWakeupPending'
<1> SUFFICES ASSUME NEW t \in Workers, pc'[t] = "asleep", HasRoom(cq'[t])
             PROVE  wpc' = "notify" /\ Source' = t
  BY DEF CompressorWakeupPending, HasRoom
<1>0. /\ TypeOK /\ Core
      /\ pc \in [Workers -> PcValues] /\ DOMAIN cq = Workers
  BY TypeFacts
<1>1. CASE PopBlock
  <2>1. /\ wpc' = "notify" /\ Source' = Source /\ Source \in Workers
        /\ wpc = "pop" /\ pc' = pc
        /\ cq' = [cq EXCEPT ![Source] = PopReadBlock(@)]
    BY <1>1, HeadFirst DEF PopBlock, Source, boardVars, workerVars
  <2>2. CASE t = Source
    BY <2>1, <2>2
  <2>3. CASE t # Source
    <3>1. pc[t] = "asleep" /\ HasRoom(cq[t])
      BY <1>0, <2>1, <2>3
    <3> QED
      BY <2>1, <3>1 DEF IInv, CompressorWakeupPending
  <2> QED
    BY <2>2, <2>3
<1>2. CASE NotifyCompressor
  <2>1. /\ cq' = cq /\ wpc = "notify"
        /\ pc' = [pc EXCEPT ![Source] = IF @ = "asleep" THEN "reserve" ELSE @]
    BY <1>2 DEF NotifyCompressor
  <2>2. t # Source
    BY <1>0, <2>1
  <2>3. pc[t] = "asleep" /\ HasRoom(cq[t])
    BY <1>0, <2>1, <2>2
  <2> QED
    BY <2>2, <2>3 DEF IInv, CompressorWakeupPending
<1>3. CASE \E u \in Workers : Compressor(u) \/ SpuriousWakeup(u)
  <2>1. PICK u \in Workers : Compressor(u) \/ SpuriousWakeup(u)
    BY <1>3
  <2>2. CASE u = t
    <3>1. ReserveSlot(t)
      BY <1>0, <2>1, <2>2
         DEF Compressor, ClaimBlock, SpuriousWakeup, Compress, PushBlock, Announce,
             NotifyWriter
    <3>2. ~HasRoom(cq[t]) /\ cq' = cq
      BY <1>0, <3>1 DEF ReserveSlot
    <3> QED
      BY <3>2
  <2>3. CASE u # t
    <3>1. pc'[t] = pc[t]
      <4>1. \E v : pc' = [pc EXCEPT ![u] = v]
        BY <2>1 DEF Compressor, ClaimBlock, ReserveSlot, SpuriousWakeup, Compress,
                    PushBlock, Announce, NotifyWriter
      <4> QED
        BY <1>0, <2>3, <4>1
    <3>2. cq'[t] = cq[t]
      <4>1. cq' = cq \/ \E v : cq' = [cq EXCEPT ![u] = v]
        BY <2>1 DEF Compressor, ClaimBlock, ReserveSlot, SpuriousWakeup, Compress,
                    PushBlock, Announce, NotifyWriter
      <4> QED
        BY <1>0, <2>3, <4>1
    <3>3. wpc = "notify" /\ Source = t
      BY <3>1, <3>2 DEF IInv, CompressorWakeupPending
    <3>4. wpc' = "notify" /\ nextBlockId' = nextBlockId
      BY <2>1, <3>3 DEF Compressor, ClaimBlock, ReserveSlot, SpuriousWakeup, Compress,
                        PushBlock, Announce, NotifyWriter, writerVars
    <3>5. nextBlockId \in Blocks /\ Available(nextBlockId)
      BY <3>3, NextIsAnnounced
    <3> QED
      BY <3>3, <3>4, <3>5, AnnouncedStays DEF Source
  <2> QED
    BY <2>2, <2>3
<1>4. CASE \E u \in Workers : StartWorker(u)
  <2>1. PICK u \in Workers : StartWorker(u)
    BY <1>4
  <2>2. pc[t] = "asleep" /\ cq' = cq
    BY <1>0, <2>1 DEF StartWorker
  <2>3. wpc' = wpc /\ Source' = Source
    BY <2>1 DEF StartWorker, Source, writerVars, boardVars
  <2> QED
    BY <2>2, <2>3 DEF IInv, CompressorWakeupPending
<1>5. CASE \/ RejectDims \/ OpenFails \/ JoinAll \/ Finished \/ UNCHANGED vars
  <2>1. UNCHANGED <<pc, cq, wpc, nextBlockId, g_blockThreadId>>
    BY <1>5 DEF RejectDims, OpenFails, JoinAll, Finished, vars, workerVars, writerVars,
                boardVars
  <2> QED
    BY <2>1 DEF IInv, CompressorWakeupPending, Source
<1>6. CASE \/ StartWriter \/ WriteHeader \/ CheckNext \/ SpuriousWriterWakeup
           \/ FlushIfFull \/ CopyBlock \/ RecordOffset \/ LastFlush \/ WriteTable
           \/ CloseFile
  <2>1. UNCHANGED <<pc, cq>> /\ wpc # "notify"
    <3>1. CASE StartWriter
      BY <3>1 DEF StartWriter, workerVars, IInv, StartInv
    <3> QED
      BY <1>6, <3>1
         DEF WriteHeader, CheckNext, SpuriousWriterWakeup, FlushIfFull, CopyBlock,
             RecordOffset, LastFlush, WriteTable, CloseFile, workerVars
  <2> QED
    BY <2>1 DEF IInv, CompressorWakeupPending
<1> QED
  BY <1>1, <1>2, <1>3, <1>4, <1>5, <1>6 DEF Next, Main, Writer

-----------------------------------------------------------------------------
(* The invariant holds initially.                                          *)

\* The invariant holds in the initial states.
LEMMA InitIInv == Init => IInv
<1> SUFFICES ASSUME Init
             PROVE  IInv
  OBVIOUS
<1>1. /\ QueueLen \in Nat \ {0} /\ 0 \in Workers /\ 0 \in Blocks
      /\ NumBlocks \in Nat /\ BufferMaxSize \in Nat
  BY Dimensions, NumberFacts, WritePipelineAssumption
<1>2. \A t \in Workers : /\ cq[t] = NewDequeue(QueueLen, Junk)
                         /\ WellFormed(cq[t], QueueLen, Values)
                         /\ cq[t].numTaken = 0
                         /\ pc[t] = "off"
  <2>1. /\ WellFormed(NewDequeue(QueueLen, Junk), QueueLen, Values)
        /\ NewDequeue(QueueLen, Junk).numTaken = 0
    BY <1>1, NewDequeueWellFormed DEF Values
  <2> QED
    BY <2>1 DEF Init
<1>3. TypeOK
  <2>1. DOMAIN cq = Workers /\ \A t \in Workers : WellFormed(cq[t], QueueLen, Values)
    BY <1>2 DEF Init
  <2>2. fout \in [header : BOOLEAN, table : Offsets,
                  data : Seq(Values \X Nat), open : BOOLEAN]
    BY DEF Init, Offsets
  <2>3. bufferMem \in Seq(Values \X Nat)
    BY DEF Init
  <2>4. 0 \in 0 .. QueueLen - 1 /\ 0 \in 0 .. NumBlocks
    BY <1>1
  <2> QED
    BY <1>1, <2>1, <2>2, <2>3, <2>4
       DEF TypeOK, Init, Values, Offsets, ErrorCodes, NoError, Running
<1>4. BoardInv /\ ClaimInv /\ DistinctInv /\ PushedInv /\ SlotInv /\ WriterInv
  <2>1. \A b \in Blocks : ~ (b < 0)
    BY <1>1, NumberFacts
  <2> QED
    BY <1>2, <2>1
       DEF Init, BoardInv, ClaimInv, DistinctInv, PushedInv, SlotInv, WriterInv,
           Working, Popped
<1>5. QueueInv
  <2>1. \A t \in Workers : 1 .. cq[t].numTaken = {}
    BY <1>2
  <2> QED
    BY <2>1 DEF QueueInv
<1>6. AnnouncedInv
  <2>1. \A t \in Workers : \A b \in Blocks : g_blockThreadId[b] # t
    BY NumberFacts DEF Init
  <2> QED
    BY <2>1 DEF AnnouncedInv
<1>7. StartInv /\ BufferFits /\ RoomInv /\ WriterWakeupPending /\ CompressorWakeupPending
  BY <1>1, <1>2
     DEF Init, StartInv, BufferFits, RoomInv, WriterWakeupPending, CompressorWakeupPending
<1> QED
  BY <1>3, <1>4, <1>5, <1>6, <1>7 DEF IInv, Core

-----------------------------------------------------------------------------
(* The theorems.                                                           *)

\* IInv is an inductive invariant of the pipeline.
THEOREM Invariance == Spec => []IInv
<1>1. IInv /\ [Next]_vars => IInv'
  BY TypeStep, CoreStep, StartStep, BufferStep, WriterWakeupStep, CompressorWakeupStep
     DEF IInv
<1> QED
  BY <1>1, InitIInv, PTL DEF Spec

\* The types and the ranges of every index, for any numbers of blocks and
\* threads: the slots handed out by getWriteBlock and the block ids are in range.
THEOREM TypeCorrect == Spec => []TypeOK
<1>1. IInv => TypeOK
  BY DEF IInv
<1> QED
  BY <1>1, Invariance, PTL

\* The block of a read pointer that is used is the next one.
LEMMA HeadKept == IInv => HeadIsNext
<1> SUFFICES ASSUME IInv, wpc \in {"flush", "copy", "pop"}
             PROVE  /\ Source \in Workers
                    /\ ReadPtr # NullPtr
                    /\ cq[Source].dataBuffer[ReadPtr] = nextBlockId
  BY DEF HeadIsNext
<1>1. /\ Source \in Workers /\ cq[Source].numTaken > 0
      /\ cq[Source].dataBuffer[cq[Source].readIdx] = nextBlockId
  BY HeadFirst
<1>2. WellFormed(cq[Source], QueueLen, Values) /\ QueueLen \in Nat
  BY <1>1, QueueFacts, Dimensions DEF IInv
<1>3. cq[Source].readIdx \in 0 .. QueueLen - 1
  BY <1>2 DEF WellFormed
<1>4. ReadPtr = cq[Source].readIdx
  BY <1>1 DEF ReadPtr, GetReadBlock
<1>5. ReadPtr # NullPtr
  BY <1>2, <1>3, <1>4 DEF NullPtr
<1> QED
  BY <1>1, <1>4, <1>5

\* The writer never copies through a null pointer and never copies the wrong
\* block, whatever the interleaving (klb_imageIO.cpp:1171).
THEOREM WritesInOrder == Spec => []HeadIsNext
  BY HeadKept, Invariance, PTL

\* No compressor writes the slot the writer is copying from, although neither
\* holds the lock of the queue then (klb_imageIO.cpp:169-246 and :1171).
THEOREM SlotsAreExclusive == Spec => []SlotExclusive
<1>1. IInv => SlotExclusive
  <2> SUFFICES ASSUME IInv, NEW t \in Workers,
                      pc[t] \in {"compress", "push"}, wpc \in {"copy", "pop"},
                      Source = t, wptr[t] = ReadPtr
               PROVE  FALSE
    BY DEF SlotExclusive
  <2>1. cq[t].numTaken > 0
    BY HeadFirst
  <2>2. HasRoom(cq[t]) /\ wptr[t] = cq[t].writeIdx
    BY DEF IInv, Core, SlotInv
  <2>3. WellFormed(cq[t], QueueLen, Values) /\ QueueLen \in Nat \ {0}
    BY QueueFacts, Dimensions DEF IInv
  <2>4. cq[t].writeIdx # cq[t].readIdx
    BY <2>1, <2>2, <2>3, ReadWriteDisjoint
  <2>5. ReadPtr = cq[t].readIdx
    BY <2>1 DEF ReadPtr, GetReadBlock
  <2> QED
    BY <2>2, <2>4, <2>5
<1> QED
  BY <1>1, Invariance, PTL

\* The writer is never left asleep in front of an announced block
\* (klb_imageIO.cpp:254-259, :1148-1152).
THEOREM WriterWakesUp == Spec => []WriterWakeupPending
<1>1. IInv => WriterWakeupPending
  BY DEF IInv
<1> QED
  BY <1>1, Invariance, PTL

\* A compressor is never left asleep in front of a queue with room
\* (klb_circularDequeue.cpp:77-106).
THEOREM CompressorsWakeUp == Spec => []CompressorWakeupPending
<1>1. IInv => CompressorWakeupPending
  BY DEF IInv
<1> QED
  BY <1>1, Invariance, PTL

\* memcpy never runs past the end of the writer's buffer (klb_imageIO.cpp:1164-1172).
THEOREM BufferNeverOverflows == Spec => []BufferFits
<1>1. IInv => BufferFits
  BY DEF IInv
<1> QED
  BY <1>1, Invariance, PTL

\* Size and thread of a block never change once announced, which lets the writer
\* read them without the lock (klb_imageIO.cpp:1160-1178).
THEOREM BlocksAreAnnouncedOnce == Spec => AnnouncedOnce
<1>1. IInv /\ [Next]_vars =>
        [ \A b \in Blocks :
              Available(b) => /\ g_blockSize'[b] = g_blockSize[b]
                              /\ g_blockThreadId'[b] = g_blockThreadId[b] ]_vars
  BY AnnouncedStays
<1> QED
  BY <1>1, Invariance, PTL DEF Spec, AnnouncedOnce
-----------------------------------------------------------------------------
(***************************************************************************)
(* What the pipeline leaves in the file, and that it implements the        *)
(* reorder buffer.                                                         *)
(*                                                                         *)
(* A block is found again because the offset the writer records is the     *)
(* length of what it has written or buffered, at every moment but between  *)
(* the copy of a block and the record of its offset; because it is in the  *)
(* queue it is copied from (IInv); and because the table is written last.  *)
(* SInv says so.  The blocks announced and not stored are no more than the *)
(* reorder buffer holds because each of them sits in a slot of its own.    *)
(***************************************************************************)

(* The inductive invariant.                                                *)

Bytes == Values \X Nat

\* What has gone to the file or waits in the buffer.
Output == fout.data \o bufferMem

\* The writer has copied the next block and not recorded its offset yet.
Pending == wpc \in {"pop", "notify", "record"}

\* How the caller, the threads and the writer start and end.
FlowInv ==
    /\ pcMain = "call" => wpc = "off" /\ blockId = 0 /\ \A t \in Workers : pc[t] = "off"
    /\ pcMain # "returned" => result = Running
    /\ pcMain = "returned" =>
          \/ /\ result # NoError /\ blockId = 0 /\ wpc = "off"
             /\ \A t \in Workers : pc[t] = "off"
          \/ /\ result = FirstError /\ wpc = "done"
             /\ \A t \in Workers : pc[t] = "done"
    /\ wpc \in {"off", "header"} => nextBlockId = 0
    /\ wpc \in {"lastflush", "table", "close", "done"} => nextBlockId = NumBlocks
    /\ wpc \notin {"off", "header"} => fout.header
    /\ wpc = "done" => ~fout.open

\* A block that was compressed to nothing has left an error, which stays.
ErrorInv ==
    compressionType # "ZLIB" =>
        /\ \A t \in Workers :
              pc[t] \in {"push", "announce"} /\ csize[t] = 0 => errFlag[t] # NoError
        /\ (\E b \in Blocks : g_blockSize[b] = 0) =>
              \E t \in Workers : errFlag[t] # NoError

\* The offsets recorded so far are the sums of the sizes so far.
OffsetInv ==
    /\ \A b \in Blocks :
          /\ b < nextBlockId =>
                /\ blockOffset[b] \in Nat /\ getBlockOffset(blockOffset, b) \in Nat
                /\ blockOffset[b] = getBlockOffset(blockOffset, b) + g_blockSize[b]
                /\ blockOffset[b] <= offset
          /\ b >= nextBlockId => blockOffset[b] = Junk
    /\ offset = getBlockOffset(blockOffset, nextBlockId)

\* The output is as long as the offset says, and has every block at its place.
OutputInv ==
    ~DiskFaults =>
        /\ Len(Output) = offset + (IF Pending THEN g_blockSize[nextBlockId] ELSE 0)
        /\ \A b \in Blocks :
              b < nextBlockId =>
                  \A k \in 1 .. g_blockSize[b] :
                      Output[getBlockOffset(blockOffset, b) + k] = <<b, k>>
        /\ Pending => \A k \in 1 .. g_blockSize[nextBlockId] :
                          Output[offset + k] = <<nextBlockId, k>>

\* The table of the file is the one in memory, once the data is in the file.
TableInv ==
    ~DiskFaults =>
        /\ wpc \notin {"close", "done"} => \A b \in Blocks : fout.table[b] = Junk
        /\ wpc \in {"close", "done"} => fout.table = blockOffset
        /\ wpc \in {"table", "close", "done"} => bufferMem = <<>>

SInv == /\ FlowInv
        /\ ErrorInv
        /\ OffsetInv
        /\ OutputInv
        /\ TableInv

-----------------------------------------------------------------------------
(* Facts every proof below starts from.                                    *)

WpcValues == {"off", "header", "check", "asleep", "flush", "copy", "pop", "notify",
              "record", "lastflush", "table", "close", "done"}

\* The types of what the writer and the compressors work with.
LEMMA StorageTypes ==
    ASSUME IInv
    PROVE  /\ TypeOK
           /\ pc \in [Workers -> PcValues]
           /\ csize \in [Workers -> Sizes \cup {0}]
           /\ errFlag \in [Workers -> ErrorCodes]
           /\ wpc \in WpcValues
           /\ NumBlocks \in Nat \ {0}
           /\ nextBlockId \in Nat /\ nextBlockId <= NumBlocks
           /\ offset \in Nat
           /\ blockOffset \in [Blocks -> Nat \cup {Junk}]
           /\ bufferMem \in Seq(Bytes)
           /\ fout \in [header : BOOLEAN, table : [Blocks -> Nat \cup {Junk}],
                        data : Seq(Bytes), open : BOOLEAN]
           /\ fout.data \in Seq(Bytes)
           /\ Output \in Seq(Bytes)
<1>1. TypeOK /\ NumBlocks \in Nat \ {0} /\ nextBlockId \in 0 .. NumBlocks
  BY WritePipelineAssumption DEF IInv, TypeOK
<1>2. /\ bufferMem \in Seq(Bytes)
      /\ fout \in [header : BOOLEAN, table : [Blocks -> Nat \cup {Junk}],
                   data : Seq(Bytes), open : BOOLEAN]
  BY <1>1 DEF TypeOK, Offsets, Bytes, Values
<1>3. fout.data \in Seq(Bytes)
  BY <1>2
<1>4. Output \in Seq(Bytes)
  BY <1>2, <1>3, ConcatProperties DEF Output
<1>5. /\ pc \in [Workers -> PcValues] /\ wpc \in WpcValues
      /\ csize \in [Workers -> Sizes \cup {0}]
      /\ errFlag \in [Workers -> ErrorCodes]
      /\ offset \in Nat
      /\ blockOffset \in [Blocks -> Nat \cup {Junk}]
  BY <1>1 DEF TypeOK, PcValues, WpcValues, Offsets
<1>6. nextBlockId \in Nat /\ nextBlockId <= NumBlocks
  BY <1>1
<1> QED
  BY <1>1, <1>2, <1>3, <1>4, <1>5, <1>6

\* What has been popped was announced, with a size.
LEMMA PoppedAvailable ==
    ASSUME IInv, NEW b \in Blocks, b < Popped
    PROVE  /\ Available(b)
           /\ g_blockSize[b] \in Sizes \cup {0}
           /\ g_blockSize[b] \in Nat
<1>1. g_blockThreadId[b] # Unset /\ g_blockSize[b] # Unset
  BY TypeFacts DEF Core, BoardInv
<1>2. g_blockThreadId[b] \in Workers /\ g_blockSize[b] \in Sizes \cup {0}
  BY <1>1, TypeFacts
<1>3. g_blockThreadId[b] \in Nat /\ g_blockSize[b] \in Nat
  BY <1>2, NumberFacts
<1> QED
  BY <1>2, <1>3 DEF Available

\* No error comes back only if no thread has one.
LEMMA NoErrorAtAll ==
    ASSUME TypeOK, FirstError = NoError
    PROVE  \A t \in Workers : errFlag[t] = NoError
<1> DEFINE failing == {t \in Workers : errFlag[t] # NoError}
<1>1. CASE failing = {}
  BY <1>1
<1>2. CASE failing # {}
  <2>1. failing \subseteq Nat
    BY NumberFacts
  <2>2. \E t \in failing : \A u \in failing : t <= u
    BY <1>2, <2>1, SmallestElement
  <2>3. (CHOOSE t \in failing : \A u \in failing : t <= u) \in failing
    BY <2>2
  <2> QED
    BY <1>2, <2>3 DEF FirstError
<1> QED
  BY <1>1, <1>2

-----------------------------------------------------------------------------
(* The start and the end.                                                  *)

\* Every step preserves FlowInv: one action of main or of the writer at a time.
LEMMA FlowStep ==
    ASSUME IInv, FlowInv, [Next]_vars
    PROVE  FlowInv'
<1>0. /\ pcMain \in {"call", "start", "join", "returned"}
      /\ pc \in [Workers -> PcValues] /\ wpc \in WpcValues
      /\ nextBlockId \in Nat /\ nextBlockId <= NumBlocks /\ NumBlocks \in Nat \ {0}
      /\ fout \in [header : BOOLEAN, table : [Blocks -> Nat \cup {Junk}],
                   data : Seq(Bytes), open : BOOLEAN]
  BY StorageTypes DEF TypeOK
<1>1. CASE UNCHANGED vars
  BY <1>1 DEF FlowInv, FirstError, vars, mainVars, workerVars, writerVars
<1>2. CASE RejectDims \/ OpenFails
  BY <1>2 DEF FlowInv, RejectDims, OpenFails, workerVars, writerVars, NoError
<1>3. CASE StartWriter
  BY <1>0, <1>3 DEF FlowInv, StartWriter, workerVars
<1>4. ASSUME NEW t \in Workers, StartWorker(t)
      PROVE  FlowInv'
  BY <1>0, <1>4 DEF FlowInv, StartWorker, writerVars
<1>5. CASE JoinAll
  BY <1>5 DEF FlowInv, JoinAll, FirstError, workerVars, writerVars
<1>6. ASSUME NEW t \in Workers, Compressor(t) \/ SpuriousWakeup(t)
      PROVE  FlowInv'
  <2>1. /\ pc[t] \notin {"off", "done"}
        /\ UNCHANGED <<mainVars, nextBlockId, fout>>
        /\ wpc' = wpc \/ (wpc = "asleep" /\ wpc' = "check")
    BY <1>6 DEF Compressor, SpuriousWakeup, ClaimBlock, ReserveSlot, Compress, PushBlock,
                Announce, NotifyWriter, writerVars
  <2>2. pcMain \notin {"call", "returned"}
    BY <2>1 DEF FlowInv
  <2> QED
    BY <2>1, <2>2 DEF FlowInv, mainVars
<1>7. CASE Writer \/ SpuriousWriterWakeup
  <2>1. wpc \notin {"off", "done"} /\ UNCHANGED mainVars
    BY <1>7 DEF Writer, SpuriousWriterWakeup, WriteHeader, CheckNext, FlushIfFull,
                CopyBlock, PopBlock, NotifyCompressor, RecordOffset, LastFlush, WriteTable,
                CloseFile
  <2>2. pcMain \notin {"call", "returned"}
    BY <2>1 DEF FlowInv
  <2>3. ASSUME /\ wpc' \in {"off", "header"} => nextBlockId' = 0
               /\ wpc' \in {"lastflush", "table", "close", "done"} => nextBlockId' = NumBlocks
               /\ wpc' \notin {"off", "header"} => fout'.header
               /\ wpc' = "done" => ~fout'.open
        PROVE  FlowInv'
    BY <2>1, <2>2, <2>3 DEF FlowInv, mainVars
  <2>4. CASE WriteHeader
    BY <1>0, <2>3, <2>4 DEF WriteHeader
  <2>5. CASE CheckNext \/ SpuriousWriterWakeup
    BY <1>0, <2>3, <2>5 DEF FlowInv, CheckNext, SpuriousWriterWakeup
  <2>6. CASE FlushIfFull \/ LastFlush
    <3>1. fout'.header = fout.header /\ nextBlockId' = nextBlockId
      BY <1>0, <2>6 DEF FlushIfFull, LastFlush, FlushBuffer
    <3>2. wpc' = "copy" \/ (wpc = "lastflush" /\ wpc' = "table")
      BY <2>6 DEF FlushIfFull, LastFlush
    <3>3. fout.header
      BY <2>6 DEF FlowInv, FlushIfFull, LastFlush
    <3>4. wpc' = "table" => nextBlockId' = NumBlocks
      BY <3>1, <3>2 DEF FlowInv
    <3> QED
      BY <2>3, <3>1, <3>2, <3>3, <3>4
  <2>7. CASE CopyBlock \/ PopBlock \/ NotifyCompressor
    BY <2>3, <2>7 DEF FlowInv, CopyBlock, PopBlock, NotifyCompressor
  <2>8. CASE RecordOffset
    BY <2>3, <2>8 DEF FlowInv, RecordOffset
  <2>9. CASE WriteTable \/ CloseFile
    BY <1>0, <2>3, <2>9 DEF FlowInv, WriteTable, CloseFile
  <2> QED
    BY <1>7, <2>4, <2>5, <2>6, <2>7, <2>8, <2>9 DEF Writer
<1>8. CASE Finished
  BY <1>1, <1>8 DEF Finished
<1> QED
  BY <1>1, <1>2, <1>3, <1>4, <1>5, <1>6, <1>7, <1>8 DEF Next, Main

-----------------------------------------------------------------------------
(* The errors.                                                             *)

\* Every step preserves ErrorInv: an error of a compressor or of the writer is
\* kept until main has seen it.
LEMMA ErrorStep ==
    ASSUME IInv, ErrorInv, [Next]_vars
    PROVE  ErrorInv'
<1>0. /\ pc \in [Workers -> PcValues] /\ csize \in [Workers -> Sizes \cup {0}]
      /\ errFlag \in [Workers -> ErrorCodes]
      /\ g_blockSize \in [Blocks -> Sizes \cup {0, Unset}]
      /\ blk \in [Workers -> Blocks]
      /\ compressionType' = compressionType
      /\ compressionType \in {"NONE", "BZIP2", "ZLIB", "OTHER"}
  <2>1. compressionType' = compressionType
    BY DEF Next, Main, Compressor, Writer, RejectDims, OpenFails, StartWriter, JoinAll,
           StartWorker, ClaimBlock, ReserveSlot, SpuriousWakeup, Compress, PushBlock,
           Announce, NotifyWriter, WriteHeader, CheckNext, SpuriousWriterWakeup,
           FlushIfFull, CopyBlock, PopBlock, NotifyCompressor, RecordOffset, LastFlush,
           WriteTable, CloseFile, Finished, vars, mainVars
  <2>2. compressionType \in {"NONE", "BZIP2", "ZLIB", "OTHER"}
    BY StorageTypes, WritePipelineAssumption DEF TypeOK
  <2> QED
    BY <2>1, <2>2, StorageTypes, TypeFacts
<1>1. ASSUME NEW t \in Workers, Compress(t), compressionType # "ZLIB"
      PROVE  ErrorInv'
  <2>1. PICK o \in Outcomes(errFlag[t]) :
            /\ csize' = [csize EXCEPT ![t] = o.size]
            /\ errFlag' = [errFlag EXCEPT ![t] = o.flag]
    BY <1>1 DEF Compress
  <2>2. /\ errFlag[t] # NoError => o.flag # NoError
        /\ o.size = 0 => o.flag # NoError
    <3>1. \A n \in Sizes : n # 0
      BY WritePipelineAssumption
    <3>2. CASE compressionType = "NONE"
      BY <2>1, <3>1, <3>2 DEF Outcomes, Stored
    <3>3. CASE compressionType = "BZIP2"
      BY <2>1, <3>1, <3>3 DEF Outcomes, Stored, Failed, NoError
    <3>4. CASE compressionType = "OTHER"
      BY <2>1, <3>4 DEF Outcomes, Failed, NoError
    <3> QED
      BY <1>0, <1>1, <3>2, <3>3, <3>4
  <2>3. /\ pc' = [pc EXCEPT ![t] = "push"] /\ g_blockSize' = g_blockSize
    BY <1>1 DEF Compress, boardVars
  <2>4. \A u \in Workers : errFlag[u] # NoError => errFlag'[u] # NoError
    BY <1>0, <2>1, <2>2
  <2> QED
    BY <1>0, <2>1, <2>2, <2>3, <2>4 DEF ErrorInv
<1>2. ASSUME NEW t \in Workers, Announce(t)
      PROVE  ErrorInv'
  <2>1. /\ pc[t] = "announce" /\ pc' = [pc EXCEPT ![t] = "notify"]
        /\ g_blockSize' = [g_blockSize EXCEPT ![blk[t]] = csize[t]]
        /\ UNCHANGED <<csize, errFlag>>
    BY <1>2 DEF Announce
  <2>2. ASSUME NEW b \in Blocks, g_blockSize'[b] = 0
        PROVE  g_blockSize[b] = 0 \/ csize[t] = 0
    BY <1>0, <2>1, <2>2
  <2> QED
    BY <1>0, <2>1, <2>2 DEF ErrorInv
<1>3. ASSUME NEW t \in Workers, PushBlock(t)
      PROVE  ErrorInv'
  BY <1>0, <1>3 DEF ErrorInv, PushBlock, boardVars
<1>4. ASSUME NEW t \in Workers, ClaimBlock(t) \/ ReserveSlot(t) \/ SpuriousWakeup(t)
                                \/ NotifyWriter(t) \/ StartWorker(t)
      PROVE  ErrorInv'
  <2>1. /\ UNCHANGED <<csize, errFlag, g_blockSize>>
        /\ \A u \in Workers : pc'[u] \in {"push", "announce"} => pc'[u] = pc[u]
    BY <1>0, <1>4 DEF ClaimBlock, ReserveSlot, SpuriousWakeup, NotifyWriter, StartWorker,
                      boardVars
  <2> QED
    BY <1>0, <2>1 DEF ErrorInv
<1>5. CASE NotifyCompressor
  <2>1. /\ UNCHANGED <<csize, errFlag, g_blockSize>>
        /\ \A u \in Workers : pc'[u] \in {"push", "announce"} => pc'[u] = pc[u]
    BY <1>0, <1>5 DEF NotifyCompressor, boardVars
  <2> QED
    BY <1>0, <2>1 DEF ErrorInv
<1>6. CASE UNCHANGED <<pc, csize, errFlag, g_blockSize>>
  BY <1>0, <1>6 DEF ErrorInv
<1>7. \/ UNCHANGED <<pc, csize, errFlag, g_blockSize>>
      \/ NotifyCompressor
      \/ \E t \in Workers : \/ Compress(t) \/ Announce(t) \/ PushBlock(t)
                            \/ ClaimBlock(t) \/ ReserveSlot(t) \/ SpuriousWakeup(t)
                            \/ NotifyWriter(t) \/ StartWorker(t)
  BY DEF Next, Main, Compressor, Writer, RejectDims, OpenFails, StartWriter, JoinAll,
         WriteHeader, CheckNext, SpuriousWriterWakeup, FlushIfFull, CopyBlock, PopBlock,
         RecordOffset, LastFlush, WriteTable, CloseFile, Finished, vars, boardVars,
         workerVars
<1> QED
  BY <1>0, <1>1, <1>2, <1>3, <1>4, <1>5, <1>6, <1>7 DEF ErrorInv

-----------------------------------------------------------------------------
(* The offsets.                                                            *)

\* What the caller and the compressors do, the writer's state does not see: it is
\* woken up or started, and blocks that were announced are as they were.
LEMMA OutsideWriter ==
    ASSUME IInv, [Next]_vars, ~ Writer
    PROVE  /\ UNCHANGED <<nextBlockId, offset, bufferMem, blockOffset>>
           /\ fout'.data = fout.data /\ fout'.table = fout.table
           /\ \/ wpc' = wpc
              \/ wpc \in {"off", "asleep"} /\ wpc' \in {"header", "check"}
<1>0. fout \in [header : BOOLEAN, table : [Blocks -> Nat \cup {Junk}],
                data : Seq(Bytes), open : BOOLEAN]
  BY StorageTypes
<1>1. CASE UNCHANGED vars \/ Finished
  BY <1>1 DEF vars, writerVars, Finished
<1>2. CASE RejectDims \/ OpenFails \/ JoinAll
  BY <1>2 DEF RejectDims, OpenFails, JoinAll, writerVars
<1>3. CASE StartWriter
  <2>1. wpc = "off"
    BY <1>3 DEF StartWriter, IInv, StartInv
  <2> QED
    BY <1>0, <1>3, <2>1 DEF StartWriter
<1>4. ASSUME NEW t \in Workers, StartWorker(t) \/ Compressor(t) \/ SpuriousWakeup(t)
      PROVE  /\ UNCHANGED <<nextBlockId, offset, bufferMem, blockOffset, fout>>
             /\ \/ wpc' = wpc
                \/ wpc = "asleep" /\ wpc' = "check"
  BY <1>4 DEF StartWorker, Compressor, SpuriousWakeup, ClaimBlock, ReserveSlot, Compress,
              PushBlock, Announce, NotifyWriter, writerVars
<1>5. CASE SpuriousWriterWakeup
  BY <1>5 DEF SpuriousWriterWakeup
<1> QED
  BY <1>1, <1>2, <1>3, <1>4, <1>5 DEF Next, Main

\* The sizes the writer's state speaks of do not change.
LEMMA SizesStay ==
    ASSUME IInv, [Next]_vars, NEW b \in Blocks, b < Popped
    PROVE  g_blockSize'[b] = g_blockSize[b] /\ g_blockSize[b] \in Nat
BY PoppedAvailable, AnnouncedStays

\* The offsets are kept by a step that keeps the writer's place and the sizes.
LEMMA OffsetsKept ==
    ASSUME IInv, OffsetInv, [Next]_vars,
           UNCHANGED <<nextBlockId, offset, blockOffset>>
    PROVE  OffsetInv'
<1>1. \A b \in Blocks : b < nextBlockId => g_blockSize'[b] = g_blockSize[b]
  <2>1. \A b \in Blocks : b < nextBlockId => b < Popped
    BY StorageTypes, NumberFacts DEF Popped
  <2> QED
    BY <2>1, SizesStay
<1> QED
  BY <1>1 DEF OffsetInv, getBlockOffset

\* Every step preserves OffsetInv: the writer enters offsets in the order of blocks,
\* and one that is entered stays.
LEMMA OffsetStep ==
    ASSUME IInv, OffsetInv, [Next]_vars
    PROVE  OffsetInv'
<1>1. CASE ~ Writer
  BY <1>1, OutsideWriter, OffsetsKept
<1>2. CASE WriteHeader \/ CheckNext \/ FlushIfFull \/ CopyBlock \/ PopBlock
           \/ NotifyCompressor \/ LastFlush \/ WriteTable \/ CloseFile
  <2>1. UNCHANGED <<nextBlockId, offset, blockOffset>>
    BY <1>2 DEF WriteHeader, CheckNext, FlushIfFull, CopyBlock, PopBlock,
                NotifyCompressor, LastFlush, WriteTable, CloseFile
  <2> QED
    BY <2>1, OffsetsKept
<1>3. CASE RecordOffset
  <2>0. /\ blockOffset \in [Blocks -> Nat \cup {Junk}] /\ offset \in Nat
        /\ nextBlockId \in Nat /\ nextBlockId \in Blocks
        /\ g_blockSize[nextBlockId] \in Nat
        /\ g_blockSize' = g_blockSize
        /\ Blocks \subseteq Nat
        /\ offset' = offset + g_blockSize[nextBlockId]
        /\ blockOffset' = [blockOffset EXCEPT ![nextBlockId] = offset']
        /\ nextBlockId' = nextBlockId + 1
    BY <1>3, StorageTypes, NextIsAnnounced, NumberFacts DEF RecordOffset, boardVars
  <2>1. /\ blockOffset'[nextBlockId] = offset'
        /\ \A b \in Blocks : b # nextBlockId => blockOffset'[b] = blockOffset[b]
    BY <2>0
  <2>2. \A b \in Blocks : b <= nextBlockId =>
            getBlockOffset(blockOffset', b) = getBlockOffset(blockOffset, b)
    <3>1. ASSUME NEW b \in Blocks, b <= nextBlockId, b # 0
          PROVE  blockOffset'[b - 1] = blockOffset[b - 1]
      <4>1. b - 1 \in Blocks /\ b - 1 # nextBlockId
        BY <2>0, <3>1, WritePipelineAssumption DEF Blocks
      <4> QED
        BY <2>1, <4>1
    <3> QED
      BY <3>1 DEF getBlockOffset
  <2>3. offset' = getBlockOffset(blockOffset', nextBlockId')
    BY <2>0, <2>1 DEF getBlockOffset
  <2>4. ASSUME NEW b \in Blocks, b < nextBlockId'
        PROVE  /\ blockOffset'[b] \in Nat /\ getBlockOffset(blockOffset', b) \in Nat
               /\ blockOffset'[b] = getBlockOffset(blockOffset', b) + g_blockSize'[b]
               /\ blockOffset'[b] <= offset'
    <3>1. CASE b = nextBlockId
      <4>1. getBlockOffset(blockOffset', b) = offset
        <5>1. getBlockOffset(blockOffset', b) = getBlockOffset(blockOffset, b)
          <6>1. b <= nextBlockId
            BY <2>0, <3>1
          <6> QED
            BY <2>2, <6>1
        <5> QED
          BY <3>1, <5>1 DEF OffsetInv
      <4> QED
        BY <2>0, <2>1, <3>1, <4>1
    <3>2. CASE b # nextBlockId
      <4>1. b < nextBlockId /\ b \in Nat
        BY <2>0, <2>4, <3>2
      <4>2. /\ blockOffset'[b] = blockOffset[b]
            /\ getBlockOffset(blockOffset', b) = getBlockOffset(blockOffset, b)
        <5>1. b <= nextBlockId
          BY <2>0, <4>1
        <5> QED
          BY <2>1, <2>2, <3>2, <5>1
      <4>3. /\ blockOffset[b] \in Nat /\ getBlockOffset(blockOffset, b) \in Nat
            /\ blockOffset[b] = getBlockOffset(blockOffset, b) + g_blockSize[b]
            /\ blockOffset[b] <= offset
        BY <4>1 DEF OffsetInv
      <4> QED
        BY <2>0, <4>2, <4>3
    <3> QED
      BY <3>1, <3>2
  <2>5. ASSUME NEW b \in Blocks, b >= nextBlockId'
        PROVE  blockOffset'[b] = Junk
    <3>1. b >= nextBlockId /\ b # nextBlockId
      BY <2>0, <2>5
    <3> QED
      BY <2>1, <3>1 DEF OffsetInv
  <2> QED
    BY <2>3, <2>4, <2>5 DEF OffsetInv
<1> QED
  BY <1>1, <1>2, <1>3 DEF Writer

-----------------------------------------------------------------------------
(* The output.                                                             *)

\* Where the bytes of two sequences are in their concatenation.
LEMMA Appending ==
    ASSUME NEW S, NEW s \in Seq(S), NEW t \in Seq(S)
    PROVE  /\ s \o t \in Seq(S)
           /\ Len(s \o t) = Len(s) + Len(t)
           /\ \A i \in 1 .. Len(s) : (s \o t)[i] = s[i]
           /\ \A i \in 1 .. Len(t) : (s \o t)[Len(s) + i] = t[i]
<1>1. Len(s) \in Nat /\ Len(t) \in Nat
  BY LenProperties
<1>2. /\ s \o t \in Seq(S)
      /\ Len(s \o t) = Len(s) + Len(t)
      /\ \A i \in 1 .. Len(s) + Len(t) : (s \o t)[i] =
             IF i <= Len(s) THEN s[i] ELSE t[i - Len(s)]
  BY ConcatProperties
<1>3. ASSUME NEW i \in 1 .. Len(s)
      PROVE  (s \o t)[i] = s[i]
  BY <1>1, <1>2
<1>4. ASSUME NEW i \in 1 .. Len(t)
      PROVE  (s \o t)[Len(s) + i] = t[i]
  <2>1. /\ Len(s) + i \in 1 .. Len(s) + Len(t)
        /\ ~ (Len(s) + i <= Len(s))
        /\ (Len(s) + i) - Len(s) = i
    BY <1>1
  <2> QED
    BY <1>2, <2>1
<1> QED
  BY <1>2, <1>3, <1>4

\* The bytes of a block.
LEMMA BytesOfBlock ==
    ASSUME NEW b \in Blocks, NEW n \in Nat
    PROVE  /\ BytesOf(b, n) \in Seq(Bytes)
           /\ Len(BytesOf(b, n)) = n
           /\ \A k \in 1 .. n : BytesOf(b, n)[k] = <<b, k>>
BY DEF BytesOf, Bytes, Values

\* Flushing moves the buffer to the file, when fwrite writes.
LEMMA FlushKeepsOutput ==
    ASSUME IInv, ~DiskFaults, FlushBuffer
    PROVE  /\ Output' = Output
           /\ bufferMem' = <<>>
           /\ fout'.table = fout.table
<1>1. /\ bufferMem \in Seq(Bytes) /\ fout.data \in Seq(Bytes) /\ Output \in Seq(Bytes)
      /\ fout \in [header : BOOLEAN, table : [Blocks -> Nat \cup {Junk}],
                   data : Seq(Bytes), open : BOOLEAN]
  BY StorageTypes
<1>2. /\ fout' = [fout EXCEPT !.data = @ \o SubSeq(bufferMem, 1, Len(bufferMem))]
      /\ bufferMem' = <<>>
  BY DEF FlushBuffer, Written
<1>3. SubSeq(bufferMem, 1, Len(bufferMem)) = bufferMem
  BY <1>1, SubSeqFull
<1>4. fout'.data = Output /\ fout'.table = fout.table
  BY <1>1, <1>2, <1>3 DEF Output
<1>5. Output \o <<>> = Output
  BY <1>1, ConcatEmptySeq
<1> QED
  BY <1>2, <1>4, <1>5 DEF Output

\* The output is kept by a step that keeps it, the writer's place and the sizes.
LEMMA OutputKept ==
    ASSUME IInv, OutputInv, [Next]_vars,
           UNCHANGED <<Output, nextBlockId, offset, blockOffset>>,
           Pending' <=> Pending
    PROVE  OutputInv'
<1>1. \A b \in Blocks : b < nextBlockId => g_blockSize'[b] = g_blockSize[b]
  <2>1. \A b \in Blocks : b < nextBlockId => b < Popped
    BY StorageTypes, NumberFacts DEF Popped
  <2> QED
    BY <2>1, SizesStay
<1>2. Pending => g_blockSize'[nextBlockId] = g_blockSize[nextBlockId]
  BY NextIsAnnounced, AnnouncedStays DEF Pending
<1> QED
  BY <1>1, <1>2 DEF OutputInv

\* Every step preserves OutputInv: without a fault of the disk the file holds what
\* the offsets say.
LEMMA OutputStep ==
    ASSUME IInv, FlowInv, OffsetInv, OutputInv, [Next]_vars
    PROVE  OutputInv'
<1> SUFFICES ASSUME ~DiskFaults
             PROVE  OutputInv'
  BY DEF OutputInv
<1>0. /\ bufferMem \in Seq(Bytes) /\ fout.data \in Seq(Bytes) /\ Output \in Seq(Bytes)
      /\ blockOffset \in [Blocks -> Nat \cup {Junk}] /\ offset \in Nat
      /\ nextBlockId \in Nat
      /\ fout \in [header : BOOLEAN, table : [Blocks -> Nat \cup {Junk}],
                   data : Seq(Bytes), open : BOOLEAN]
      /\ Blocks \subseteq Nat
  BY StorageTypes, NumberFacts
<1>1. CASE ~ Writer
  <2>1. UNCHANGED <<nextBlockId, offset, blockOffset>> /\ Output' = Output
    BY <1>1, OutsideWriter DEF Output
  <2>2. Pending' <=> Pending
    BY <1>1, OutsideWriter DEF Pending
  <2> QED
    BY <2>1, <2>2, OutputKept
<1>2. CASE WriteHeader \/ CheckNext \/ PopBlock \/ NotifyCompressor \/ WriteTable
           \/ CloseFile
  <2>1. UNCHANGED <<nextBlockId, offset, blockOffset, bufferMem>> /\ (Pending' <=> Pending)
    BY <1>2 DEF WriteHeader, CheckNext, PopBlock, NotifyCompressor, WriteTable, CloseFile,
                Pending
  <2>2. fout'.data = fout.data
    BY <1>0, <1>2 DEF WriteHeader, CheckNext, PopBlock, NotifyCompressor, WriteTable,
                      CloseFile
  <2> QED
    BY <2>1, <2>2, OutputKept DEF Output
<1>3. CASE FlushIfFull \/ LastFlush
  <2>1. UNCHANGED <<nextBlockId, offset, blockOffset>> /\ (Pending' <=> Pending)
    BY <1>3 DEF FlushIfFull, LastFlush, Pending
  <2>2. Output' = Output
    BY <1>3, FlushKeepsOutput DEF FlushIfFull, LastFlush, Output
  <2> QED
    BY <2>1, <2>2, OutputKept
<1>4. CASE CopyBlock
  <2>1. PICK n \in Nat : n = g_blockSize[nextBlockId]
    BY <1>4, NextIsAnnounced DEF CopyBlock
  <2>2. PICK c \in Blocks : c = nextBlockId
    BY <1>4, NextIsAnnounced DEF CopyBlock
  <2>3. cq[Source].dataBuffer[ReadPtr] = c
    <3>1. /\ cq[Source].numTaken > 0
          /\ cq[Source].dataBuffer[cq[Source].readIdx] = nextBlockId
      BY <1>4, HeadFirst DEF CopyBlock
    <3>2. ReadPtr = cq[Source].readIdx
      BY <3>1 DEF ReadPtr, GetReadBlock
    <3> QED
      BY <2>2, <3>1, <3>2
  <2>4. /\ bufferMem' = bufferMem \o BytesOf(c, n)
        /\ UNCHANGED <<g_blockSize, nextBlockId, offset, blockOffset, fout>>
        /\ ~Pending /\ Pending'
    BY <1>4, <2>1, <2>3 DEF CopyBlock, boardVars, Pending
  <2>5. /\ BytesOf(c, n) \in Seq(Bytes) /\ Len(BytesOf(c, n)) = n
        /\ \A k \in 1 .. n : BytesOf(c, n)[k] = <<c, k>>
    BY BytesOfBlock
  <2>6. Output' = Output \o BytesOf(c, n)
    <3>1. PICK d \in Seq(Bytes) : d = fout.data
      BY <1>0
    <3>2. PICK m \in Seq(Bytes) : m = bufferMem
      BY <1>0
    <3>3. (d \o m) \o BytesOf(c, n) = d \o (m \o BytesOf(c, n))
      BY <2>5, ConcatAssociative
    <3> QED
      BY <2>4, <3>1, <3>2, <3>3 DEF Output
  <2>7. /\ Len(Output') = Len(Output) + n
        /\ \A i \in 1 .. Len(Output) : Output'[i] = Output[i]
        /\ \A i \in 1 .. n : Output'[Len(Output) + i] = <<c, i>>
    <3>1. PICK o \in Seq(Bytes) : o = Output
      BY <1>0
    <3>2. /\ Len(o \o BytesOf(c, n)) = Len(o) + n
          /\ \A i \in 1 .. Len(o) : (o \o BytesOf(c, n))[i] = o[i]
          /\ \A i \in 1 .. n : (o \o BytesOf(c, n))[Len(o) + i] = BytesOf(c, n)[i]
      <4>1. PICK y \in Seq(Bytes) : y = BytesOf(c, n)
        BY <2>5
      <4>2. Len(y) = n
        BY <2>5, <4>1
      <4>3. /\ Len(o \o y) = Len(o) + Len(y)
            /\ \A i \in 1 .. Len(o) : (o \o y)[i] = o[i]
            /\ \A i \in 1 .. Len(y) : (o \o y)[Len(o) + i] = y[i]
        BY Appending
      <4> QED
        BY <4>1, <4>2, <4>3
    <3> QED
      BY <2>5, <2>6, <3>1, <3>2
  <2>8. Len(Output) = offset
    BY <1>0, <2>4 DEF OutputInv
  <2>9. ASSUME NEW b \in Blocks, b < nextBlockId, NEW k \in 1 .. g_blockSize[b]
        PROVE  Output'[getBlockOffset(blockOffset, b) + k] = <<b, k>>
    <3>1. /\ getBlockOffset(blockOffset, b) \in Nat /\ blockOffset[b] \in Nat
          /\ blockOffset[b] = getBlockOffset(blockOffset, b) + g_blockSize[b]
          /\ blockOffset[b] <= offset
      BY <2>9 DEF OffsetInv
    <3>2. g_blockSize[b] \in Nat
      <4>1. b < Popped
        BY <1>4, <2>9 DEF CopyBlock, Popped
      <4> QED
        BY <4>1, PoppedAvailable
    <3>3. getBlockOffset(blockOffset, b) + k \in 1 .. Len(Output)
      BY <1>0, <2>8, <3>1, <3>2
    <3>4. Output[getBlockOffset(blockOffset, b) + k] = <<b, k>>
      BY <2>9 DEF OutputInv
    <3> QED
      BY <2>7, <3>3, <3>4
  <2> QED
    BY <2>1, <2>2, <2>4, <2>7, <2>8, <2>9 DEF OutputInv
<1>5. CASE RecordOffset
  <2>1. /\ Pending /\ ~Pending'
        /\ UNCHANGED <<g_blockSize, bufferMem, fout>> /\ Output' = Output
        /\ offset' = offset + g_blockSize[nextBlockId]
        /\ blockOffset' = [blockOffset EXCEPT ![nextBlockId] = offset']
        /\ nextBlockId' = nextBlockId + 1
        /\ nextBlockId \in Blocks /\ g_blockSize[nextBlockId] \in Nat
    BY <1>5, NextIsAnnounced DEF RecordOffset, boardVars, Pending, Output
  <2>2. \A b \in Blocks : b < nextBlockId' => b < nextBlockId \/ b = nextBlockId
    BY <1>0, <2>1
  <2>3. \A b \in Blocks : b <= nextBlockId =>
            getBlockOffset(blockOffset', b) = getBlockOffset(blockOffset, b)
    <3>1. ASSUME NEW b \in Blocks, b <= nextBlockId, b # 0
          PROVE  blockOffset'[b - 1] = blockOffset[b - 1]
      <4>1. b - 1 \in Blocks /\ b - 1 # nextBlockId
        BY <1>0, <3>1, WritePipelineAssumption DEF Blocks
      <4> QED
        BY <1>0, <2>1, <4>1
    <3> QED
      BY <3>1 DEF getBlockOffset
  <2>4. \A b \in Blocks : b < nextBlockId' => b <= nextBlockId
    BY <1>0, <2>1
  <2>5. ASSUME NEW b \in Blocks, b < nextBlockId', NEW k \in 1 .. g_blockSize[b]
        PROVE  Output[getBlockOffset(blockOffset', b) + k] = <<b, k>>
    <3>1. getBlockOffset(blockOffset', b) = getBlockOffset(blockOffset, b)
      BY <2>3, <2>4, <2>5
    <3>2. CASE b < nextBlockId
      BY <2>5, <3>1, <3>2 DEF OutputInv
    <3>3. CASE b = nextBlockId
      <4>1. getBlockOffset(blockOffset, b) = offset
        BY <3>3 DEF OffsetInv
      <4> QED
        BY <2>1, <2>5, <3>1, <3>3, <4>1 DEF OutputInv
    <3> QED
      BY <2>2, <2>5, <3>2, <3>3
  <2>6. Len(Output) = offset'
    BY <2>1 DEF OutputInv
  <2>7. offset' \in Nat
    BY <1>0, <2>1
  <2>8. Len(Output') = offset' + 0
    BY <2>1, <2>6, <2>7
  <2>9. ASSUME NEW b \in Blocks, b < nextBlockId', NEW k \in 1 .. g_blockSize'[b]
        PROVE  Output'[getBlockOffset(blockOffset', b) + k] = <<b, k>>
    <3>1. k \in 1 .. g_blockSize[b] /\ Output' = Output
      BY <2>1, <2>9
    <3> QED
      BY <2>5, <2>9, <3>1
  <2> QED
    BY <2>1, <2>8, <2>9 DEF OutputInv
<1> QED
  BY <1>1, <1>2, <1>3, <1>4, <1>5 DEF Writer

-----------------------------------------------------------------------------
(* The table.                                                              *)

\* Every step preserves TableInv: the table that is written is that of the offsets.
LEMMA TableStep ==
    ASSUME IInv, FlowInv, OffsetInv, TableInv, [Next]_vars
    PROVE  TableInv'
<1> SUFFICES ASSUME ~DiskFaults
             PROVE  TableInv'
  BY DEF TableInv
<1>0. /\ nextBlockId \in Nat
      /\ fout \in [header : BOOLEAN, table : [Blocks -> Nat \cup {Junk}],
                   data : Seq(Bytes), open : BOOLEAN]
      /\ Blocks \subseteq Nat
  BY StorageTypes, NumberFacts
<1>1. CASE ~ Writer
  <2>1. /\ UNCHANGED <<bufferMem, blockOffset>> /\ fout'.table = fout.table
        /\ \/ wpc' = wpc
           \/ wpc \in {"off", "asleep"} /\ wpc' \in {"header", "check"}
    BY <1>1, OutsideWriter
  <2> QED
    BY <2>1 DEF TableInv
<1>2. CASE WriteHeader
  <2>1. /\ wpc' = "check" /\ fout'.table = blockOffset
        /\ nextBlockId = 0
    BY <1>0, <1>2 DEF WriteHeader, FlowInv
  <2>2. \A b \in Blocks : b >= nextBlockId
    BY <1>0, <2>1
  <2>3. \A b \in Blocks : blockOffset[b] = Junk
    BY <2>2 DEF OffsetInv
  <2> QED
    BY <2>1, <2>3 DEF TableInv
<1>3. CASE CheckNext \/ CopyBlock \/ PopBlock \/ NotifyCompressor \/ RecordOffset
  <2>1. /\ wpc \notin {"table", "close", "done"} /\ wpc' \notin {"table", "close", "done"}
        /\ fout' = fout
    BY <1>3 DEF CheckNext, CopyBlock, PopBlock, NotifyCompressor, RecordOffset
  <2> QED
    BY <2>1 DEF TableInv
<1>4. CASE FlushIfFull
  <2>1. /\ wpc = "flush" /\ wpc' = "copy" /\ fout'.table = fout.table
    BY <1>4, FlushKeepsOutput DEF FlushIfFull
  <2> QED
    BY <2>1 DEF TableInv
<1>5. CASE LastFlush
  <2>1. /\ wpc = "lastflush" /\ wpc' = "table" /\ fout'.table = fout.table
        /\ bufferMem' = <<>>
    BY <1>5, FlushKeepsOutput DEF LastFlush
  <2> QED
    BY <2>1 DEF TableInv
<1>6. CASE WriteTable
  <2>1. /\ wpc = "table" /\ wpc' = "close"
        /\ fout' = [fout EXCEPT !.table = blockOffset]
        /\ UNCHANGED <<bufferMem, blockOffset>>
    BY <1>6 DEF WriteTable
  <2>2. fout'.table = blockOffset
    BY <1>0, <2>1
  <2> QED
    BY <2>1, <2>2 DEF TableInv
<1>7. CASE CloseFile
  <2>1. /\ wpc = "close" /\ wpc' = "done" /\ fout'.table = fout.table
        /\ UNCHANGED <<bufferMem, blockOffset>>
    BY <1>0, <1>7 DEF CloseFile
  <2> QED
    BY <2>1 DEF TableInv
<1> QED
  BY <1>1, <1>2, <1>3, <1>4, <1>5, <1>6, <1>7 DEF Writer

-----------------------------------------------------------------------------
(* The theorems on what is stored.                                         *)

\* SInv holds before the call.
LEMMA InitSInv == Init => SInv
<1> SUFFICES ASSUME Init
             PROVE  SInv
  OBVIOUS
<1>0. /\ 0 \in Blocks /\ Blocks \subseteq Nat /\ \A b \in Blocks : ~ (b < 0) /\ b >= 0
  BY NumberFacts
<1>1. FlowInv
  BY DEF Init, FlowInv
<1>2. ErrorInv
  BY DEF Init, ErrorInv, Unset
<1>3. OffsetInv
  BY <1>0 DEF Init, OffsetInv, getBlockOffset
<1>4. OutputInv
  <2>1. Output = <<>> \o <<>> /\ ~Pending
    BY DEF Init, Output, Pending
  <2>2. Len(Output) = 0
    BY <2>1
  <2> QED
    BY <1>0, <2>1, <2>2 DEF Init, OutputInv
<1>5. TableInv
  BY DEF Init, TableInv
<1> QED
  BY <1>1, <1>2, <1>3, <1>4, <1>5 DEF SInv

\* SInv is an invariant, given IInv.
LEMMA StorageInvariance == Spec => [](IInv /\ SInv)
<1>1. IInv /\ SInv /\ [Next]_vars => SInv'
  BY FlowStep, ErrorStep, OffsetStep, OutputStep, TableStep DEF SInv
<1> QED
  BY <1>1, InitSInv, Invariance, PTL DEF Spec

\* A piece of a sequence, known byte by byte, is the block.
LEMMA PieceIsBlock ==
    ASSUME NEW s \in Seq(Bytes), NEW from \in Nat, NEW n \in Nat, NEW b \in Blocks,
           from + n <= Len(s),
           \A k \in 1 .. n : s[from + k] = <<b, k>>
    PROVE  SubSeq(s, from + 1, from + n) = BytesOf(b, n)
<1>1. Len(s) \in Nat
  BY LenProperties
<1>2. \A i \in from + 1 .. from + n : s[i] \in Bytes
  <2>1. \A i \in from + 1 .. from + n : i \in 1 .. Len(s)
    BY <1>1
  <2> QED
    BY <2>1, ElementOfSeq
<1>3. PICK lo \in Int : lo = from + 1
  OBVIOUS
<1>4. PICK hi \in Int : hi = from + n
  OBVIOUS
<1>5. PICK p : p = SubSeq(s, lo, hi)
  OBVIOUS
<1>6. /\ p \in Seq(Bytes)
      /\ Len(p) = IF lo <= hi THEN hi - lo + 1 ELSE 0
      /\ \A i \in 1 .. hi - lo + 1 : p[i] = s[lo + i - 1]
  BY <1>2, <1>3, <1>4, <1>5, SubSeqProperties
<1>7. Len(p) = n /\ \A k \in 1 .. n : p[k] = <<b, k>>
  <2>1. Len(p) = n
    BY <1>3, <1>4, <1>6
  <2>2. ASSUME NEW k \in 1 .. n
        PROVE  p[k] = <<b, k>>
    <3>1. k \in 1 .. hi - lo + 1 /\ lo + k - 1 = from + k
      BY <1>3, <1>4
    <3> QED
      BY <1>6, <3>1
  <2> QED
    BY <2>1, <2>2
<1>8. PICK y : y = BytesOf(b, n)
  OBVIOUS
<1>9. y \in Seq(Bytes) /\ Len(y) = n /\ \A k \in 1 .. n : y[k] = <<b, k>>
  BY <1>8, BytesOfBlock
<1>10. p = y
  BY <1>6, <1>7, <1>9, SeqEqual
<1> QED
  BY <1>3, <1>4, <1>5, <1>8, <1>10

\* A reader who takes the offsets recorded so far finds the blocks stored so far.
LEMMA StoredBlockFound ==
    ASSUME IInv, SInv, ~DiskFaults, NEW b \in Blocks, b < nextBlockId
    PROVE  BlockBytes(blockOffset, Output, b) = BytesOf(b, g_blockSize[b])
<1>1. PICK s \in Seq(Bytes) : s = Output
  BY StorageTypes
<1>2. PICK n \in Nat : n = g_blockSize[b]
  <2>1. b < Popped
    BY StorageTypes, NumberFacts DEF Popped
  <2> QED
    BY <2>1, PoppedAvailable
<1>3. PICK from \in Nat : from = getBlockOffset(blockOffset, b)
  BY DEF SInv, OffsetInv
<1>4. blockOffset[b] \in Nat /\ blockOffset[b] = from + n /\ blockOffset[b] <= offset
  BY <1>2, <1>3 DEF SInv, OffsetInv
<1>5. getBlockCompressedSizeBytes(blockOffset, b) = n
  BY <1>3, <1>4 DEF getBlockCompressedSizeBytes, getBlockOffset
<1>6. offset <= Len(s) /\ Len(s) \in Nat /\ offset \in Nat
  <2>1. Pending => g_blockSize[nextBlockId] \in Nat
    BY NextIsAnnounced DEF Pending
  <2>2. Len(s) = offset + (IF Pending THEN g_blockSize[nextBlockId] ELSE 0)
    BY <1>1 DEF SInv, OutputInv
  <2> QED
    BY <2>1, <2>2, StorageTypes
<1>7. from + n <= Len(s)
  BY <1>4, <1>6
<1>8. \A k \in 1 .. n : s[from + k] = <<b, k>>
  BY <1>1, <1>2, <1>3 DEF SInv, OutputInv
<1>9. SubSeq(s, from + 1, from + n) = BytesOf(b, n)
  BY <1>7, <1>8, PieceIsBlock
<1>10. Smaller(from + n, Len(s)) = from + n
  BY <1>6, <1>7 DEF Smaller
<1>11. BlockBytes(blockOffset, s, b) = SubSeq(s, from + 1, Smaller(from + n, Len(s)))
  BY <1>3, <1>5 DEF BlockBytes
<1> QED
  BY <1>1, <1>2, <1>9, <1>10, <1>11

\* A closed table finds every block in the file.
LEMMA TableFindsBlocks ==
    ASSUME IInv, SInv, ~DiskFaults, wpc \in {"close", "done"}, NEW b \in Blocks
    PROVE  BlockBytes(fout.table, fout.data, b) = BytesOf(b, g_blockSize[b])
<1>1. fout.table = blockOffset /\ bufferMem = <<>> /\ nextBlockId = NumBlocks
  BY DEF SInv, TableInv, FlowInv
<1>2. Output = fout.data
  BY <1>1, StorageTypes, ConcatEmptySeq DEF Output
<1>3. b < nextBlockId
  BY <1>1, WritePipelineAssumption DEF Blocks
<1> QED
  BY <1>1, <1>2, <1>3, StoredBlockFound

\* As long as fwrite writes, every block stored so far is found where the offsets
\* say, and the table, once it is in the file, finds every block of the image there.
THEOREM StoredBlocksAreFound == ~DiskFaults => (Spec => []BlocksAreFound)
<1> SUFFICES ASSUME ~DiskFaults
             PROVE  Spec => []BlocksAreFound
  OBVIOUS
<1>1. IInv /\ SInv => BlocksAreFound
  <2> SUFFICES ASSUME IInv, SInv
               PROVE  BlocksAreFound
    OBVIOUS
  <2>1. ASSUME NEW b \in 0 .. nextBlockId - 1
        PROVE  BlockBytes(blockOffset, fout.data \o bufferMem, b)
                   = BytesOf(b, g_blockSize[b])
    <3>1. b \in Blocks /\ b < nextBlockId
      BY StorageTypes DEF Blocks
    <3> QED
      BY <3>1, StoredBlockFound DEF Output
  <2>2. ASSUME \E b \in Blocks : fout.table[b] # Junk, NEW b \in Blocks
        PROVE  BlockBytes(fout.table, fout.data, b) = BytesOf(b, g_blockSize[b])
    <3>1. wpc \in {"close", "done"}
      BY <2>2 DEF SInv, TableInv
    <3> QED
      BY <3>1, TableFindsBlocks
  <2> QED
    BY <2>1, <2>2 DEF BlocksAreFound
<1> QED
  BY <1>1, StorageInvariance, PTL

\* A call that returns 0 has left a closed file in which every block is there, as
\* long as fwrite writes and unless zlib hides an earlier error.
THEOREM SuccessIsStored == Spec => []SuccessMeansStoredUnlessZlib
<1>1. IInv /\ SInv => SuccessMeansStoredUnlessZlib
  <2> SUFFICES ASSUME IInv, SInv, ~DiskFaults, compressionType # "ZLIB", result = NoError
               PROVE  /\ fout.header /\ ~fout.open
                      /\ \A b \in Blocks :
                            /\ g_blockSize[b] > 0
                            /\ BlockBytes(fout.table, fout.data, b)
                                   = BytesOf(b, g_blockSize[b])
    BY DEF SuccessMeansStoredUnlessZlib, SuccessMeansStored
  <2>1. result = FirstError /\ wpc = "done"
    BY DEF SInv, FlowInv, NoError, Running
  <2>2. \A t \in Workers : errFlag[t] = NoError
    BY <2>1, NoErrorAtAll, StorageTypes
  <2>3. fout.header /\ ~fout.open /\ nextBlockId = NumBlocks
    BY <2>1 DEF SInv, FlowInv
  <2>4. ASSUME NEW b \in Blocks
        PROVE  g_blockSize[b] > 0
    <3>1. b < Popped
      BY <2>1, <2>3, WritePipelineAssumption DEF Blocks, Popped
    <3>2. g_blockSize[b] \in Nat
      BY <3>1, PoppedAvailable
    <3>3. g_blockSize[b] # 0
      BY <2>2 DEF SInv, ErrorInv
    <3> QED
      BY <3>2, <3>3
  <2>5. \A b \in Blocks :
            BlockBytes(fout.table, fout.data, b) = BytesOf(b, g_blockSize[b])
    BY <2>1, TableFindsBlocks
  <2> QED
    BY <2>3, <2>4, <2>5
<1> QED
  BY <1>1, StorageInvariance, PTL

-----------------------------------------------------------------------------
(* The reorder buffer.                                                     *)

Ready == {b \in Blocks : Available(b)}
Slots == Workers \X (1 .. QueueLen)

\* What waits to be stored when another block is about to be announced.
LEMMA WaitingFits ==
    ASSUME IInv, NEW t \in Workers, pc[t] = "announce"
    PROVE  LET waiting == {b \in Ready : b >= Popped} \cup {blk[t]}
           IN  /\ IsFiniteSet(waiting)
               /\ Cardinality(waiting) <= NumThreads * QueueLen
<1> DEFINE waiting == {b \in Ready : b >= Popped} \cup {blk[t]}
           Holds(s, b) == s[2] \in 1 .. cq[s[1]].numTaken /\ Queued(s[1], s[2]) = b
           place == [b \in waiting |-> CHOOSE s \in Slots : Holds(s, b)]
<1>1. /\ NumThreads \in Nat \ {0} /\ QueueLen \in Nat \ {0}
      /\ \A u \in Workers : cq[u].numTaken \in Nat /\ cq[u].numTaken <= QueueLen
  BY Dimensions, QueueFacts DEF IInv
<1>2. ASSUME NEW u \in Workers, NEW i \in 1 .. cq[u].numTaken
      PROVE  <<u, i>> \in Slots /\ Holds(<<u, i>>, Queued(u, i))
  BY <1>1, <1>2 DEF Slots
<1>3. ASSUME NEW b \in waiting
      PROVE  \E s \in Slots : Holds(s, b)
  <2>1. CASE b = blk[t]
    <3>1. cq[t].numTaken > 0 /\ Queued(t, cq[t].numTaken) = blk[t]
      BY DEF IInv, Core, PushedInv
    <3>2. cq[t].numTaken \in 1 .. cq[t].numTaken
      BY <1>1, <3>1
    <3> QED
      BY <1>2, <2>1, <3>1, <3>2
  <2>2. CASE b \in Ready /\ b >= Popped
    <3>1. b \in Blocks /\ g_blockThreadId[b] \in Workers
      <4>1. b \in Blocks /\ g_blockThreadId[b] >= 0
        BY <2>2 DEF Ready, Available
      <4> QED
        BY <4>1, TypeFacts DEF Unset
    <3>2. PICK u \in Workers : u = g_blockThreadId[b]
      BY <3>1
    <3>3. \E i \in 1 .. cq[u].numTaken : Queued(u, i) = b
      BY <2>2, <3>1, <3>2 DEF IInv, Core, AnnouncedInv
    <3> QED
      BY <1>2, <3>3
  <2> QED
    BY <2>1, <2>2
<1>4. \A b \in waiting : place[b] \in Slots /\ Holds(place[b], b)
  BY <1>3
<1>5. place \in Injection(waiting, Slots)
  <2>1. place \in [waiting -> Slots]
    BY <1>4
  <2>2. ASSUME NEW a \in waiting, NEW b \in waiting, place[a] = place[b]
        PROVE  a = b
    BY <1>4, <2>2
  <2> QED
    BY <2>1, <2>2 DEF Injection, IsInjective
<1>6. IsFiniteSet(Slots) /\ Cardinality(Slots) = NumThreads * QueueLen
  <2>1. IsFiniteSet(Workers) /\ Cardinality(Workers) = NumThreads
    <3>1. PICK n \in Nat : n = NumThreads /\ n # 0
      BY <1>1
    <3>2. /\ IsFiniteSet(0 .. n - 1)
          /\ Cardinality(0 .. n - 1) = IF 0 > n - 1 THEN 0 ELSE (n - 1) - 0 + 1
      BY FS_Interval
    <3> QED
      BY <3>1, <3>2 DEF Workers
  <2>2. IsFiniteSet(1 .. QueueLen) /\ Cardinality(1 .. QueueLen) = QueueLen
    <3>1. PICK n \in Nat : n = QueueLen /\ n # 0
      BY <1>1
    <3>2. /\ IsFiniteSet(1 .. n)
          /\ Cardinality(1 .. n) = IF 1 > n THEN 0 ELSE n - 1 + 1
      BY FS_Interval
    <3> QED
      BY <3>1, <3>2
  <2> QED
    BY <2>1, <2>2, FS_Product DEF Slots
<1> HIDE DEF waiting, place
<1>7. IsFiniteSet(waiting) /\ Cardinality(waiting) <= Cardinality(Slots)
  BY <1>5, <1>6, FS_Injection
<1> QED
  BY <1>6, <1>7 DEF waiting

\* So a block is announced only while the reorder buffer has room.
LEMMA RoomToAnnounce ==
    ASSUME IInv, NEW t \in Workers, pc[t] = "announce"
    PROVE  Cardinality(Ready) - Popped < NumThreads * QueueLen
<1> DEFINE rest == {b \in Ready : b >= Popped}
           waiting == rest \cup {blk[t]}
<1>1. IsFiniteSet(waiting) /\ Cardinality(waiting) <= NumThreads * QueueLen
  BY WaitingFits
<1>2. blk[t] \notin rest
  <2>1. g_blockThreadId[blk[t]] = Unset
    BY DEF IInv, Core, ClaimInv, Working
  <2> QED
    BY <2>1 DEF Ready, Available, Unset
<1>3. IsFiniteSet(rest) /\ Cardinality(rest) \in Nat
  <2>1. rest \in SUBSET waiting
    OBVIOUS
  <2>2. IsFiniteSet(rest)
    <3> HIDE DEF rest, waiting
    <3> QED
      BY <1>1, <2>1, FS_Subset
  <2> HIDE DEF rest
  <2> QED
    BY <2>2, FS_CardinalityType
<1>4. Cardinality(waiting) = Cardinality(rest) + 1
  <2> HIDE DEF rest
  <2> QED
    BY <1>2, <1>3, FS_AddElement
<1>5. PICK p \in Nat : p = Popped
  BY TypeFacts
<1>6. IsFiniteSet(0 .. p - 1) /\ Cardinality(0 .. p - 1) = p
  <2>1. /\ IsFiniteSet(0 .. p - 1)
        /\ Cardinality(0 .. p - 1) = IF 0 > p - 1 THEN 0 ELSE (p - 1) - 0 + 1
    BY FS_Interval
  <2> QED
    BY <2>1
<1>7. Ready = (0 .. p - 1) \cup rest
  <2>1. p <= NumBlocks
    <3>1. wpc \in {"notify", "record"} => nextBlockId \in Blocks
      BY DEF IInv, Core, WriterInv
    <3> QED
      BY <1>5, <3>1, StorageTypes DEF Popped, Blocks
  <2>2. ASSUME NEW b \in 0 .. p - 1
        PROVE  b \in Ready
    <3>1. b \in Blocks /\ b < Popped
      BY <1>5, <2>1, <2>2, WritePipelineAssumption DEF Blocks
    <3> QED
      BY <3>1, PoppedAvailable DEF Ready
  <2>3. ASSUME NEW b \in Ready, b \notin rest
        PROVE  b \in 0 .. p - 1
    <3>1. b \in Nat /\ ~ (b >= p)
      BY <1>5, <2>3, NumberFacts DEF Ready
    <3> QED
      BY <3>1
  <2> QED
    BY <2>2, <2>3
<1>8. (0 .. p - 1) \cap rest = {}
  BY <1>5
<1>9. Cardinality(Ready) = p + Cardinality(rest)
  <2>1. Cardinality((0 .. p - 1) \cap rest) = 0
    BY <1>8, FS_EmptySet
  <2> HIDE DEF rest
  <2>2. Cardinality((0 .. p - 1) \cup rest) =
            Cardinality(0 .. p - 1) + Cardinality(rest) - Cardinality((0 .. p - 1) \cap rest)
    BY <1>3, <1>6, FS_Union
  <2> QED
    BY <1>3, <1>6, <1>7, <2>1, <2>2
<1>10. Cardinality(waiting) \in Nat /\ NumThreads * QueueLen \in Int
  BY <1>3, <1>4, Dimensions
<1> QED
  BY <1>1, <1>3, <1>4, <1>5, <1>9, <1>10

\* What the reorder buffer sees of the steps of the caller.
LEMMA CallerRefines ==
    ASSUME IInv, SInv, Main
    PROVE  [Reorder!Next]_(Reorder!vars)
<1>0. pcMain \in {"call", "start", "join", "returned"}
  BY StorageTypes DEF TypeOK
<1>1. CASE RejectDims \/ OpenFails
  <2>1. /\ pcMain = "call" /\ pcMain' = "returned"
        /\ UNCHANGED <<g_blockSize, g_blockThreadId, wpc, nextBlockId>>
    BY <1>1 DEF RejectDims, OpenFails, boardVars, writerVars
  <2>2. \A b \in Blocks : ~ Available(b)
    <3>1. \A b \in Blocks : b >= blockId
      BY <2>1, NumberFacts DEF SInv, FlowInv
    <3>2. \A b \in Blocks : g_blockThreadId[b] = Unset
      BY <3>1 DEF IInv, Core, BoardInv
    <3> QED
      BY <3>2 DEF Available, Unset
  <2>3. {b \in Blocks : Available(b)} = {} /\ {b \in Blocks : Available(b)}' = {}
    BY <2>1, <2>2 DEF Available
  <2>4. Reorder!Refuse
    BY <2>1, <2>3 DEF Reorder!Refuse
  <2> QED
    BY <2>4 DEF Reorder!Next
<1>2. CASE StartWriter
  <2>1. /\ pcMain # "returned" /\ pcMain' # "returned"
        /\ UNCHANGED <<g_blockSize, g_blockThreadId, nextBlockId>>
        /\ wpc = "off" /\ wpc' = "header"
    BY <1>2 DEF StartWriter, boardVars, SInv, FlowInv
  <2> QED
    BY <2>1 DEF Reorder!vars, Available
<1>3. CASE JoinAll
  <2>1. /\ pcMain # "returned" /\ pcMain' = "returned"
        /\ wpc = "done" /\ nextBlockId = NumBlocks
        /\ UNCHANGED <<g_blockSize, g_blockThreadId, wpc, nextBlockId>>
    BY <1>3 DEF JoinAll, boardVars, writerVars, SInv, FlowInv
  <2>2. Reorder!Return
    BY <2>1 DEF Reorder!Return, Available
  <2> QED
    BY <2>2 DEF Reorder!Next
<1>4. ASSUME NEW t \in Workers, StartWorker(t)
      PROVE  UNCHANGED Reorder!vars
  <2>1. /\ pcMain # "returned" /\ pcMain' # "returned"
        /\ UNCHANGED <<g_blockSize, g_blockThreadId, wpc, nextBlockId>>
    BY <1>4 DEF StartWorker, boardVars, writerVars
  <2> QED
    BY <2>1 DEF Reorder!vars, Available
<1> QED
  BY <1>1, <1>2, <1>3, <1>4 DEF Main

\* Of the steps of a compressor: it makes a block ready.
LEMMA CompressorRefines ==
    ASSUME IInv, SInv, NEW t \in Workers, Compressor(t) \/ SpuriousWakeup(t)
    PROVE  [Reorder!Next]_(Reorder!vars)
<1>0. pcMain # "returned" /\ pcMain' = pcMain
  <2>1. pc[t] \notin {"off", "done"} /\ UNCHANGED mainVars
    BY DEF Compressor, SpuriousWakeup, ClaimBlock, ReserveSlot, Compress, PushBlock,
           Announce, NotifyWriter
  <2> QED
    BY <2>1 DEF SInv, FlowInv, mainVars
<1>1. CASE Announce(t)
  <2>1. /\ pc[t] = "announce"
        /\ g_blockSize' = [g_blockSize EXCEPT ![blk[t]] = csize[t]]
        /\ g_blockThreadId' = [g_blockThreadId EXCEPT ![blk[t]] = t]
        /\ UNCHANGED <<wpc, nextBlockId>>
    BY <1>1 DEF Announce, writerVars
  <2>2. /\ blk[t] \in Blocks
        /\ g_blockThreadId[blk[t]] = Unset
        /\ csize[t] >= 0 /\ t >= 0
        /\ g_blockSize \in [Blocks -> Sizes \cup {0, Unset}]
        /\ g_blockThreadId \in [Blocks -> Workers \cup {Unset}]
    <3>1. csize[t] \in Sizes \cup {0}
      BY StorageTypes
    <3>2. csize[t] \in Nat /\ t \in Nat
      BY <3>1, NumberFacts
    <3>3. g_blockThreadId[blk[t]] = Unset
      BY <2>1 DEF IInv, Core, ClaimInv, Working
    <3> QED
      BY <3>2, <3>3, TypeFacts
  <2>3. blk[t] \notin Ready
    BY <2>2 DEF Ready, Available, Unset
  <2>4. \A b \in Blocks : Available(b)' <=> Available(b) \/ b = blk[t]
    BY <2>1, <2>2 DEF Available
  <2>5. Ready' = Ready \cup {blk[t]}
    BY <2>2, <2>4 DEF Ready
  <2>6. Cardinality(Ready) - Popped < NumThreads * QueueLen
    BY <2>1, RoomToAnnounce
  <2>7. Reorder!Cardinality(Ready) = Cardinality(Ready)
    BY DEF Cardinality, Reorder!Cardinality
  <2>8. Reorder!BlockReady(blk[t])
    BY <1>0, <2>1, <2>3, <2>5, <2>6, <2>7 DEF Reorder!BlockReady, Ready, Popped
  <2> QED
    BY <2>2, <2>8 DEF Reorder!Next, Blocks
<1>2. CASE ClaimBlock(t) \/ ReserveSlot(t) \/ Compress(t) \/ PushBlock(t)
           \/ NotifyWriter(t) \/ SpuriousWakeup(t)
  <2>1. /\ UNCHANGED <<g_blockSize, g_blockThreadId, nextBlockId>>
        /\ wpc' = wpc \/ (wpc = "asleep" /\ wpc' = "check")
    BY <1>2 DEF ClaimBlock, ReserveSlot, Compress, PushBlock, NotifyWriter, SpuriousWakeup,
                boardVars, writerVars
  <2>2. wpc' \in {"notify", "record"} <=> wpc \in {"notify", "record"}
    BY <2>1
  <2> QED
    BY <1>0, <2>1, <2>2 DEF Reorder!vars, Available
<1> QED
  BY <1>1, <1>2 DEF Compressor

\* Of the steps of the writer: it stores the next block when it pops it.
LEMMA WriterRefines ==
    ASSUME IInv, SInv, Writer \/ SpuriousWriterWakeup
    PROVE  [Reorder!Next]_(Reorder!vars)
<1>0. UNCHANGED <<pcMain, g_blockSize, g_blockThreadId>>
  BY DEF Writer, WriteHeader, CheckNext, FlushIfFull, CopyBlock, PopBlock,
         NotifyCompressor, RecordOffset, LastFlush, WriteTable, CloseFile,
         SpuriousWriterWakeup, mainVars, boardVars
<1>1. CASE PopBlock
  <2>1. /\ wpc = "pop" /\ wpc' \in {"notify", "record"} /\ nextBlockId' = nextBlockId
    BY <1>1 DEF PopBlock
  <2>2. nextBlockId \in Blocks /\ Available(nextBlockId)
    BY <2>1, NextIsAnnounced
  <2>3. Reorder!StoreNext
    BY <1>0, <2>1, <2>2 DEF Reorder!StoreNext, Available
  <2> QED
    BY <2>3 DEF Reorder!Next
<1>2. CASE RecordOffset
  <2>1. wpc = "record" /\ wpc' = "check" /\ nextBlockId' = nextBlockId + 1
    BY <1>2 DEF RecordOffset
  <2> QED
    BY <1>0, <2>1 DEF Reorder!vars, Available
<1>3. CASE WriteHeader \/ CheckNext \/ FlushIfFull \/ CopyBlock \/ NotifyCompressor
           \/ LastFlush \/ WriteTable \/ CloseFile \/ SpuriousWriterWakeup
  <2>1. /\ nextBlockId' = nextBlockId
        /\ wpc' \in {"notify", "record"} <=> wpc \in {"notify", "record"}
    BY <1>3 DEF WriteHeader, CheckNext, FlushIfFull, CopyBlock, NotifyCompressor,
                LastFlush, WriteTable, CloseFile, SpuriousWriterWakeup
  <2> QED
    BY <1>0, <2>1 DEF Reorder!vars, Available
<1> QED
  BY <1>1, <1>2, <1>3 DEF Writer

\* The threads of one call together are a reorder buffer: blocks become ready in any
\* order, are stored in the order of their ids, and no more than NumThreads * QueueLen
\* of them wait; the call returns when all are stored, or refuses before any is ready.
THEOREM RefinesReorderBuffer == Spec => ImplementsReorderBuffer
<1>1. Init => Reorder!Init
  <2> SUFFICES ASSUME Init
               PROVE  Reorder!Init
    OBVIOUS
  <2>1. \A b \in Blocks : ~ Available(b)
    BY DEF Init, Available, Unset
  <2>2. {b \in Blocks : Available(b)} = {}
    BY <2>1
  <2> QED
    BY <2>2 DEF Init, Reorder!Init
<1>2. IInv /\ SInv /\ [Next]_vars => [Reorder!Next]_(Reorder!vars)
  <2> SUFFICES ASSUME IInv, SInv, [Next]_vars
               PROVE  [Reorder!Next]_(Reorder!vars)
    OBVIOUS
  <2>1. CASE UNCHANGED vars \/ Finished
    BY <2>1 DEF Finished, vars, mainVars, boardVars, writerVars, Reorder!vars, Available
  <2>2. CASE \E t \in Workers : Compressor(t) \/ SpuriousWakeup(t)
    BY <2>2, CompressorRefines
  <2> QED
    BY <2>1, <2>2, CallerRefines, WriterRefines DEF Next
<1> QED
  BY <1>1, <1>2, StorageInvariance, PTL DEF Spec, Reorder!Spec, ImplementsReorderBuffer
-----------------------------------------------------------------------------
(***************************************************************************)
(* No deadlock.  The threads wait in a circle: a compressor for room in    *)
(* its queue, the writer for the block that comes next, whoever works on   *)
(* it, and the caller for both.  The circle never closes because the       *)
(* compressor of the block that comes next sleeps only behind an older     *)
(* block, and there is none that is not stored.                            *)
(***************************************************************************)

\* Who has been started and who is done: the compressors are started one by one in
\* order, each is done when all blocks are claimed, and the writer sleeps only while a
\* block is missing.
StagesInv ==
    /\ pcMain = "start" =>
          \E t \in Workers : \A u \in Workers : pc[u] = "off" <=> u >= t
    /\ pcMain = "join" => \A t \in Workers : pc[t] # "off"
    /\ pcMain \in {"start", "join"} => wpc # "off"
    /\ \A t \in Workers : pc[t] = "done" => blockId >= NumBlocks
    /\ wpc = "asleep" => nextBlockId # NumBlocks

\* Every step keeps the order in which the threads start and end.
LEMMA StagesStep ==
    ASSUME IInv, FlowInv, StagesInv, [Next]_vars
    PROVE  StagesInv'
<1>0. /\ blockId \in Nat /\ NumBlocks \in Nat
      /\ pc \in [Workers -> PcValues]
      /\ NumThreads \in Nat \ {0} /\ Workers = 0 .. NumThreads - 1 /\ 0 \in Workers
  BY TypeFacts, WritePipelineAssumption, Dimensions, NumberFacts DEF Workers
<1>1. CASE UNCHANGED vars
  BY <1>1 DEF StagesInv, vars, mainVars, workerVars, writerVars
<1>2. CASE RejectDims \/ OpenFails \/ JoinAll
  BY <1>2 DEF RejectDims, OpenFails, JoinAll, StagesInv, workerVars, writerVars
<1>3. CASE StartWriter
  <2>1. /\ pcMain' = "start" /\ wpc' = "header" /\ pc' = pc
        /\ \A t \in Workers : pc[t] = "off"
    BY <1>3 DEF StartWriter, FlowInv, workerVars
  <2>2. \A u \in Workers : u >= 0
    BY <1>0
  <2>3. \A u \in Workers : pc'[u] = "off" <=> u >= 0
    BY <2>1, <2>2
  <2> QED
    BY <1>0, <2>1, <2>3 DEF StagesInv
<1>4. ASSUME NEW t \in Workers, StartWorker(t)
      PROVE  StagesInv'
  <2>1. /\ pcMain = "start" /\ pcMain' = IF t = NumThreads - 1 THEN "join" ELSE "start"
        /\ pc' = [pc EXCEPT ![t] = "claim"]
        /\ \A u \in Workers : pc[u] = "off" <=> u >= t
        /\ blockId' = blockId /\ wpc' = wpc /\ nextBlockId' = nextBlockId
    BY <1>4 DEF StartWorker, writerVars
  <2>2. \A u \in Workers : pc'[u] = "off" <=> u >= t + 1
    <3>1. \A u \in Workers : u >= t + 1 <=> u >= t /\ u # t
      BY <1>0
    <3>2. \A u \in Workers : pc'[u] = IF u = t THEN "claim" ELSE pc[u]
      BY <1>0, <2>1
    <3> QED
      BY <2>1, <3>1, <3>2
  <2>3. \A u \in Workers : pc'[u] = "done" => pc[u] = "done"
    BY <1>0, <2>1
  <2>4. CASE t = NumThreads - 1
    <3>1. \A u \in Workers : ~(u >= t + 1)
      BY <1>0, <2>4
    <3> QED
      BY <2>1, <2>2, <2>3, <2>4, <3>1 DEF StagesInv
  <2>5. CASE t # NumThreads - 1
    <3>1. t + 1 \in Workers
      BY <1>0, <2>5
    <3> QED
      BY <2>1, <2>2, <2>3, <2>5, <3>1 DEF StagesInv
  <2> QED
    BY <2>4, <2>5
<1>5. ASSUME NEW t \in Workers, Compressor(t) \/ SpuriousWakeup(t)
      PROVE  StagesInv'
  <2>1. /\ pcMain' = pcMain /\ nextBlockId' = nextBlockId
        /\ wpc' = wpc \/ (wpc = "asleep" /\ wpc' = "check")
        /\ blockId' = blockId \/ blockId' = blockId + 1
        /\ pc[t] # "off"
    <3>1. CASE ClaimBlock(t)
      BY <3>1 DEF ClaimBlock, mainVars, writerVars
    <3>2. CASE NotifyWriter(t)
      BY <3>2 DEF NotifyWriter, mainVars
    <3>3. CASE ReserveSlot(t) \/ Compress(t) \/ PushBlock(t) \/ Announce(t)
                  \/ SpuriousWakeup(t)
      <4>1. UNCHANGED <<mainVars, blockId, writerVars>> /\ pc[t] # "off"
        BY <3>3 DEF ReserveSlot, Compress, PushBlock, Announce, SpuriousWakeup
      <4> QED
        BY <4>1 DEF mainVars, writerVars
    <3> QED
      BY <1>5, <3>1, <3>2, <3>3 DEF Compressor
  <2>2. PICK s \in PcValues \ {"off"} :
           /\ pc' = [pc EXCEPT ![t] = s]
           /\ s = "done" => blockId >= NumBlocks
    <3>1. \/ pc' = [pc EXCEPT ![t] = "done"] /\ blockId >= NumBlocks
          \/ \E s \in PcValues \ {"off", "done"} : pc' = [pc EXCEPT ![t] = s]
      <4>1. CASE ClaimBlock(t)
        <5>1. \/ pc' = [pc EXCEPT ![t] = "done"] /\ ~(blockId < NumBlocks)
              \/ pc' = [pc EXCEPT ![t] = "reserve"]
          BY <4>1 DEF ClaimBlock
        <5> QED
          BY <1>0, <5>1 DEF PcValues
      <4>2. CASE ReserveSlot(t) \/ Compress(t) \/ PushBlock(t)
        BY <4>2 DEF ReserveSlot, Compress, PushBlock, PcValues
      <4>3. CASE Announce(t) \/ NotifyWriter(t) \/ SpuriousWakeup(t)
        BY <4>3 DEF Announce, NotifyWriter, SpuriousWakeup, PcValues
      <4> QED
        BY <1>5, <4>1, <4>2, <4>3 DEF Compressor
    <3> QED
      BY <3>1 DEF PcValues
  <2>3. blockId >= NumBlocks => blockId' >= NumBlocks
    BY <1>0, <2>1
  <2>4. \A u \in Workers : /\ pc'[u] = "off" <=> pc[u] = "off"
                           /\ pc'[u] = "done" => blockId' >= NumBlocks
    BY <1>0, <2>1, <2>2, <2>3 DEF StagesInv
  <2> QED
    BY <2>1, <2>4 DEF StagesInv
<1>6. CASE Writer \/ SpuriousWriterWakeup
  <2>1. /\ pcMain' = pcMain /\ blockId' = blockId /\ wpc' # "off"
        /\ wpc' = "asleep" => nextBlockId' = nextBlockId /\ nextBlockId # NumBlocks
    BY <1>6 DEF Writer, WriteHeader, CheckNext, FlushIfFull, CopyBlock, PopBlock,
                NotifyCompressor, RecordOffset, LastFlush, WriteTable, CloseFile,
                SpuriousWriterWakeup, mainVars
  <2>2. pc' = pc \/ pc' = [pc EXCEPT ![Source] = IF @ = "asleep" THEN "reserve" ELSE @]
    BY <1>6 DEF Writer, WriteHeader, CheckNext, FlushIfFull, CopyBlock, PopBlock,
                NotifyCompressor, RecordOffset, LastFlush, WriteTable, CloseFile,
                SpuriousWriterWakeup, workerVars
  <2>3. \A u \in Workers : /\ pc'[u] = "off" <=> pc[u] = "off"
                           /\ pc'[u] = "done" <=> pc[u] = "done"
    BY <1>0, <2>2
  <2> QED
    BY <2>1, <2>3 DEF StagesInv
<1>7. CASE Finished
  BY <1>1, <1>7 DEF Finished
<1> QED
  BY <1>1, <1>2, <1>3, <1>4, <1>5, <1>6, <1>7 DEF Next, Main

\* A block that is claimed and not announced has a compressor at work on it.
CoverInv ==
    \A b \in Blocks :
        b < blockId /\ g_blockThreadId[b] = Unset =>
            \E t \in Workers : pc[t] \in Working /\ blk[t] = b

\* Only an announcement takes a compressor off the block it has claimed.
LEMMA CoverStep ==
    ASSUME IInv, CoverInv, [Next]_vars
    PROVE  CoverInv'
<1>0. /\ blockId \in Nat /\ Blocks \subseteq Nat
      /\ pc \in [Workers -> PcValues]
      /\ blk \in [Workers -> Blocks]
      /\ g_blockThreadId \in [Blocks -> Workers \cup {Unset}]
      /\ Unset \notin Workers
  BY TypeFacts, NumberFacts
<1>1. ASSUME UNCHANGED <<blockId, blk, g_blockThreadId>>,
             \A t \in Workers : pc[t] \in Working => pc'[t] \in Working
      PROVE  CoverInv'
  BY <1>1 DEF CoverInv
<1>2. ASSUME NEW t \in Workers, ClaimBlock(t)
      PROVE  CoverInv'
  <2>1. /\ pc[t] = "claim" /\ blockId' = blockId + 1 /\ g_blockThreadId' = g_blockThreadId
        /\ blockId < NumBlocks => /\ blk' = [blk EXCEPT ![t] = blockId]
                                  /\ pc' = [pc EXCEPT ![t] = "reserve"]
        /\ ~(blockId < NumBlocks) => blk' = blk /\ pc' = [pc EXCEPT ![t] = "done"]
    BY <1>2 DEF ClaimBlock, boardVars
  <2>2. ASSUME NEW b \in Blocks, b < blockId', g_blockThreadId'[b] = Unset
        PROVE  \E u \in Workers : pc'[u] \in Working /\ blk'[u] = b
    <3>1. b < blockId \/ b = blockId
      BY <1>0, <2>1, <2>2
    <3>2. CASE b < blockId
      <4>1. PICK u \in Workers : pc[u] \in Working /\ blk[u] = b
        BY <2>1, <2>2, <3>2 DEF CoverInv
      <4>2. u # t
        BY <2>1, <4>1 DEF Working
      <4>3. pc'[u] = pc[u] /\ blk'[u] = blk[u]
        BY <1>0, <2>1, <4>2
      <4> QED
        BY <4>1, <4>3
    <3>3. CASE b = blockId
      <4>1. blockId < NumBlocks
        BY <1>0, <3>3, WritePipelineAssumption DEF Blocks
      <4>2. pc'[t] = "reserve" /\ blk'[t] = b
        BY <1>0, <2>1, <3>3, <4>1
      <4> QED
        BY <4>2 DEF Working
    <3> QED
      BY <3>1, <3>2, <3>3
  <2> QED
    BY <2>2 DEF CoverInv
<1>3. ASSUME NEW t \in Workers, Announce(t)
      PROVE  CoverInv'
  <2>1. /\ pc[t] = "announce" /\ blockId' = blockId /\ blk' = blk
        /\ g_blockThreadId' = [g_blockThreadId EXCEPT ![blk[t]] = t]
        /\ pc' = [pc EXCEPT ![t] = "notify"]
    BY <1>3 DEF Announce
  <2>2. ASSUME NEW b \in Blocks, b < blockId, g_blockThreadId'[b] = Unset
        PROVE  \E u \in Workers : pc'[u] \in Working /\ blk[u] = b
    <3>1. b # blk[t] /\ g_blockThreadId[b] = Unset
      BY <1>0, <2>1, <2>2
    <3>2. PICK u \in Workers : pc[u] \in Working /\ blk[u] = b
      BY <2>2, <3>1 DEF CoverInv
    <3>3. pc'[u] = pc[u]
      BY <1>0, <2>1, <3>1, <3>2
    <3> QED
      BY <3>2, <3>3
  <2> QED
    BY <2>1, <2>2 DEF CoverInv
<1>4. ASSUME NEW t \in Workers,
             ReserveSlot(t) \/ Compress(t) \/ PushBlock(t) \/ NotifyWriter(t)
                \/ SpuriousWakeup(t)
      PROVE  CoverInv'
  <2>1. /\ UNCHANGED <<blockId, blk, g_blockThreadId>>
        /\ \/ pc[t] \notin Working
           \/ pc'[t] \in Working
        /\ \A u \in Workers : u # t => pc'[u] = pc[u]
    BY <1>0, <1>4 DEF ReserveSlot, Compress, PushBlock, NotifyWriter, SpuriousWakeup,
                      boardVars, Working
  <2> QED
    BY <1>1, <2>1
<1>5. ASSUME NEW t \in Workers, StartWorker(t)
      PROVE  CoverInv'
  <2>1. /\ UNCHANGED <<blockId, blk, g_blockThreadId>>
        /\ pc' = [pc EXCEPT ![t] = "claim"]
        /\ pc[t] = "off" <=> t >= t
    BY <1>5 DEF StartWorker, boardVars
  <2>2. pc[t] \notin Working
    <3>1. t \in Nat
      BY NumberFacts
    <3>2. pc[t] = "off"
      BY <2>1, <3>1
    <3> QED
      BY <3>2 DEF Working
  <2>3. \A u \in Workers : pc[u] \in Working => pc'[u] \in Working
    BY <1>0, <2>1, <2>2
  <2> QED
    BY <1>1, <2>1, <2>3
<1>6. CASE Writer \/ SpuriousWriterWakeup
  <2>1. /\ UNCHANGED <<blockId, blk, g_blockThreadId>>
        /\ pc' = pc \/ pc' = [pc EXCEPT ![Source] = IF @ = "asleep" THEN "reserve" ELSE @]
    BY <1>6 DEF Writer, WriteHeader, CheckNext, FlushIfFull, CopyBlock, PopBlock,
                NotifyCompressor, RecordOffset, LastFlush, WriteTable, CloseFile,
                SpuriousWriterWakeup, workerVars, boardVars
  <2>2. \A u \in Workers : pc[u] \in Working => pc'[u] \in Working
    BY <1>0, <2>1 DEF Working
  <2> QED
    BY <1>1, <2>1, <2>2
<1>7. CASE RejectDims \/ OpenFails \/ StartWriter \/ JoinAll \/ Finished \/ UNCHANGED vars
  <2>1. UNCHANGED <<blockId, blk, g_blockThreadId, pc>>
    BY <1>7 DEF RejectDims, OpenFails, StartWriter, JoinAll, Finished, vars, workerVars,
                boardVars
  <2> QED
    BY <1>1, <2>1
<1> QED
  BY <1>2, <1>3, <1>4, <1>5, <1>6, <1>7 DEF Next, Main, Compressor

\* The guards of the actions of the three kinds of threads.
MainReady ==
    \/ pcMain = "call" /\ (DimsAccepted \/ (StackSlices /\ \E n \in Volumes : n # 1))
    \/ pcMain = "start" /\ \E t \in Workers : \A u \in Workers : pc[u] = "off" <=> u >= t
    \/ pcMain = "join" /\ wpc = "done" /\ \A t \in Workers : pc[t] = "done"

CompressorReady(t) ==
    \/ pc[t] \in {"claim", "reserve", "push", "announce", "notify"}
    \/ pc[t] = "compress" /\ Outcomes(errFlag[t]) # {}

WriterReady ==
    \/ wpc \in {"header", "check", "flush", "pop", "notify", "record", "lastflush", "table",
                "close"}
    \/ wpc = "copy" /\ ReadPtr # NullPtr

\* A thread can take a step that is no spurious wakeup.
NeverStuck ==
    pcMain # "returned" => MainReady \/ WriterReady \/ \E t \in Workers : CompressorReady(t)

\* A compressor that sleeps although the writer is not about to wake it has a full queue:
\* a block that is older than its own and not stored yet.
LEMMA FullQueue ==
    ASSUME IInv, wpc \in {"asleep", "done"}, NEW t \in Workers, pc[t] = "asleep"
    PROVE  \E b \in Blocks : b >= nextBlockId /\ b < blk[t]
<1>1. ~HasRoom(cq[t])
  BY DEF IInv, CompressorWakeupPending
<1>2. cq[t].numTaken \in Nat /\ cq[t].numTaken <= QueueLen /\ cq[t].numBlocks = QueueLen
  BY QueueFacts DEF IInv
<1>3. 1 \in 1 .. cq[t].numTaken
  <2>1. cq[t].numTaken > 0
    BY <1>1, <1>2, Dimensions DEF HasRoom
  <2> QED
    BY <1>2, <2>1
<1>4. pc[t] \in Working \ {"announce"}
  BY DEF Working
<1>5. Queued(t, 1) \in Blocks /\ Queued(t, 1) >= Popped /\ Queued(t, 1) < blk[t]
  BY <1>3, <1>4 DEF IInv, Core, QueueInv
<1>6. Popped = nextBlockId
  BY DEF Popped
<1> QED
  BY <1>5, <1>6

\* Compressing a block has an outcome.
LEMMA OutcomeExists ==
    ASSUME TypeOK, Sizes # {}, NEW flag
    PROVE  Outcomes(flag) # {}
<1>1. PICK n \in Sizes : TRUE
  OBVIOUS
<1>2. [size |-> n, flag |-> flag] \in Stored(flag)
  BY <1>1 DEF Stored
<1>3. [size |-> n, flag |-> NoError] \in Stored(NoError)
  BY <1>1 DEF Stored
<1>4. Failed(5) # {}
  BY DEF Failed
<1>5. compressionType \in {"NONE", "BZIP2", "ZLIB", "OTHER"}
  BY WritePipelineAssumption DEF TypeOK
<1>6. CASE compressionType = "NONE"
  BY <1>2, <1>6 DEF Outcomes
<1>7. CASE compressionType = "BZIP2"
  BY <1>2, <1>7 DEF Outcomes
<1>8. CASE compressionType = "ZLIB"
  BY <1>3, <1>8 DEF Outcomes
<1>9. CASE compressionType = "OTHER"
  BY <1>4, <1>9 DEF Outcomes
<1> QED
  BY <1>5, <1>6, <1>7, <1>8, <1>9

\* As long as the call has not returned, one of its threads has a step to take that is no
\* spurious wakeup: the caller that joins them, the compressors that wait for room in their
\* queues and the writer that waits for one particular block never wait for each other, and
\* no notification that one of them needs is lost (klb_imageIO.cpp:1148-1152, :1300-1316,
\* klb_circularDequeue.cpp:77-106).
THEOREM NeverDeadlocked ==
    ASSUME Volumes # {}, Sizes # {}
    PROVE  Spec => []NeverStuck
<1>1. Init => StagesInv /\ CoverInv
  <2> SUFFICES ASSUME Init
               PROVE  StagesInv /\ CoverInv
    OBVIOUS
  <2>1. StagesInv
    BY NumberFacts DEF Init, StagesInv
  <2>2. \A b \in Blocks : ~(b < 0)
    BY NumberFacts
  <2> QED
    BY <2>1, <2>2 DEF Init, CoverInv
<1>2. IInv /\ SInv /\ StagesInv /\ CoverInv => NeverStuck
  <2> SUFFICES ASSUME IInv, SInv, StagesInv, CoverInv, pcMain # "returned",
                      ~MainReady, ~WriterReady, \A t \in Workers : ~CompressorReady(t)
               PROVE  FALSE
    BY DEF NeverStuck
  <2>1. /\ TypeOK /\ FlowInv
        /\ pc \in [Workers -> PcValues] /\ blk \in [Workers -> Blocks]
        /\ g_blockThreadId \in [Blocks -> Workers \cup {Unset}]
        /\ Blocks \subseteq Nat /\ nextBlockId \in Nat /\ blockId \in Nat
        /\ NumBlocks \in Nat /\ 0 \in Workers
    BY TypeFacts, NumberFacts, WritePipelineAssumption DEF SInv
  <2>2. pcMain = "join"
    <3>1. pcMain \in {"call", "start", "join"}
      BY <2>1 DEF TypeOK
    <3>2. pcMain # "call"
      <4>1. PICK n \in Volumes : TRUE
        OBVIOUS
      <4>2. DimsAccepted \/ (StackSlices /\ \E m \in Volumes : m # 1)
        BY <4>1, WritePipelineAssumption DEF DimsAccepted
      <4> QED
        BY <4>2 DEF MainReady
    <3>3. pcMain # "start"
      BY DEF MainReady, StagesInv
    <3> QED
      BY <3>1, <3>2, <3>3
  <2>3. \A t \in Workers : pc[t] \in {"asleep", "done"}
    <3> SUFFICES ASSUME NEW t \in Workers
                 PROVE  pc[t] \in {"asleep", "done"}
      OBVIOUS
    <3>1. pc[t] # "off"
      BY <2>2 DEF StagesInv
    <3>2. pc[t] # "compress"
      <4>1. Outcomes(errFlag[t]) # {}
        BY Zenon, <2>1, OutcomeExists
      <4> QED
        BY <4>1 DEF CompressorReady
    <3>3. pc[t] \notin {"claim", "reserve", "push", "announce", "notify"}
      BY DEF CompressorReady
    <3>4. pc[t] \in PcValues
      BY <2>1
    <3> QED
      BY <3>1, <3>2, <3>3, <3>4 DEF PcValues
  <2>4. wpc \in {"asleep", "done"}
    <3>1. wpc # "off"
      BY <2>2 DEF StagesInv
    <3>2. wpc # "copy"
      BY HeadKept DEF HeadIsNext, WriterReady
    <3>3. wpc \notin {"header", "check", "flush", "pop", "notify", "record", "lastflush",
                      "table", "close"}
      BY DEF WriterReady
    <3>4. wpc \in WpcValues
      BY <2>1 DEF TypeOK, WpcValues
    <3> QED
      BY <3>1, <3>2, <3>3, <3>4 DEF WpcValues
  <2>5. CASE wpc = "done"
    <3>1. nextBlockId = NumBlocks
      BY <2>1, <2>5 DEF FlowInv
    <3>2. \A b \in Blocks : ~(b >= nextBlockId)
      BY <2>1, <3>1 DEF Blocks
    <3>3. \A t \in Workers : pc[t] # "asleep"
      BY <2>4, <3>2, FullQueue
    <3> QED
      BY <2>2, <2>3, <2>5, <3>3 DEF MainReady
  <2>6. CASE wpc = "asleep"
    <3>1. nextBlockId \in Blocks
      <4>1. nextBlockId # NumBlocks /\ nextBlockId \in 0 .. NumBlocks
        BY <2>1, <2>6 DEF StagesInv, TypeOK
      <4> QED
        BY <2>1, <4>1 DEF Blocks
    <3>2. g_blockThreadId[nextBlockId] = Unset
      <4>1. ~Available(nextBlockId)
        BY <2>3, <2>6 DEF IInv, WriterWakeupPending
      <4>2. SUFFICES ASSUME g_blockThreadId[nextBlockId] # Unset
                     PROVE  FALSE
        OBVIOUS
      <4>3. g_blockThreadId[nextBlockId] \in Workers
        BY <2>1, <3>1, <4>2
      <4>4. g_blockSize[nextBlockId] \in Sizes \cup {0}
        <5>1. g_blockSize[nextBlockId] # Unset
          BY <3>1, <4>2 DEF IInv, Core, BoardInv
        <5>2. g_blockSize[nextBlockId] \in Sizes \cup {0, Unset}
          BY <3>1, TypeFacts
        <5> QED
          BY <5>1, <5>2
      <4>5. \A n \in Sizes \cup {0} : n \in Nat
        BY Zenon, NumberFacts
      <4>6. \A n \in Nat : n >= 0
        OBVIOUS
      <4>7. g_blockThreadId[nextBlockId] \in Nat /\ g_blockSize[nextBlockId] \in Nat
        BY Zenon, <4>3, <4>4, <4>5, NumberFacts
      <4> QED
        BY Zenon, <4>1, <4>6, <4>7 DEF Available
    <3>3. \A t \in Workers : pc[t] = "asleep" => nextBlockId < blk[t] /\ blk[t] < blockId
      <4> SUFFICES ASSUME NEW t \in Workers, pc[t] = "asleep"
                   PROVE  nextBlockId < blk[t] /\ blk[t] < blockId
        OBVIOUS
      <4>1. PICK b \in Blocks : b >= nextBlockId /\ b < blk[t]
        BY <2>4, FullQueue
      <4>2. blk[t] < blockId
        BY DEF IInv, Core, ClaimInv, Working
      <4>3. b \in Nat /\ blk[t] \in Nat
        BY <2>1
      <4> QED
        BY <2>1, <4>1, <4>2, <4>3
    <3>4. nextBlockId < blockId
      <4>1. CASE pc[0] = "asleep"
        <5>1. nextBlockId < blk[0] /\ blk[0] < blockId /\ blk[0] \in Nat
          BY <2>1, <3>3, <4>1
        <5> QED
          BY <2>1, <5>1
      <4>2. CASE pc[0] = "done"
        <5>1. blockId >= NumBlocks
          BY <2>1, <4>2 DEF StagesInv
        <5>2. nextBlockId < NumBlocks
          BY <2>1, <3>1 DEF Blocks
        <5> QED
          BY <2>1, <5>1, <5>2
      <4> QED
        BY <2>1, <2>3, <4>1, <4>2
    <3>5. PICK t \in Workers : pc[t] \in Working /\ blk[t] = nextBlockId
      BY <3>1, <3>2, <3>4 DEF CoverInv
    <3>6. pc[t] = "asleep"
      BY <2>3, <3>5 DEF Working
    <3>7. nextBlockId < nextBlockId
      BY <3>3, <3>5, <3>6
    <3> QED
      BY <2>1, <3>7
  <2> QED
    BY <2>4, <2>5, <2>6
<1>3. IInv /\ SInv /\ StagesInv /\ CoverInv /\ [Next]_vars => (StagesInv /\ CoverInv)'
  BY StagesStep, CoverStep DEF SInv
<1> QED
  BY <1>1, <1>2, <1>3, StorageInvariance, PTL DEF Spec
=============================================================================
