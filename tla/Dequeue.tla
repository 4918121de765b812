------------------------------ MODULE Dequeue ------------------------------
(***************************************************************************)
(* The state and the operations of klb_circular_dequeue                    *)
(* (src/klb_circularDequeue.cpp) as pure operators on a queue value q.     *)
(*                                                                         *)
(* Every method of the class holds g_lockWrite from its first line to its  *)
(* last access to the fields, so one operator is one critical section.     *)
(* Blocking (the condition variable g_writeWait) belongs to the modules    *)
(* that own threads: they test HasRoom and keep track of who sleeps.       *)
(*                                                                         *)
(* A char* into dataBuffer is the index of its slot, NULL is NullPtr, and  *)
(* one slot holds one value (a whole compressed block), not its bytes.     *)
(***************************************************************************)
EXTENDS Integers, Sequences

\* The NULL of getReadBlock, which no slot index equals.
NullPtr == -1

\* The constructor: an empty queue of n slots whose memory is not initialised.
NewDequeue(n, junk) ==
    [numBlocks |-> n, readIdx |-> 0, writeIdx |-> 0, numTaken |-> 0,
     dataBuffer |-> [i \in 0 .. n - 1 |-> junk]]

\* Mutant of NextIdx: the index is never set back to 0.
NextIdx_NoRestart(q, i) == i + 1

\* An index after readIdx++ / writeIdx++ and the test that restarts the queue.
NextIdx(q, i) == IF i + 1 = q.numBlocks THEN 0 ELSE i + 1

GetReadBlock(q) == IF q.numTaken = 0 THEN NullPtr ELSE q.readIdx

\* Mutant of PopReadBlock: the room is given back, readIdx stays.
PopReadBlock_ReadIdxStays(q) ==
    IF q.numTaken > 0 THEN [q EXCEPT !.numTaken = @ - 1] ELSE q

PopReadBlock(q) ==
    IF q.numTaken > 0
    THEN [q EXCEPT !.numTaken = @ - 1, !.readIdx = NextIdx(q, @)]
    ELSE q

\* Mutant of HasRoom: <= for <.
HasRoom_OffByOne(q) == q.numTaken <= q.numBlocks

\* The predicate getWriteBlock waits for.
HasRoom(q) == q.numTaken < q.numBlocks

\* What getWriteBlock returns once the wait is over.
GetWriteBlock(q) == q.writeIdx

\* The caller's writes through the pointer getWriteBlock returned.
FillBlock(q, ptr, value) == [q EXCEPT !.dataBuffer[ptr] = value]

PushWriteBlock(q) ==
    [q EXCEPT !.writeIdx = NextIdx(q, @), !.numTaken = @ + 1]

-----------------------------------------------------------------------------
(* What the fields mean: the vocabulary of the properties and the proofs.  *)

\* The slot of the i-th oldest element (i = numTaken + 1: the next one to fill).
Slot(q, i) == LET s == q.readIdx + i - 1
              IN  IF s < q.numBlocks THEN s ELSE s - q.numBlocks

\* The values pushed and not popped yet, oldest first.
Contents(q) == [i \in 1 .. q.numTaken |-> q.dataBuffer[Slot(q, i)]]

\* A queue of n slots over the values S whose indices agree with its count.
WellFormed(q, n, S) ==
    /\ q \in [numBlocks : {n}, readIdx : 0 .. n - 1, writeIdx : 0 .. n - 1,
              numTaken : 0 .. n, dataBuffer : [0 .. n - 1 -> S]]
    /\ q.writeIdx = Slot(q, q.numTaken + 1)
=============================================================================
