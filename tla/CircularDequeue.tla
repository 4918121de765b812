-------------------------- MODULE CircularDequeue --------------------------
(***************************************************************************)
(* One producer thread and one consumer thread on one klb_circular_dequeue *)
(* (src/klb_circularDequeue.h:12), with the condition variable g_writeWait *)
(* as the standard library implements it.                                  *)
(*                                                                         *)
(* A critical section (lock, body, unlock) is one action.  Everything      *)
(* outside the lock is a step of its own: the producer's writes through    *)
(* the pointer it was given, the consumer's reads through its pointer, and *)
(* notify_all, which popReadBlock calls after unlocking.  A thread asleep  *)
(* in wait() is woken by notify_all or for no reason at all (a spurious    *)
(* wakeup), and then tests the predicate again under the lock.             *)
(***************************************************************************)
EXTENDS Dequeue

CONSTANTS NumSlots,     \* numBlocks of the queue
          NumItems      \* how many items the producer has: a bound of the model

ASSUME CircularDequeueAssumption == /\ NumSlots \in Nat \ {0}
                                    /\ NumItems \in Nat \ {0}

VARIABLES q,            \* the klb_circular_dequeue
          ppc,          \* where the producer is
          nextItem,     \* the item the producer pushes next
          wptr,         \* the producer's pointer, from getWriteBlock
          cpc,          \* where the consumer is
          rptr,         \* the consumer's pointer, from getReadBlock
          out           \* what the consumer read, in order

vars == <<q, ppc, nextItem, wptr, cpc, rptr, out>>

Items == 1 .. NumItems

\* Memory no item has been written to: a value that is not an item.
Junk == 0

TypeOK ==
    /\ WellFormed(q, NumSlots, Items \cup {Junk})
    /\ ppc \in {"reserve", "asleep", "fill", "push", "done"}
    /\ nextItem \in 1 .. NumItems + 1
    /\ wptr \in 0 .. NumSlots - 1
    /\ cpc \in {"read", "copy", "pop", "notify"}
    /\ rptr \in {NullPtr} \cup 0 .. NumSlots - 1
    /\ out \in Seq(Items \cup {Junk})

Init == /\ q = NewDequeue(NumSlots, Junk)
        /\ ppc = "reserve"
        /\ nextItem = 1
        /\ wptr = 0
        /\ cpc = "read"
        /\ rptr = NullPtr
        /\ out = <<>>

-----------------------------------------------------------------------------
(* The producer: getWriteBlock, fill the slot, pushWriteBlock.             *)

\* getWriteBlock's critical section: take the slot, or go to sleep.
ReserveSlot ==
    /\ ppc = "reserve"
    /\ IF HasRoom(q) THEN ppc' = "fill" /\ wptr' = GetWriteBlock(q)
                     ELSE ppc' = "asleep" /\ UNCHANGED wptr
    /\ UNCHANGED <<q, nextItem, cpc, rptr, out>>

SpuriousWakeup ==
    /\ ppc = "asleep"
    /\ ppc' = "reserve"
    /\ UNCHANGED <<q, nextItem, wptr, cpc, rptr, out>>

FillSlot ==
    /\ ppc = "fill"
    /\ q' = FillBlock(q, wptr, nextItem)
    /\ ppc' = "push"
    /\ UNCHANGED <<nextItem, wptr, cpc, rptr, out>>

PushSlot ==
    /\ ppc = "push"
    /\ q' = PushWriteBlock(q)
    /\ nextItem' = nextItem + 1
    /\ ppc' = IF nextItem = NumItems THEN "done" ELSE "reserve"
    /\ UNCHANGED <<wptr, cpc, rptr, out>>

-----------------------------------------------------------------------------
(* The consumer: getReadBlock, copy the block out, popReadBlock.           *)

\* getReadBlock: a consumer that is given NULL asks again later.
ReadSlot ==
    /\ cpc = "read"
    /\ rptr' = GetReadBlock(q)
    /\ cpc' = IF rptr' = NullPtr THEN "read" ELSE "copy"
    /\ UNCHANGED <<q, ppc, nextItem, wptr, out>>

CopySlot ==
    /\ cpc = "copy"
    /\ out' = Append(out, q.dataBuffer[rptr])
    /\ cpc' = "pop"
    /\ UNCHANGED <<q, ppc, nextItem, wptr, rptr>>

\* Mutant of PopSlot: the block is released and nobody is notified.
PopSlot_NoNotify ==
    /\ cpc = "pop"
    /\ q' = PopReadBlock(q)
    /\ cpc' = "read"
    /\ UNCHANGED <<ppc, nextItem, wptr, rptr, out>>

\* popReadBlock up to unlock(); an empty queue is neither changed nor notified.
PopSlot ==
    /\ cpc = "pop"
    /\ q' = PopReadBlock(q)
    /\ cpc' = IF q.numTaken > 0 THEN "notify" ELSE "read"
    /\ UNCHANGED <<ppc, nextItem, wptr, rptr, out>>

\* Mutant of NotifyProducer: a notify_all on another condition variable.
NotifyProducer_WrongCondition ==
    /\ cpc = "notify"
    /\ cpc' = "read"
    /\ UNCHANGED <<q, ppc, nextItem, wptr, rptr, out>>

\* The notify_all that follows.
NotifyProducer ==
    /\ cpc = "notify"
    /\ ppc' = IF ppc = "asleep" THEN "reserve" ELSE ppc
    /\ cpc' = "read"
    /\ UNCHANGED <<q, nextItem, wptr, rptr, out>>

-----------------------------------------------------------------------------
Producer == ReserveSlot \/ FillSlot \/ PushSlot
Consumer == ReadSlot \/ CopySlot \/ PopSlot \/ NotifyProducer

Next == Producer \/ SpuriousWakeup \/ Consumer

Spec == Init /\ [][Next]_vars

\* A thread that can run is scheduled in the end; no spurious wakeup is owed.
FairSpec == Spec /\ WF_vars(Producer) /\ WF_vars(Consumer)

-----------------------------------------------------------------------------
(* Properties.                                                             *)

\* The slot the producer is writing is never the one the consumer has been
\* given: "once you read the block it DOES NOT allow you to overwrite it"
\* (src/klb_circularDequeue.h:39), although both use their pointers unlocked.
SlotExclusive ==
    ~ ( /\ ppc \in {"fill", "push"}
        /\ cpc \in {"copy", "pop"}
        /\ wptr = rptr )

\* A producer asleep while there is room is about to be notified: the test of
\* numTaken and the sleep are one step under the lock, and popReadBlock notifies
\* after every pop (src/klb_circularDequeue.cpp:83-90).
NoLostWakeup == ppc = "asleep" /\ HasRoom(q) => cpc = "notify"

\* The queue with its indices, slots and threads is a bounded FIFO whose head
\* keeps its room while the consumer uses it.
Fifo == INSTANCE BoundedFifo WITH
            Capacity <- NumSlots,
            fifo     <- Contents(q),
            held     <- (cpc = "pop")
ImplementsFifo == Fifo!Spec

\* However small the queue, every item put reaches the consumer, in the order
\* it was put: no wakeup is missed and nobody waits for ever.
AllDelivered == <>[](out = [i \in Items |-> i])
=============================================================================
