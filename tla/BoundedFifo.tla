---------------------------- MODULE BoundedFifo ----------------------------
(***************************************************************************)
(* What a klb_circular_dequeue promises to its one producer and its one    *)
(* consumer (src/klb_circularDequeue.h:12, :39-42): a bounded queue.  The  *)
(* consumer takes the oldest element in place, and the element keeps its   *)
(* room until the consumer releases it.  No index, slot or thread is seen. *)
(***************************************************************************)
EXTENDS Naturals, Sequences

CONSTANTS Capacity,     \* elements the queue can hold
          NumItems      \* the producer puts 1, 2, ..., NumItems

VARIABLES fifo,         \* elements put and not released, oldest first
          nextItem,     \* the element the producer puts next
          held,         \* the consumer has taken Head(fifo), not released it
          out           \* what the consumer took, in order

vars == <<fifo, nextItem, held, out>>

Init == /\ fifo = <<>>
        /\ nextItem = 1
        /\ held = FALSE
        /\ out = <<>>

Put == /\ nextItem <= NumItems
       /\ Len(fifo) < Capacity
       /\ fifo' = Append(fifo, nextItem)
       /\ nextItem' = nextItem + 1
       /\ UNCHANGED <<held, out>>

Take == /\ ~held
        /\ fifo # <<>>
        /\ out' = Append(out, Head(fifo))
        /\ held' = TRUE
        /\ UNCHANGED <<fifo, nextItem>>

Release == /\ held
           /\ fifo' = Tail(fifo)
           /\ held' = FALSE
           /\ UNCHANGED <<nextItem, out>>

Next == Put \/ Take \/ Release

Spec == Init /\ [][Next]_vars
=============================================================================
