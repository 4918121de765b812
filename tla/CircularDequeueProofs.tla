----------------------- MODULE CircularDequeueProofs -----------------------
(***************************************************************************)
(* CircularDequeue for every number of slots and of items: its safety      *)
(* properties, and that it implements BoundedFifo.                         *)
(*                                                                         *)
(* SlotExclusive is not inductive: it needs to know that each thread's     *)
(* pointer is still the index it was read from, and that the producer's    *)
(* slot is outside the elements of the queue while the consumer's is the   *)
(* first of them.  IInv says so and is kept by every step.                 *)
(***************************************************************************)
EXTENDS CircularDequeue, Lemmas, SequenceTheorems

Values == Items \cup {Junk}

\* Between getWriteBlock and pushWriteBlock the producer's slot is the next one
\* to push, and there is room for it: only the producer takes room.
ProducerOwnsSlot ==
    ppc \in {"fill", "push"} => wptr = q.writeIdx /\ HasRoom(q)

\* Once filled, the slot holds the item that is pushed next.
SlotIsFilled == ppc = "push" => q.dataBuffer[wptr] = nextItem

\* Between getReadBlock and popReadBlock the consumer's slot is the oldest one.
ConsumerOwnsSlot ==
    cpc \in {"copy", "pop"} => rptr = q.readIdx /\ q.numTaken > 0

\* The producer stops after the last item.
ItemLeft == ppc # "done" => nextItem \in Items

IInv == /\ TypeOK
        /\ ProducerOwnsSlot
        /\ SlotIsFilled
        /\ ConsumerOwnsSlot
        /\ ItemLeft
        /\ NoLostWakeup

\* The inductive invariant holds initially.
LEMMA InitIInv == Init => IInv
<1> SUFFICES ASSUME Init PROVE IInv
  OBVIOUS
<1>1. /\ NumSlots \in Nat \ {0} /\ NumItems \in Nat \ {0}
      /\ 0 \in 0 .. NumSlots - 1
      /\ 1 \in Items
      /\ 1 \in 1 .. NumItems + 1
  BY CircularDequeueAssumption DEF Items
<1>2. WellFormed(q, NumSlots, Items \cup {Junk})
  BY <1>1, NewDequeueWellFormed DEF Init
<1> QED
  BY <1>1, <1>2 DEF Init, IInv, TypeOK, ProducerOwnsSlot, SlotIsFilled,
     ConsumerOwnsSlot, ItemLeft, NoLostWakeup

\* Every step keeps it.
LEMMA NextIInv == IInv /\ [Next]_vars => IInv'
<1> SUFFICES ASSUME IInv, [Next]_vars PROVE IInv'
  OBVIOUS
<1> USE DEF Values
<1>0. /\ NumSlots \in Nat \ {0} /\ NumItems \in Nat \ {0}
      /\ TypeOK /\ WellFormed(q, NumSlots, Values)
      /\ q.numTaken \in Nat
      /\ q.writeIdx \in 0 .. NumSlots - 1 /\ q.readIdx \in 0 .. NumSlots - 1
      /\ q.dataBuffer \in [0 .. NumSlots - 1 -> Values]
      /\ q.numBlocks = NumSlots
  BY CircularDequeueAssumption DEF IInv, TypeOK, WellFormed
<1>1. CASE ReserveSlot
  BY <1>0, <1>1 DEF ReserveSlot, IInv, TypeOK, ProducerOwnsSlot, SlotIsFilled,
     ConsumerOwnsSlot, ItemLeft, NoLostWakeup, GetWriteBlock
<1>2. CASE SpuriousWakeup
  BY <1>2 DEF SpuriousWakeup, IInv, TypeOK, ProducerOwnsSlot, SlotIsFilled,
     ConsumerOwnsSlot, ItemLeft, NoLostWakeup
<1>3. CASE FillSlot
  <2>1. /\ wptr = q.writeIdx /\ HasRoom(q)
        /\ nextItem \in Items
    BY <1>3 DEF FillSlot, IInv, ProducerOwnsSlot, ItemLeft
  <2>2. /\ WellFormed(q', NumSlots, Values)
        /\ q'.numTaken = q.numTaken
        /\ q'.dataBuffer[wptr] = nextItem
    BY <1>0, <1>3, <2>1, FillPreserves DEF FillSlot
  <2>3. /\ q'.writeIdx = q.writeIdx
        /\ q'.readIdx = q.readIdx
        /\ q'.numBlocks = q.numBlocks
    BY <1>0, <1>3 DEF FillSlot, FillBlock, WellFormed
  <2> QED
    BY <1>0, <1>3, <2>1, <2>2, <2>3 DEF FillSlot, IInv, TypeOK, ProducerOwnsSlot,
       SlotIsFilled, ConsumerOwnsSlot, ItemLeft, NoLostWakeup, HasRoom
<1>4. CASE PushSlot
  <2>1. HasRoom(q) /\ nextItem \in Items
    BY <1>4 DEF PushSlot, IInv, ProducerOwnsSlot, ItemLeft
  <2>2. /\ WellFormed(q', NumSlots, Values)
        /\ q'.numTaken = q.numTaken + 1
        /\ q'.readIdx = q.readIdx
    BY <1>0, <1>4, <2>1, PushAppends DEF PushSlot
  <2>3. /\ nextItem' \in 1 .. NumItems + 1
        /\ ppc' # "done" => nextItem' \in Items
        /\ ppc' \in {"done", "reserve"}
    BY <1>0, <1>4, <2>1 DEF PushSlot, Items
  <2> QED
    BY <1>0, <1>4, <2>2, <2>3 DEF PushSlot, IInv, TypeOK, ProducerOwnsSlot,
       SlotIsFilled, ConsumerOwnsSlot, ItemLeft, NoLostWakeup
<1>5. CASE ReadSlot
  BY <1>0, <1>5 DEF ReadSlot, IInv, TypeOK, ProducerOwnsSlot, SlotIsFilled,
     ConsumerOwnsSlot, ItemLeft, NoLostWakeup, GetReadBlock, NullPtr
<1>6. CASE CopySlot
  <2>1. out' \in Seq(Items \cup {Junk})
    <3>1. q.dataBuffer[rptr] \in Items \cup {Junk}
      BY <1>0, <1>6 DEF CopySlot, IInv, ConsumerOwnsSlot
    <3> QED
      BY <1>0, <1>6, <3>1 DEF CopySlot, TypeOK
  <2> QED
    BY <1>0, <1>6, <2>1 DEF CopySlot, IInv, TypeOK, ProducerOwnsSlot,
       SlotIsFilled, ConsumerOwnsSlot, ItemLeft, NoLostWakeup
<1>7. CASE PopSlot
  <2>1. q.numTaken > 0
    BY <1>7 DEF PopSlot, IInv, ConsumerOwnsSlot
  <2>2. /\ WellFormed(q', NumSlots, Values)
        /\ q'.numTaken = q.numTaken - 1
        /\ q'.writeIdx = q.writeIdx
        /\ q'.dataBuffer = q.dataBuffer
    <3>1. q' = PopReadBlock(q)
      BY <1>7 DEF PopSlot
    <3>2. /\ WellFormed(PopReadBlock(q), NumSlots, Values)
          /\ PopReadBlock(q).numTaken = q.numTaken - 1
          /\ PopReadBlock(q).writeIdx = q.writeIdx
          /\ PopReadBlock(q).dataBuffer = q.dataBuffer
      <4>1. NumSlots \in Nat \ {0} /\ WellFormed(q, NumSlots, Values)
        BY <1>0
      <4> QED
        BY <2>1, <4>1, PopRemovesHead
    <3> QED
      BY <3>1, <3>2
  <2>3. q'.numBlocks = NumSlots
    BY <2>2 DEF WellFormed
  <2> QED
    BY <1>0, <1>7, <2>1, <2>2, <2>3 DEF PopSlot, IInv, TypeOK, ProducerOwnsSlot,
       SlotIsFilled, ConsumerOwnsSlot, ItemLeft, NoLostWakeup, HasRoom
<1>8. CASE NotifyProducer
  BY <1>0, <1>8 DEF NotifyProducer, IInv, TypeOK, ProducerOwnsSlot,
     SlotIsFilled, ConsumerOwnsSlot, ItemLeft, NoLostWakeup
<1>9. CASE UNCHANGED vars
  BY <1>9 DEF vars, IInv, TypeOK, ProducerOwnsSlot, SlotIsFilled,
     ConsumerOwnsSlot, ItemLeft, NoLostWakeup
<1> QED
  BY <1>1, <1>2, <1>3, <1>4, <1>5, <1>6, <1>7, <1>8, <1>9
     DEF Next, Producer, Consumer

\* In every reachable state the queue is well formed, pointers and items are in
\* range (TypeOK), and the strengthening of the other properties holds.
THEOREM Invariance == Spec => []IInv
BY InitIInv, NextIInv, PTL DEF Spec

\* The queue is well formed, and counts and items are in range, in every state its
\* producer and its consumer reach.
THEOREM TypeCorrect == Spec => []TypeOK
<1>1. IInv => TypeOK
  BY DEF IInv
<1> QED
  BY <1>1, Invariance, PTL

\* The producer never writes the slot the consumer has been given, for every
\* size of the queue: the promise of klb_circularDequeue.h:39.
THEOREM SlotsAreExclusive == Spec => []SlotExclusive
<1>1. IInv => SlotExclusive
  <2> SUFFICES ASSUME IInv, ppc \in {"fill", "push"}, cpc \in {"copy", "pop"},
                      wptr = rptr
               PROVE  FALSE
    BY DEF SlotExclusive
  <2>1. /\ wptr = q.writeIdx /\ HasRoom(q)
        /\ rptr = q.readIdx /\ q.numTaken > 0
    BY DEF IInv, ProducerOwnsSlot, ConsumerOwnsSlot
  <2>2. /\ WellFormed(q, NumSlots, Items \cup {Junk})
        /\ NumSlots \in Nat \ {0}
    BY CircularDequeueAssumption DEF IInv, TypeOK
  <2> QED
    BY <2>1, <2>2, ReadWriteDisjoint
<1> QED
  BY <1>1, Invariance, PTL

\* A producer asleep while there is room is about to be notified.
THEOREM WakeupsAreNotLost == Spec => []NoLostWakeup
<1>1. IInv => NoLostWakeup
  BY DEF IInv
<1> QED
  BY <1>1, Invariance, PTL

-----------------------------------------------------------------------------
\* The initial queue is the empty FIFO.
LEMMA InitRefines == Init /\ IInv => Fifo!Init
<1> SUFFICES ASSUME Init, IInv PROVE Fifo!Init
  OBVIOUS
<1>1. /\ NumSlots \in Nat \ {0}
      /\ WellFormed(q, NumSlots, Values)
      /\ q.numTaken = 0
  BY CircularDequeueAssumption DEF Init, IInv, TypeOK, NewDequeue, Values
<1>2. Contents(q) = <<>>
  BY <1>1, ContentsType
<1> QED
  BY <1>2 DEF Init, Fifo!Init

\* Every step is a step of the FIFO, or leaves the FIFO as it is: the FIFO sees
\* a push as Put, the copy as Take and the pop as Release.
LEMMA NextRefines == IInv /\ IInv' /\ [Next]_vars => [Fifo!Next]_(Fifo!vars)
<1> SUFFICES ASSUME IInv, [Next]_vars PROVE [Fifo!Next]_(Fifo!vars)
  OBVIOUS
<1>0. /\ NumSlots \in Nat \ {0} /\ NumItems \in Nat \ {0}
      /\ WellFormed(q, NumSlots, Values)
  BY CircularDequeueAssumption DEF IInv, TypeOK, Values
<1>1. CASE ReserveSlot
  BY <1>1 DEF ReserveSlot, Fifo!vars
<1>2. CASE SpuriousWakeup
  BY <1>2 DEF SpuriousWakeup, Fifo!vars
<1>3. CASE FillSlot
  <2>1. wptr = q.writeIdx /\ HasRoom(q) /\ nextItem \in Values
    BY <1>3 DEF FillSlot, IInv, ProducerOwnsSlot, ItemLeft, Values
  <2>2. Contents(q') = Contents(q)
    BY <1>0, <1>3, <2>1, FillPreserves DEF FillSlot
  <2> QED
    BY <1>3, <2>2 DEF FillSlot, Fifo!vars
<1>4. CASE PushSlot
  <2>1. /\ wptr = q.writeIdx /\ HasRoom(q) /\ q.dataBuffer[wptr] = nextItem
        /\ nextItem \in Items
    BY <1>4 DEF PushSlot, IInv, ProducerOwnsSlot, SlotIsFilled, ItemLeft
  <2>2. Contents(q') = Append(Contents(q), nextItem)
    BY <1>0, <1>4, <2>1, PushAppends DEF PushSlot
  <2>3. Len(Contents(q)) = q.numTaken /\ q.numTaken < NumSlots
    BY <1>0, <2>1, ContentsType DEF HasRoom, WellFormed
  <2>4. nextItem <= NumItems
    BY <1>0, <2>1 DEF Items
  <2>5. Fifo!Put
    BY <1>4, <2>2, <2>3, <2>4 DEF PushSlot, Fifo!Put
  <2> QED
    BY <2>5 DEF Fifo!Next
<1>5. CASE ReadSlot
  BY <1>5 DEF ReadSlot, Fifo!vars
<1>6. CASE CopySlot
  <2>1. rptr = q.readIdx /\ q.numTaken > 0
    BY <1>6 DEF CopySlot, IInv, ConsumerOwnsSlot
  <2>2. /\ Contents(q) # <<>>
        /\ q.dataBuffer[rptr] = Head(Contents(q))
    BY <1>0, <2>1, PopRemovesHead
  <2>3. Fifo!Take
    BY <1>6, <2>2 DEF CopySlot, Fifo!Take
  <2> QED
    BY <2>3 DEF Fifo!Next
<1>7. CASE PopSlot
  <2>1. q.numTaken > 0
    BY <1>7 DEF PopSlot, IInv, ConsumerOwnsSlot
  <2>2. Contents(q') = Tail(Contents(q))
    BY <1>0, <1>7, <2>1, PopRemovesHead DEF PopSlot
  <2>3. Fifo!Release
    BY <1>7, <2>1, <2>2 DEF PopSlot, Fifo!Release
  <2> QED
    BY <2>3 DEF Fifo!Next
<1>8. CASE NotifyProducer
  BY <1>8 DEF NotifyProducer, Fifo!vars
<1>9. CASE UNCHANGED vars
  BY <1>9 DEF vars, Fifo!vars
<1> QED
  BY <1>1, <1>2, <1>3, <1>4, <1>5, <1>6, <1>7, <1>8, <1>9
     DEF Next, Producer, Consumer

\* The class with its ring of slots, its lock and its two threads implements
\* the bounded FIFO, for every number of slots and of items.
THEOREM RefinesFifo == Spec => ImplementsFifo
<1>1. Init => Fifo!Init
  BY InitIInv, InitRefines
<1> QED
  BY <1>1, Invariance, NextRefines, PTL DEF Spec, ImplementsFifo, Fifo!Spec

-----------------------------------------------------------------------------
(* Nothing is lost: the FIFO keeps what was put and has not come out, in   *)
(* its order.                                                              *)

\* Of n items that were put, the queue f holds the last ones, and o are those before
\* them, and the first of f if it is held.
Delivers(f, n, held, o) ==
    /\ Len(f) <= n
    /\ \A i \in 1 .. Len(f) : f[i] = n - Len(f) + i
    /\ o \in Seq(Nat) /\ Len(o) = n - Len(f) + (IF held THEN 1 ELSE 0)
    /\ \A i \in 1 .. Len(o) : o[i] = i
    /\ held => Len(f) > 0

\* The queue takes the next item.
LEMMA PutDelivers ==
    ASSUME NEW n \in Nat, NEW S, n + 1 \in S, NEW f \in Seq(S), NEW held \in BOOLEAN, NEW o,
           Delivers(f, n, held, o)
    PROVE  Delivers(Append(f, n + 1), n + 1, held, o)
<1>1. PICK k \in Nat, l \in Nat, h \in {0, 1} :
         k = Len(f) /\ l = Len(o) /\ h = IF held THEN 1 ELSE 0
  BY LenProperties DEF Delivers
<1>2. PICK g : /\ g = Append(f, n + 1) /\ Len(g) = k + 1 /\ g[k + 1] = n + 1
               /\ \A i \in 1 .. k : g[i] = f[i]
  <2>1. PICK x \in S : x = n + 1
    OBVIOUS
  <2>2. /\ Len(Append(f, x)) = Len(f) + 1 /\ Append(f, x)[Len(f) + 1] = x
        /\ \A i \in 1 .. Len(f) : Append(f, x)[i] = f[i]
    BY AppendProperties
  <2> QED
    BY Zenon, <1>1, <2>1, <2>2
<1>3. /\ k <= n /\ \A i \in 1 .. k : f[i] = n - k + i
      /\ o \in Seq(Nat) /\ l = n - k + h
      /\ \A i \in 1 .. l : o[i] = i
      /\ held => k > 0
  BY Zenon, <1>1 DEF Delivers
<1>4. ASSUME NEW i \in 1 .. k + 1
      PROVE  g[i] = (n + 1) - (k + 1) + i
  <2>1. CASE i = k + 1
    BY <1>2, <2>1
  <2>2. CASE i \in 1 .. k
    <3>1. g[i] = n - k + i
      BY <1>2, <1>3, <2>2
    <3> QED
      BY <3>1
  <2> QED
    BY <2>1, <2>2
<1>5. k + 1 <= n + 1 /\ k + 1 > 0 /\ l = (n + 1) - (k + 1) + h
  BY <1>3
<1> QED
  BY Zenon, <1>1, <1>2, <1>3, <1>4, <1>5 DEF Delivers

\* The consumer takes the first item; its slot stays in use.
LEMMA TakeDelivers ==
    ASSUME NEW n \in Nat, NEW S, NEW f \in Seq(S), NEW o, Delivers(f, n, FALSE, o), f # <<>>
    PROVE  Delivers(f, n, TRUE, Append(o, Head(f)))
<1>1. PICK k \in Nat, l \in Nat : k = Len(f) /\ l = Len(o) /\ k > 0
  <2>1. Len(f) \in Nat \ {0}
    BY Zenon, EmptySeq
  <2>2. Len(o) \in Nat
    BY LenProperties DEF Delivers
  <2> QED
    BY <2>1, <2>2
<1>2. /\ k <= n /\ \A i \in 1 .. k : f[i] = n - k + i
      /\ o \in Seq(Nat) /\ l = n - k + (IF FALSE THEN 1 ELSE 0)
      /\ \A i \in 1 .. l : o[i] = i
  BY Zenon, <1>1 DEF Delivers
<1>3. l = n - k
  BY <1>2
<1>4. Head(f) = l + 1
  <2>1. Head(f) = f[1]
    BY DEF Head
  <2>2. 1 \in 1 .. k
    BY <1>1
  <2>3. f[1] = n - k + 1
    BY Zenon, <1>2, <2>2
  <2> QED
    BY <1>3, <2>1, <2>3
<1>5. PICK p : /\ p = Append(o, l + 1) /\ p \in Seq(Nat) /\ Len(p) = l + 1 /\ p[l + 1] = l + 1
               /\ \A i \in 1 .. l : p[i] = o[i]
  <2>1. PICK x \in Nat : x = l + 1
    OBVIOUS
  <2>2. o \in Seq(Nat)
    BY Zenon, <1>2
  <2>3. /\ Append(o, x) \in Seq(Nat)
        /\ Len(Append(o, x)) = Len(o) + 1 /\ Append(o, x)[Len(o) + 1] = x
        /\ \A i \in 1 .. Len(o) : Append(o, x)[i] = o[i]
    BY <2>2, AppendProperties
  <2> QED
    BY Zenon, <1>1, <2>1, <2>3
<1>6. \A i \in 1 .. l + 1 : p[i] = i
  BY <1>2, <1>5
<1>7. l + 1 = n - k + (IF TRUE THEN 1 ELSE 0)
  BY <1>3
<1> QED
  BY Zenon, <1>1, <1>2, <1>4, <1>5, <1>6, <1>7 DEF Delivers

\* The slot of the item that was taken is freed.
LEMMA ReleaseDelivers ==
    ASSUME NEW n \in Nat, NEW S, NEW f \in Seq(S), NEW o, Delivers(f, n, TRUE, o)
    PROVE  Delivers(Tail(f), n, FALSE, o)
<1>1. PICK k \in Nat, l \in Nat : k = Len(f) /\ l = Len(o)
  BY LenProperties DEF Delivers
<1>2. /\ k <= n /\ \A i \in 1 .. k : f[i] = n - k + i
      /\ o \in Seq(Nat) /\ l = n - k + (IF TRUE THEN 1 ELSE 0)
      /\ \A i \in 1 .. l : o[i] = i
      /\ k > 0
  BY Zenon, <1>1 DEF Delivers
<1>3. PICK j \in Nat : k = j + 1
  BY <1>2
<1>4. f # <<>>
  BY <1>1, <1>2
<1>5. PICK g : g = Tail(f) /\ Len(g) = j /\ \A i \in 1 .. j : g[i] = f[i + 1]
  <2>1. Len(Tail(f)) = k - 1 /\ \A i \in 1 .. Len(Tail(f)) : Tail(f)[i] = f[i + 1]
    BY <1>1, <1>4, HeadTailProperties
  <2>2. Len(Tail(f)) = j
    BY <1>3, <2>1
  <2> QED
    BY Zenon, <2>1, <2>2
<1>6. ASSUME NEW i \in 1 .. j
      PROVE  g[i] = n - j + i
  <2>1. i + 1 \in 1 .. k /\ n - k + (i + 1) = n - j + i
    BY <1>3
  <2> QED
    BY <1>2, <1>5, <2>1
<1>7. j <= n /\ l = n - j + (IF FALSE THEN 1 ELSE 0)
  BY <1>2, <1>3
<1> QED
  BY Zenon, <1>1, <1>2, <1>5, <1>6, <1>7 DEF Delivers

\* The queue and the output of the two threads hold all items that were put.
DeliveredInv == Delivers(Contents(q), nextItem - 1, cpc = "pop", out)

\* The producer is done after the last item.
EndInv == ppc = "done" => nextItem = NumItems + 1

\* Every step is one of the FIFO, and keeps this.
LEMMA DeliveredStep == IInv /\ IInv' /\ DeliveredInv /\ [Next]_vars => DeliveredInv'
<1> SUFFICES ASSUME IInv, IInv', DeliveredInv, [Next]_vars
             PROVE  DeliveredInv'
  OBVIOUS
<1>0. PICK f, o : f = Contents(q) /\ o = out
  OBVIOUS
<1>1. PICK n \in Nat : n = nextItem - 1 /\ f = Contents(q) /\ o = out
  BY <1>0, CircularDequeueAssumption DEF IInv, TypeOK
<1>2. f \in Seq(Values)
  <2>1. NumSlots \in Nat \ {0} /\ WellFormed(q, NumSlots, Values)
    BY CircularDequeueAssumption DEF IInv, TypeOK, Values
  <2> QED
    BY <1>1, <2>1, ContentsType
<1>3. [Fifo!Next]_(Fifo!vars)
  BY NextRefines
<1>4. Delivers(f, n, cpc = "pop", o)
  BY <1>1 DEF DeliveredInv
<1>5. CASE Fifo!Put
  <2>1. n + 1 = nextItem /\ n + 1 \in Values
    BY <1>1, <1>5, CircularDequeueAssumption DEF Fifo!Put, IInv, TypeOK, Values, Items
  <2>2. /\ Contents(q)' = Append(f, n + 1) /\ nextItem' - 1 = n + 1
        /\ (cpc = "pop")' = (cpc = "pop") /\ out' = o
    <3>1. nextItem' = nextItem + 1
      BY <1>5 DEF Fifo!Put
    <3>2. nextItem' - 1 = n + 1
      BY <2>1, <3>1
    <3> QED
      BY <1>1, <1>5, <2>1, <3>2 DEF Fifo!Put
  <2>3. Delivers(Append(f, n + 1), n + 1, cpc = "pop", o)
    <3>1. PICK held \in BOOLEAN : held = (cpc = "pop")
      OBVIOUS
    <3>2. Delivers(f, n, held, o)
      BY <1>4, <3>1
    <3>3. Delivers(Append(f, n + 1), n + 1, held, o)
      BY Zenon, <1>2, <2>1, <3>2, PutDelivers
    <3> QED
      BY <3>1, <3>3
  <2> QED
    BY <2>2, <2>3 DEF DeliveredInv
<1>6. CASE Fifo!Take
  <2>1. /\ Contents(q)' = f /\ nextItem' - 1 = n /\ out' = Append(o, Head(f)) /\ f # <<>>
        /\ (cpc = "pop") = FALSE /\ (cpc = "pop")' = TRUE
    BY <1>1, <1>6 DEF Fifo!Take
  <2>2. Delivers(f, n, FALSE, o)
    BY <1>4, <2>1
  <2>3. Delivers(f, n, TRUE, Append(o, Head(f)))
    BY <1>2, <2>1, <2>2, TakeDelivers
  <2> QED
    BY <2>1, <2>3 DEF DeliveredInv
<1>7. CASE Fifo!Release
  <2>1. /\ Contents(q)' = Tail(f) /\ nextItem' - 1 = n /\ out' = o
        /\ (cpc = "pop") = TRUE /\ (cpc = "pop")' = FALSE
    BY <1>1, <1>7 DEF Fifo!Release
  <2>2. Delivers(f, n, TRUE, o)
    BY <1>4, <2>1
  <2>3. Delivers(Tail(f), n, FALSE, o)
    BY <1>2, <2>2, ReleaseDelivers
  <2> QED
    BY <2>1, <2>3 DEF DeliveredInv
<1>8. CASE UNCHANGED Fifo!vars
  <2>1. /\ Contents(q)' = f /\ nextItem' - 1 = n /\ out' = o
        /\ (cpc = "pop")' = (cpc = "pop")
    BY <1>1, <1>8 DEF Fifo!vars
  <2> QED
    BY <1>4, <2>1 DEF DeliveredInv
<1> QED
  BY <1>3, <1>5, <1>6, <1>7, <1>8 DEF Fifo!Next

\* What has come out are the first items in their order; and if neither thread can go on,
\* the producer because it sleeps or is done, the consumer because it is given NULL, it is
\* all of them.
NothingLost ==
    /\ out = [i \in 1 .. Len(out) |-> i]
    /\ ppc \in {"asleep", "done"} /\ cpc = "read" /\ GetReadBlock(q) = NullPtr =>
          out = [i \in Items |-> i]

\* No item is lost, doubled or out of order in the circular queue, whatever its size; and
\* the two threads never both stop before the last item has come out.
THEOREM NothingIsLost == Spec => []NothingLost
<1>1. Init => DeliveredInv /\ EndInv
  <2> SUFFICES ASSUME Init
               PROVE  DeliveredInv /\ EndInv
    OBVIOUS
  <2>1. Fifo!Init
    BY InitIInv, InitRefines
  <2>2. Contents(q) = <<>> /\ nextItem = 1 /\ (cpc = "pop") = FALSE /\ out = <<>>
    BY <2>1 DEF Fifo!Init
  <2>3. PICK e : e = <<>>
    OBVIOUS
  <2>4. e \in Seq(Nat) /\ Len(e) = 0
    BY Zenon, <2>3, EmptySeq
  <2>5. Delivers(e, 0, FALSE, e)
    <3>1. PICK z : z = Len(e) /\ z = 0
      BY Zenon, <2>4
    <3>2. /\ z <= 0 /\ z = 0 - z + (IF FALSE THEN 1 ELSE 0)
          /\ \A i \in 1 .. z : FALSE
      BY <3>1
    <3> QED
      BY Zenon, <2>4, <3>1, <3>2 DEF Delivers
  <2>6. nextItem - 1 = 0
    BY <2>2
  <2>7. Contents(q) = e /\ out = e
    BY Zenon, <2>2, <2>3
  <2>8. DeliveredInv
    BY Zenon, <2>2, <2>5, <2>6, <2>7 DEF DeliveredInv
  <2> QED
    BY <2>8 DEF EndInv, Init
<1>2. IInv /\ EndInv /\ [Next]_vars => EndInv'
  BY DEF IInv, ItemLeft, EndInv, Next, Producer, Consumer, ReserveSlot, FillSlot, PushSlot,
         SpuriousWakeup, ReadSlot, CopySlot, PopSlot, NotifyProducer, vars
<1>3. IInv /\ DeliveredInv /\ EndInv => NothingLost
  <2> SUFFICES ASSUME IInv, DeliveredInv, EndInv
               PROVE  NothingLost
    OBVIOUS
  <2>1. /\ NumSlots \in Nat \ {0} /\ NumItems \in Nat \ {0}
        /\ WellFormed(q, NumSlots, Values) /\ nextItem \in Nat
        /\ Contents(q) \in Seq(Values) /\ Len(Contents(q)) = q.numTaken /\ q.numTaken \in Nat
    <3>1. NumSlots \in Nat \ {0} /\ NumItems \in Nat \ {0} /\ WellFormed(q, NumSlots, Values)
      BY CircularDequeueAssumption DEF IInv, TypeOK, Values
    <3>2. nextItem \in Nat
      BY <3>1 DEF IInv, TypeOK
    <3>3. q.numTaken \in Nat
      BY <3>1 DEF WellFormed
    <3> QED
      BY <3>1, <3>2, <3>3, ContentsType
  <2>2. /\ out \in Seq(Nat) /\ \A i \in 1 .. Len(out) : out[i] = i
        /\ Len(out) = nextItem - 1 - Len(Contents(q)) + (IF cpc = "pop" THEN 1 ELSE 0)
    BY DEF DeliveredInv, Delivers
  <2>3. out = [i \in 1 .. Len(out) |-> i]
    <3>1. out = [i \in 1 .. Len(out) |-> out[i]]
      BY <2>2, SequenceIsFunction
    <3> QED
      BY <2>2, <3>1
  <2>4. ASSUME ppc \in {"asleep", "done"}, cpc = "read", GetReadBlock(q) = NullPtr
        PROVE  out = [i \in Items |-> i]
    <3>1. q.numTaken = 0
      BY <2>1, <2>4 DEF GetReadBlock, WellFormed, NullPtr
    <3>2. ppc = "done"
      BY <2>1, <2>4, <3>1 DEF IInv, NoLostWakeup, HasRoom, WellFormed
    <3>3. Len(out) = NumItems
      BY <2>1, <2>2, <2>4, <3>1, <3>2 DEF EndInv
    <3> QED
      BY <2>3, <3>3 DEF Items
  <2> QED
    BY <2>3, <2>4 DEF NothingLost
<1> QED
  BY <1>1, <1>2, <1>3, DeliveredStep, Invariance, PTL DEF Spec
=============================================================================
