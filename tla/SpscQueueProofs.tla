-------------------------- MODULE SpscQueueProofs --------------------------
(***************************************************************************)
(* The ring is race free and implements a bounded FIFO, for every capacity *)
(* and every set of items.                                                 *)
(***************************************************************************)
EXTENDS SpscQueue, Sequences, SequenceTheorems, TLAPS

(***************************************************************************)
(* The inductive invariant.  The cached counters are never ahead of the    *)
(* shared ones, and each pc that follows a successful test remembers what  *)
(* the test established, which the other thread cannot undo: it only moves *)
(* its own counter forward.                                                *)
(***************************************************************************)
Counters ==
    /\ pLocalTail = tail /\ cLocalHead = head
    /\ pLocalHead <= head /\ head <= cLocalTail
    /\ cLocalTail <= tail /\ tail <= pLocalHead + Size

InCall ==
    /\ pPc # "idle" => pOp \in PushOps /\ pItem \in Items
    /\ pPc \in {"write", "publish"} => tail - pLocalHead < Size
    /\ pPc = "publish" => buffer[Slot(tail)] = pItem
    /\ cPc # "idle" => cOp \in PopOps
    /\ cPc \in {"read", "release"} => head < cLocalTail
    /\ cPc = "release" => cItem = buffer[Slot(head)]

PublishedItems == \A k \in head..tail - 1 : buffer[Slot(k)] \in Items

IInv == TypeOK /\ Counters /\ InCall /\ PublishedItems

-----------------------------------------------------------------------------
(* Slots *)

\* A counter's slot is an index of the array.
LEMMA SlotType == \A k \in Nat : Slot(k) \in 0..Size - 1
  BY SizeAssumption DEF Slot

\* Two counters less than Size apart never share a slot.
LEMMA SlotsDiffer ==
  \A j, k \in Nat : j < k /\ k < j + Size => Slot(j) # Slot(k)
  <1> SUFFICES ASSUME NEW j \in Nat, NEW k \in Nat, j < k, k < j + Size
               PROVE  Slot(j) # Slot(k)
    OBVIOUS
  <1> DEFINE dj == j \div Size
             dk == k \div Size
  <1>1. /\ dj \in Int /\ dk \in Int
        /\ j = Size * dj + Slot(j) /\ k = Size * dk + Slot(k)
    BY SizeAssumption DEF Slot
  <1>2. Slot(j) \in 0..Size - 1 /\ Slot(k) \in 0..Size - 1
    BY SlotType
  <1>3. SUFFICES ASSUME Slot(j) = Slot(k) PROVE FALSE
    OBVIOUS
  <1> HIDE DEF dj, dk
  <1>4. k - j = Size * (dk - dj)
    BY <1>1, <1>2, <1>3, SizeAssumption
  <1>5. CASE dk - dj <= 0
    <2>1. Size * (dk - dj) <= 0
      BY <1>1, <1>5, SizeAssumption
    <2> QED  BY <1>1, <1>4, <2>1
  <1>6. CASE dk - dj >= 1
    <2>1. Size * (dk - dj) >= Size
      BY <1>1, <1>6, SizeAssumption
    <2> QED  BY <1>1, <1>4, <2>1, SizeAssumption
  <1> QED  BY <1>1, <1>5, <1>6

-----------------------------------------------------------------------------
(* The invariant is inductive *)

\* The empty queue of the constructor satisfies the invariant.
THEOREM InitIInv == Init => IInv
  BY SizeAssumption DEF Init, IInv, TypeOK, Counters, InCall, PublishedItems, PushOps, PopOps

\* Every step of the producer and of the consumer keeps the invariant.
THEOREM NextIInv == IInv /\ [Next]_vars => IInv'
  <1> SUFFICES ASSUME IInv, [Next]_vars PROVE IInv'
    OBVIOUS
  <1> USE SizeAssumption, ItemsAssumption, SlotType
      DEF IInv, TypeOK, Counters, InCall, PublishedItems, PushOps, PopOps
  <1>1. ASSUME NEW op \in PushOps, NEW item \in Items, StartPush(op, item)
        PROVE  IInv'
    BY <1>1, SMTT(30) DEF StartPush, SeemsFull, shared, cVars
  <1>2. CASE LoadHead
    <2> USE <1>2 DEF LoadHead, SeemsFull, shared, cVars
    <2>1. TypeOK'
      BY Zenon
    <2>2. Counters'
      OBVIOUS
    <2>3. InCall'
      <3>1. SeemsFull(head) <=> ~(tail - head < Size)
        OBVIOUS
      <3>3. pPc' \in {"write", "publish"} => ~SeemsFull(head)
        BY Zenon
      <3>2. pPc' # "publish"
        BY Zenon
      <3> QED  BY <3>1, <3>2, <3>3
    <2>4. PublishedItems'
      OBVIOUS
    <2> QED  BY <2>1, <2>2, <2>3, <2>4
  <1>3. CASE PushTimesOut
    BY <1>3 DEF PushTimesOut, shared, cVars
  <1>4. CASE WriteSlot
    <2>1. \A k \in head..tail - 1 : buffer'[Slot(k)] = buffer[Slot(k)]
      BY <1>4, SlotsDiffer, SMTT(30) DEF WriteSlot
    <2>2. buffer'[Slot(tail)] = pItem
      BY <1>4 DEF WriteSlot
    <2>3. buffer' \in [0..Size - 1 -> Items \cup {NoItem}]
      BY <1>4 DEF WriteSlot
    <2>4. cPc = "release" => cItem = buffer'[Slot(head)]
      BY <2>1, SMTT(30)
    <2> QED  BY <1>4, <2>1, <2>2, <2>3, <2>4, ZenonT(30) DEF WriteSlot, cVars
  <1>5. CASE StoreTail
    <2> USE <1>5 DEF StoreTail, cVars
    <2>1. TypeOK'
      OBVIOUS
    <2>2. Counters'
      OBVIOUS
    <2>3. InCall'
      OBVIOUS
    <2>4. PublishedItems'
      <3>1. buffer[Slot(tail)] \in Items
        BY SMTT(30)
      <3>2. \A k \in head..tail : k = tail \/ k \in head..tail - 1
        OBVIOUS
      <3>3. \A k \in head..tail : buffer[Slot(k)] \in Items
        BY <3>1, <3>2, Zenon
      <3>4. tail' - 1 = tail /\ head' = head /\ buffer' = buffer
        OBVIOUS
      <3> QED  BY <3>3, <3>4, Zenon
    <2> QED  BY <2>1, <2>2, <2>3, <2>4
  <1>6. ASSUME NEW op \in PopOps, StartPop(op)
        PROVE  IInv'
    BY <1>6 DEF StartPop, shared, pVars
  <1>7. CASE LoadTail
    <2> USE <1>7 DEF LoadTail, shared, pVars
    <2>1. TypeOK'
      OBVIOUS
    <2>2. Counters'
      OBVIOUS
    <2>3. InCall'
      <3>1. UNCHANGED <<head, tail, buffer, pPc, pOp, pItem, pLocalHead, cOp, cItem>>
        OBVIOUS
      <3>2. cPc' # "release"
        OBVIOUS
      <3>3. cPc' = "read" => head < cLocalTail'
        OBVIOUS
      <3>4. cOp \in PopOps
        OBVIOUS
      <3> HIDE <1>7 DEF LoadTail
      <3> QED  BY <3>1, <3>2, <3>3, <3>4
    <2>4. PublishedItems'
      OBVIOUS
    <2> QED  BY <2>1, <2>2, <2>3, <2>4
  <1>8. CASE PopTimesOut
    BY <1>8 DEF PopTimesOut, shared, pVars
  <1>9. CASE ReadSlot
    BY <1>9 DEF ReadSlot, shared, pVars
  <1>10. CASE StoreHead
    <2> USE <1>10 DEF StoreHead, pVars
    <2>1. TypeOK'
      OBVIOUS
    <2>2. Counters'
      OBVIOUS
    <2>3. InCall'
      OBVIOUS
    <2>4. PublishedItems'
      <3>1. \A k \in head'..tail - 1 : k \in head..tail - 1
        OBVIOUS
      <3>2. tail' = tail /\ buffer' = buffer
        OBVIOUS
      <3> QED  BY <3>1, <3>2, Zenon
    <2> QED  BY <2>1, <2>2, <2>3, <2>4
  <1>11. CASE UNCHANGED vars
    BY <1>11 DEF vars, shared, pVars, cVars
  <1> QED
    BY <1>1, <1>2, <1>3, <1>4, <1>5, <1>6, <1>7, <1>8, <1>9, <1>10, <1>11, Zenon
       DEF Next, ProducerStep, ConsumerStep

\* The invariant holds in every reachable state.
THEOREM Invariance == Spec => []IInv
  BY InitIInv, NextIInv, PTL DEF Spec

\* The variables keep their types.
THEOREM TypeCorrect == Spec => []TypeOK
  BY Invariance, PTL DEF IInv

\* The producer's write of a slot (spsc_queue.hpp:48) and the consumer's read
\* of one (spsc_queue.hpp:117) never touch the same slot at the same time.
THEOREM RaceFree == Spec => []NoSlotRace
  <1>1. ASSUME IInv, pPc \in {"write", "publish"}, cPc \in {"read", "release"}
        PROVE  Slot(pLocalTail) # Slot(cLocalHead)
    <2>1. head \in Nat /\ tail \in Nat /\ head < tail /\ tail < head + Size
      BY <1>1, SizeAssumption DEF IInv, TypeOK, Counters, InCall
    <2>2. Slot(head) # Slot(tail)
      BY <2>1, SlotsDiffer
    <2> QED  BY <1>1, <2>2 DEF IInv, Counters
  <1>2. IInv => NoSlotRace
    BY <1>1 DEF NoSlotRace
  <1> QED  BY <1>2, Invariance, PTL

-----------------------------------------------------------------------------
(* Refinement *)

\* The published items form a sequence of tail - head items.
LEMMA PublishedSeq ==
  ASSUME IInv
  PROVE  /\ Published \in Seq(Items)
         /\ Len(Published) = tail - head
         /\ \A i \in 1..tail - head : Published[i] = buffer[Slot(head + i - 1)]
  <1>1. tail - head \in Nat /\ head \in Nat /\ tail \in Nat
    BY DEF IInv, TypeOK, Counters
  <1>2. \A i \in 1..tail - head : buffer[Slot(head + i - 1)] \in Items
    <2> SUFFICES ASSUME NEW i \in 1..tail - head
                 PROVE  buffer[Slot(head + i - 1)] \in Items
      OBVIOUS
    <2>1. head + i - 1 \in head..tail - 1
      BY <1>1
    <2> QED  BY <2>1 DEF IInv, PublishedItems
  <1> QED  BY <1>1, <1>2 DEF Published

\* A step that moves neither counter and writes no published slot leaves the
\* abstract queue alone.
LEMMA PublishedUnchanged ==
  ASSUME IInv, head' = head, tail' = tail,
         \A k \in head..tail - 1 : buffer'[Slot(k)] = buffer[Slot(k)]
  PROVE  Published' = Published
  <1>1. head \in Nat /\ tail \in Nat
    BY DEF IInv, TypeOK
  <1>2. \A i \in 1..tail - head : head + i - 1 \in head..tail - 1
    BY <1>1
  <1> QED  BY <1>2 DEF Published

\* The release store of Tail appends the written item to the abstract queue.
LEMMA StoreTailEnqueues ==
  ASSUME IInv, StoreTail
  PROVE  Fifo!Enqueue(pOp, pItem)
  <1> USE DEF StoreTail
  <1>1. /\ head \in Nat /\ tail \in Nat /\ head <= tail /\ tail - head < Size
        /\ tail' = tail + 1 /\ head' = head /\ buffer' = buffer
        /\ pItem \in Items
    BY SizeAssumption DEF IInv, TypeOK, Counters, InCall
  <1>2. buffer[Slot(tail)] = pItem
    BY DEF IInv, InCall
  <1>3. Published' = Append(Published, pItem)
    <2> DEFINE n == tail - head
               longer == [i \in 1..n + 1 |-> buffer[Slot(head + i - 1)]]
    <2>1. Published' = longer
      BY <1>1 DEF Published
    <2>2. /\ Published \in Seq(Items) /\ Len(Published) = n /\ n \in Nat
          /\ \A i \in 1..n : Published[i] = buffer[Slot(head + i - 1)]
      BY <1>1, PublishedSeq
    <2>3. \A i \in 1..n : longer[i] = Published[i]
      BY <2>2
    <2>4. longer[n + 1] = pItem
      <3>1. head + (n + 1) - 1 = tail /\ n + 1 \in 1..n + 1
        BY <1>1
      <3> QED  BY <1>2, <3>1
    <2> HIDE DEF n
    <2>5. \A i \in 1..n + 1 : i \in 1..n \/ i = n + 1
      BY <2>2
    <2>6. \A i \in 1..n + 1 : longer[i] \in Items
      <3> HIDE DEF longer
      <3>1. \A i \in 1..n : Published[i] \in Items
        BY <2>2
      <3> QED  BY <1>1, <2>3, <2>4, <2>5, <3>1
    <2>7. longer \in Seq(Items) /\ Len(longer) = n + 1
      BY <2>2, <2>6
    <2> HIDE DEF longer
    <2>8. /\ Append(Published, pItem) \in Seq(Items)
          /\ Len(Append(Published, pItem)) = n + 1
          /\ \A i \in 1..n : Append(Published, pItem)[i] = Published[i]
          /\ Append(Published, pItem)[n + 1] = pItem
      BY <1>1, <2>2, AppendProperties
    <2>9. longer = Append(Published, pItem)
      BY <2>3, <2>4, <2>5, <2>7, <2>8, SeqEqual
    <2> QED  BY <2>1, <2>9
  <1>4. Len(Published) < Size
    BY <1>1, PublishedSeq, Zenon
  <1> QED  BY <1>3, <1>4 DEF Fifo!Enqueue, cVars

\* The release store of Head removes the item that was read.
LEMMA StoreHeadDequeues ==
  ASSUME IInv, StoreHead
  PROVE  Fifo!Dequeue(cOp)
  <1> USE DEF StoreHead
  <1>1. /\ head \in Nat /\ tail \in Nat /\ head < tail
        /\ head' = head + 1 /\ tail' = tail /\ buffer' = buffer
        /\ cItem = buffer[Slot(head)]
    BY SizeAssumption DEF IInv, TypeOK, Counters, InCall
  <1>2. /\ Published \in Seq(Items) /\ Len(Published) = tail - head
        /\ \A i \in 1..tail - head : Published[i] = buffer[Slot(head + i - 1)]
    BY PublishedSeq
  <1>3. Published # <<>>
    BY <1>1, <1>2
  <1>4. Head(Published) = cItem
    <2>1. head + 1 - 1 = head /\ 1 \in 1..tail - head
      BY <1>1
    <2> QED  BY <1>1, <1>2, <2>1
  <1>5. Published' = Tail(Published)
    <2> DEFINE n == tail - head - 1
               shorter == [i \in 1..n |-> buffer[Slot(head + i)]]
    <2>1. Published' = shorter
      <3>1. tail' - head' = n
        BY <1>1
      <3>2. \A i \in 1..n : head' + i - 1 = head + i
        BY <1>1
      <3> QED  BY <1>1, <3>1, <3>2 DEF Published
    <2>2. \A i \in 1..n : shorter[i] = Published[i + 1]
      <3> SUFFICES ASSUME NEW i \in 1..n
                   PROVE  shorter[i] = Published[i + 1]
        OBVIOUS
      <3>1. i + 1 \in 1..tail - head /\ head + (i + 1) - 1 = head + i
        BY <1>1
      <3> QED  BY <1>2, <3>1
    <2>3. \A i \in 1..n : i + 1 \in 1..Len(Published)
      BY <1>1, <1>2
    <2>4. n \in Nat /\ Len(Published) - 1 = n
      BY <1>1, <1>2
    <2> HIDE DEF n
    <2>5. \A i \in 1..n : shorter[i] \in Items
      BY <1>2, <2>2, <2>3
    <2>6. shorter \in Seq(Items) /\ Len(shorter) = n
      BY <2>4, <2>5
    <2> HIDE DEF shorter
    <2>7. /\ Tail(Published) \in Seq(Items) /\ Len(Tail(Published)) = n
          /\ \A i \in 1..n : Tail(Published)[i] = Published[i + 1]
      BY <1>2, <1>3, <2>4, HeadTailProperties
    <2>8. shorter = Tail(Published)
      BY <2>2, <2>6, <2>7, SeqEqual
    <2> QED  BY <2>1, <2>8
  <1> QED  BY <1>3, <1>4, <1>5 DEF Fifo!Dequeue, pVars

\* Every step of the ring is a step of the bounded FIFO or leaves it alone.
LEMMA StepRefines == IInv /\ [Next]_vars => [Fifo!Next]_Fifo!vars
  <1> SUFFICES ASSUME IInv, [Next]_vars PROVE [Fifo!Next]_Fifo!vars
    OBVIOUS
  <1> USE DEF Fifo!vars
  <1>1. ASSUME NEW op \in PushOps, NEW item \in Items, StartPush(op, item)
        PROVE  UNCHANGED Fifo!vars
    BY <1>1, PublishedUnchanged DEF StartPush, shared, cVars
  <1>2. CASE LoadHead
    <2>1. Published' = Published
      BY <1>2, PublishedUnchanged DEF LoadHead, shared
    <2>2. CASE SeemsFull(head) /\ pOp = "TryPush"
      <3>1. Len(Published) = Size
        BY <2>2, PublishedSeq, SizeAssumption
           DEF SeemsFull, IInv, TypeOK, Counters
      <3> QED  BY <1>2, <2>1, <2>2, <3>1, Zenon DEF LoadHead, cVars, Fifo!Next, Fifo!RefusePush
    <2> QED  BY <1>2, <2>1, <2>2, Zenon DEF LoadHead, cVars
  <1>3. CASE PushTimesOut
    <2>1. Published' = Published
      BY <1>3, PublishedUnchanged DEF PushTimesOut, shared
    <2> QED  BY <1>3, <2>1 DEF PushTimesOut, cVars, Fifo!Next, Fifo!GiveUpPush
  <1>4. CASE WriteSlot
    <2>1. /\ head \in Nat /\ tail \in Nat /\ tail < head + Size
          /\ pLocalTail = tail
      BY <1>4, SizeAssumption DEF WriteSlot, IInv, TypeOK, Counters, InCall
    <2>2. \A k \in head..tail - 1 :
             k \in Nat /\ k < tail /\ tail < k + Size
      BY <2>1, SizeAssumption
    <2>3. \A k \in head..tail - 1 : buffer'[Slot(k)] = buffer[Slot(k)]
      BY <1>4, <2>1, <2>2, SlotsDiffer, SlotType DEF WriteSlot, IInv, TypeOK
    <2> QED  BY <1>4, <2>3, PublishedUnchanged DEF WriteSlot, cVars
  <1>5. CASE StoreTail
    <2>1. pOp \in PushOps /\ pItem \in Items
      BY <1>5 DEF StoreTail, IInv, InCall
    <2> QED  BY <1>5, <2>1, StoreTailEnqueues DEF Fifo!Next, Fifo!PushOps, PushOps
  <1>6. ASSUME NEW op \in PopOps, StartPop(op)
        PROVE  UNCHANGED Fifo!vars
    BY <1>6, PublishedUnchanged DEF StartPop, shared, pVars
  <1>7. CASE LoadTail
    <2>1. Published' = Published
      BY <1>7, PublishedUnchanged DEF LoadTail, shared
    <2>2. CASE tail = cLocalHead /\ cOp = "TryPop"
      <3>1. Published = <<>>
        BY <2>2, PublishedSeq DEF IInv, TypeOK, Counters
      <3> QED  BY <1>7, <2>1, <2>2, <3>1 DEF LoadTail, pVars, Fifo!Next, Fifo!RefusePop
    <2> QED  BY <1>7, <2>1, <2>2 DEF LoadTail, pVars
  <1>8. CASE PopTimesOut
    <2>1. Published' = Published
      BY <1>8, PublishedUnchanged DEF PopTimesOut, shared
    <2> QED  BY <1>8, <2>1 DEF PopTimesOut, pVars, Fifo!Next, Fifo!GiveUpPop
  <1>9. CASE ReadSlot
    BY <1>9, PublishedUnchanged DEF ReadSlot, shared, pVars
  <1>10. CASE StoreHead
    <2>1. cOp \in PopOps
      BY <1>10 DEF StoreHead, IInv, InCall
    <2> QED  BY <1>10, <2>1, StoreHeadDequeues DEF Fifo!Next, Fifo!PopOps, PopOps
  <1>11. CASE UNCHANGED vars
    BY <1>11, PublishedUnchanged DEF vars, shared, pVars, cVars
  <1> QED
    BY <1>1, <1>2, <1>3, <1>4, <1>5, <1>6, <1>7, <1>8, <1>9, <1>10, <1>11
       DEF Next, ProducerStep, ConsumerStep

\* The ring implements the bounded FIFO: the initial states map to the empty
\* queue and every step of either thread is a step of the FIFO or a stutter.
THEOREM Refinement == Spec => ImplementsFifo
  <1>1. Init => Fifo!Init
    BY DEF Init, Fifo!Init, Published
  <1> QED  BY <1>1, StepRefines, Invariance, PTL DEF Spec, ImplementsFifo, Fifo!Spec
=============================================================================
