----------------------------- MODULE SpscQueue -----------------------------
(***************************************************************************)
(* The lock-free ring every pair of threads talks through                  *)
(* (market_server/common/include/spsc_queue.hpp).  head and tail are the   *)
(* two shared atomics, buffer the slots; each side keeps a copy of both    *)
(* counters in its handle and reloads the other side's only when its copy  *)
(* says the ring is full (producer) or empty (consumer).  A step is one    *)
(* access to shared memory, so the two threads interleave between the      *)
(* write of a slot and the store that publishes it, and between the read   *)
(* of a slot and the store that frees it.                                  *)
(*                                                                         *)
(* The counters are size_t and are never wrapped in a run of the program   *)
(* (2^64 pushes), so they are naturals here.                               *)
(***************************************************************************)
EXTENDS Integers

CONSTANTS
    Items,      \* what the ring carries
    Size,       \* its capacity, a power of two in the code
    NoItem,     \* an unwritten slot or variable
    MaxPushes   \* bound: how many pushes the producer completes

ASSUME SizeAssumption == Size \in Nat \ {0}
ASSUME ItemsAssumption == NoItem \notin Items
ASSUME MaxPushesAssumption == MaxPushes \in Nat

VARIABLES
    head, tail, buffer,
    pPc, pOp, pItem, pLocalHead, pLocalTail,  \* SpscQueueProducer
    cPc, cOp, cItem, cLocalHead, cLocalTail,  \* SpscQueueConsumer
    pushed, popped                            \* what the last calls returned

shared == <<head, tail, buffer>>
pVars == <<pPc, pOp, pItem, pLocalHead, pLocalTail, pushed>>
cVars == <<cPc, cOp, cItem, cLocalHead, cLocalTail, popped>>
vars == <<shared, pVars, cVars>>

PushOps == {"TryPush", "Push", "TimedPush"}
PopOps == {"TryPop", "Pop", "TimedPop"}

\* counter & (Size - 1)
Slot(counter) == counter % Size

Init ==
    /\ head = 0 /\ tail = 0
    /\ buffer = [i \in 0..Size - 1 |-> NoItem]
    /\ pPc = "idle" /\ pOp = "none" /\ pItem = NoItem
    /\ pLocalHead = 0 /\ pLocalTail = 0
    /\ cPc = "idle" /\ cOp = "none" /\ cItem = NoItem
    /\ cLocalHead = 0 /\ cLocalTail = 0
    /\ pushed = <<"none", TRUE>> /\ popped = <<"none", NoItem>>

-----------------------------------------------------------------------------
(* The producer thread *)

\* Mutant: one slot too many.
SeemsFullLate(localHead) == pLocalTail - localHead > Size

\* The test of the cached head on entry; it touches no shared memory.
SeemsFull(localHead) == pLocalTail - localHead >= Size

StartPush(op, item) ==
    /\ pPc = "idle" /\ tail < MaxPushes
    /\ pOp' = op /\ pItem' = item
    /\ pPc' = IF SeemsFull(pLocalHead) THEN "full" ELSE "write"
    /\ UNCHANGED <<shared, cVars, pLocalHead, pLocalTail, pushed>>

\* Mutants: the copy is reloaded after the test; the copy is never reloaded.
LoadHeadAfterTest ==
    /\ pPc = "full"
    /\ pLocalHead' = head
    /\ IF ~SeemsFull(pLocalHead) THEN pPc' = "write" /\ UNCHANGED pushed
       ELSE IF pOp = "TryPush" THEN pPc' = "idle" /\ pushed' = <<pOp, FALSE>>
       ELSE UNCHANGED <<pPc, pushed>>
    /\ UNCHANGED <<shared, cVars, pOp, pItem, pLocalTail>>
LoadHeadNever ==
    /\ pPc = "full"
    /\ IF pOp = "TryPush" THEN pPc' = "idle" /\ pushed' = <<pOp, FALSE>>
       ELSE UNCHANGED <<pPc, pushed>>
    /\ UNCHANGED <<shared, cVars, pOp, pItem, pLocalHead, pLocalTail>>

\* localHead = head.load(acquire); TryPush looks once, the others loop.
LoadHead ==
    /\ pPc = "full"
    /\ pLocalHead' = head
    /\ \/ /\ ~SeemsFull(head)
          /\ pPc' = "write" /\ UNCHANGED pushed
       \/ /\ SeemsFull(head) /\ pOp = "TryPush"
          /\ pPc' = "idle" /\ pushed' = <<pOp, FALSE>>
       \/ /\ SeemsFull(head) /\ pOp # "TryPush"
          /\ UNCHANGED <<pPc, pushed>>
    /\ UNCHANGED <<shared, cVars, pOp, pItem, pLocalTail>>

\* The deadline is tested before each load, so on a stale copy of head.
PushTimesOut ==
    /\ pPc = "full" /\ pOp = "TimedPush"
    /\ pPc' = "idle" /\ pushed' = <<pOp, FALSE>>
    /\ UNCHANGED <<shared, cVars, pOp, pItem, pLocalHead, pLocalTail>>

WriteSlot ==
    /\ pPc = "write"
    /\ buffer' = [buffer EXCEPT ![Slot(pLocalTail)] = pItem]
    /\ pPc' = "publish"
    /\ UNCHANGED <<head, tail, cVars, pOp, pItem, pLocalHead, pLocalTail, pushed>>

StoreTail ==
    /\ pPc = "publish"
    /\ pLocalTail' = pLocalTail + 1
    /\ tail' = pLocalTail + 1
    /\ pPc' = "idle" /\ pushed' = <<pOp, TRUE>>
    /\ UNCHANGED <<head, buffer, cVars, pOp, pItem, pLocalHead>>

-----------------------------------------------------------------------------
(* The consumer thread *)

StartPop(op) ==
    /\ cPc = "idle"
    /\ cOp' = op
    /\ cPc' = IF cLocalTail = cLocalHead THEN "empty" ELSE "read"
    /\ UNCHANGED <<shared, pVars, cItem, cLocalHead, cLocalTail, popped>>

\* Mutants: the copy of tail is one behind; it is never reloaded.
LoadTailBehind ==
    /\ cPc = "empty"
    /\ cLocalTail' = tail - 1
    /\ IF cLocalTail' # cLocalHead THEN cPc' = "read" /\ UNCHANGED popped
       ELSE cPc' = "idle" /\ popped' = <<cOp, NoItem>>
    /\ UNCHANGED <<shared, pVars, cOp, cItem, cLocalHead>>
LoadTailNever ==
    /\ cPc = "empty"
    /\ IF cOp = "TryPop" THEN cPc' = "idle" /\ popped' = <<cOp, NoItem>>
       ELSE UNCHANGED <<cPc, popped>>
    /\ UNCHANGED <<shared, pVars, cOp, cItem, cLocalHead, cLocalTail>>

LoadTail ==
    /\ cPc = "empty"
    /\ cLocalTail' = tail
    /\ \/ /\ tail # cLocalHead
          /\ cPc' = "read" /\ UNCHANGED popped
       \/ /\ tail = cLocalHead /\ cOp = "TryPop"
          /\ cPc' = "idle" /\ popped' = <<cOp, NoItem>>
       \/ /\ tail = cLocalHead /\ cOp # "TryPop"
          /\ UNCHANGED <<cPc, popped>>
    /\ UNCHANGED <<shared, pVars, cOp, cItem, cLocalHead>>

PopTimesOut ==
    /\ cPc = "empty" /\ cOp = "TimedPop"
    /\ cPc' = "idle" /\ popped' = <<cOp, NoItem>>
    /\ UNCHANGED <<shared, pVars, cOp, cItem, cLocalHead, cLocalTail>>

ReadSlot ==
    /\ cPc = "read"
    /\ cItem' = buffer[Slot(cLocalHead)]
    /\ cPc' = "release"
    /\ UNCHANGED <<shared, pVars, cOp, cLocalHead, cLocalTail, popped>>

StoreHead ==
    /\ cPc = "release"
    /\ cLocalHead' = cLocalHead + 1
    /\ head' = cLocalHead + 1
    /\ cPc' = "idle" /\ popped' = <<cOp, cItem>>
    /\ UNCHANGED <<tail, buffer, pVars, cOp, cItem, cLocalTail>>

-----------------------------------------------------------------------------
ProducerStep == LoadHead \/ PushTimesOut \/ WriteSlot \/ StoreTail
ConsumerStep ==
    (\E op \in PopOps : StartPop(op)) \/ LoadTail \/ PopTimesOut \/ ReadSlot \/ StoreHead

Next ==
    \/ \E op \in PushOps, item \in Items : StartPush(op, item)
    \/ ProducerStep
    \/ ConsumerStep

Spec == Init /\ [][Next]_vars

\* Each thread is pinned to a core of its own and spins: a call that has begun
\* goes on, and the consumer's service loop always calls again.  A TimedPop is
\* not forever past its deadline before its first load (strong fairness).
FairSpec ==
    /\ Spec
    /\ WF_vars(ProducerStep) /\ WF_vars(ConsumerStep)
    /\ SF_vars(LoadTail)

-----------------------------------------------------------------------------
(* Properties *)

\* Every variable holds a value of its C++ type.
TypeOK ==
    /\ head \in Nat /\ tail \in Nat
    /\ buffer \in [0..Size - 1 -> Items \cup {NoItem}]
    /\ pPc \in {"idle", "full", "write", "publish"}
    /\ pOp \in PushOps \cup {"none"}
    /\ pItem \in Items \cup {NoItem}
    /\ pLocalHead \in Nat /\ pLocalTail \in Nat
    /\ cPc \in {"idle", "empty", "read", "release"}
    /\ cOp \in PopOps \cup {"none"}
    /\ cItem \in Items \cup {NoItem}
    /\ cLocalHead \in Nat /\ cLocalTail \in Nat

\* The producer never writes the slot the consumer is reading or has read but
\* not yet freed: the two plain accesses to buffer never race.
NoSlotRace ==
    pPc \in {"write", "publish"} /\ cPc \in {"read", "release"}
        => Slot(pLocalTail) # Slot(cLocalHead)

\* The items published and not yet freed, oldest first.
Published == [i \in 1..tail - head |-> buffer[Slot(head + i - 1)]]

Fifo == INSTANCE BoundedFifo WITH q <- Published

\* The ring is a bounded FIFO: every push that returns true appends, every pop
\* removes the oldest item, nothing is lost, repeated, reordered or overwritten,
\* and TryPush / TryPop fail only on a full / an empty ring although each tests
\* a cached counter first.
ImplementsFifo == Fifo!Spec

\* A blocking Push that found the ring full completes, and every published
\* item is eventually popped (the consumer's loop is never starved by the copy
\* of tail it caches).
PushCompletes == pPc = "full" /\ pOp = "Push" ~> pPc = "idle"
PublishedIsPopped == \A n \in 1..MaxPushes : tail >= n ~> head >= n
=============================================================================
