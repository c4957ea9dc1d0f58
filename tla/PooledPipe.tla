----------------------------- MODULE PooledPipe -----------------------------
(***************************************************************************)
(* How objects travel between two pinned threads: a StoragePool of         *)
(* preallocated objects (storage_pool.hpp), a data ring of pointers to     *)
(* them, and a Consumer base class that pops a batch, handles it and gives *)
(* every object back (consumer.hpp).  The two rings, Free and the data     *)
(* ring, are bounded FIFOs here: SpscQueue proves that is what they are.   *)
(* Each push, pop and handler call is a step, so the threads interleave    *)
(* between any two of them.                                                *)
(***************************************************************************)
EXTENDS Integers, Sequences, SequencesExt

CONSTANTS
    Objects,      \* Storage: the objects of the pool
    QueueSize,    \* capacity of the data ring
    BatchSize,    \* the Consumer's BatchSize; 0 is an unbatched consumer
    Modes,        \* which of TryConsume, Consume, ConsumeTimed the thread calls
    MaxMessages   \* bound: how many messages the producer publishes

ASSUME PipeAssumption ==
    /\ QueueSize \in Nat \ {0} /\ BatchSize \in Nat
    /\ Modes \subseteq {"TryConsume", "Consume", "ConsumeTimed"}

VARIABLES
    free,      \* the pool's ring of free objects
    local,     \* LocalReuseBuffer, a stack private to the producer
    content,   \* the message each object's memory holds
    hand,      \* the object the producer has acquired, as a sequence
    data,      \* the data ring
    sent,      \* how many messages were pushed
    dropped,   \* whether a push was refused and its message thrown away
    cPc, mode, \* where the consumer is, and which call it is in
    buffer,    \* the batch it is collecting, handling or releasing
    handled,   \* the messages handled so far
    terminated \* std::terminate was called

pVars == <<local, content, hand, sent, dropped>>
cVars == <<cPc, mode, buffer, handled, terminated>>
vars == <<free, data, pVars, cVars>>

PoolSize == Cardinality(Objects)
Capacity == IF BatchSize = 0 THEN 1 ELSE BatchSize

\* The constructor pushes every object into Free.
Init ==
    /\ free \in SetToSeqs(Objects)
    /\ local = <<>> /\ content = [o \in Objects |-> 0]
    /\ hand = <<>> /\ data = <<>> /\ sent = 0 /\ dropped = FALSE
    /\ cPc = "idle" /\ mode = "none" /\ buffer = <<>> /\ handled = <<>>
    /\ terminated = FALSE

-----------------------------------------------------------------------------
(* The producer thread *)

\* LocalReuse first, then the ring; nullptr when both are empty, and the caller
\* gives up (no step).  The caller then writes its message into the object.
Acquire ==
    /\ hand = <<>> /\ sent < MaxMessages
    /\ \/ /\ local # <<>>
          /\ hand' = <<Last(local)>> /\ local' = Front(local)
          /\ UNCHANGED free
       \/ /\ local = <<>> /\ free # <<>>
          /\ hand' = <<Head(free)>> /\ free' = Tail(free)
          /\ UNCHANGED local
    /\ content' = [content EXCEPT ![hand'[1]] = sent + 1]
    /\ UNCHANGED <<data, sent, dropped, cVars>>

\* Mutants: a refused object is forgotten; the ring refuses one object early.
PublishLeaks ==
    /\ hand # <<>>
    /\ hand' = <<>>
    /\ IF Len(data) < QueueSize THEN data' = data \o hand /\ sent' = sent + 1 /\ UNCHANGED dropped
       ELSE dropped' = TRUE /\ UNCHANGED <<data, sent>>
    /\ UNCHANGED <<free, content, local, cVars>>
PublishEarlyFull ==
    /\ hand # <<>>
    /\ hand' = <<>>
    /\ IF Len(data) < QueueSize - 1
         THEN data' = data \o hand /\ sent' = sent + 1 /\ UNCHANGED <<local, dropped>>
         ELSE local' = local \o hand /\ dropped' = TRUE /\ UNCHANGED <<data, sent>>
    /\ UNCHANGED <<free, content, cVars>>

\* TryPush into the data ring; a refused object goes back to LocalReuse and its
\* message is lost.
Publish ==
    /\ hand # <<>>
    /\ hand' = <<>>
    /\ \/ /\ Len(data) < QueueSize
          /\ data' = data \o hand /\ sent' = sent + 1
          /\ UNCHANGED <<local, dropped>>
       \/ /\ Len(data) = QueueSize
          /\ local' = local \o hand /\ dropped' = TRUE
          /\ UNCHANGED <<data, sent>>
    /\ UNCHANGED <<free, content, cVars>>

\* Mutant: the object is released into the ring and still used.
LocalReleaseKeepsHand ==
    /\ hand # <<>> /\ Len(free) < PoolSize
    /\ free' = free \o hand
    /\ UNCHANGED <<data, pVars, cVars>>

\* The object turned out not to be needed (a short read, a duplicate datagram).
LocalRelease ==
    /\ hand # <<>> /\ Len(local) < PoolSize
    /\ hand' = <<>> /\ local' = local \o hand
    /\ UNCHANGED <<free, data, content, sent, dropped, cVars>>

-----------------------------------------------------------------------------
(* The consumer thread *)

StartConsume(m) ==
    /\ cPc = "idle" /\ ~terminated
    /\ cPc' = "collect" /\ mode' = m
    /\ UNCHANGED <<free, data, pVars, buffer, handled, terminated>>

\* Mutants: the batch is not closed when full; an object is released when popped.
PopOneUnbounded ==
    /\ cPc = "collect" /\ data # <<>>
    /\ buffer' = Append(buffer, Head(data)) /\ data' = Tail(data)
    /\ cPc' = IF Len(buffer') > Capacity THEN "handle" ELSE "collect"
    /\ UNCHANGED <<free, pVars, mode, handled, terminated>>
PopOneReleases ==
    /\ cPc = "collect" /\ data # <<>>
    /\ buffer' = Append(buffer, Head(data)) /\ data' = Tail(data)
    /\ free' = Append(free, Head(data))
    /\ cPc' = IF Len(buffer') = Capacity THEN "handle" ELSE "collect"
    /\ UNCHANGED <<pVars, mode, handled, terminated>>

PopOne ==
    /\ cPc = "collect" /\ data # <<>>
    /\ buffer' = Append(buffer, Head(data)) /\ data' = Tail(data)
    /\ cPc' = IF Len(buffer') = Capacity THEN "handle" ELSE "collect"
    /\ UNCHANGED <<free, pVars, mode, handled, terminated>>

\* Mutant: a batch that is not full is thrown away.
StopCollectingDrops ==
    /\ cPc = "collect"
    /\ \/ mode = "TryConsume" /\ data = <<>>
       \/ mode = "ConsumeTimed"
    /\ cPc' = "idle" /\ buffer' = <<>>
    /\ UNCHANGED <<free, data, pVars, mode, handled, terminated>>

\* TryPop found the ring empty, or TimedPop gave up; only a batched
\* ConsumeTimed calls its handler with nothing in the batch.
StopCollecting ==
    /\ cPc = "collect"
    /\ \/ mode = "TryConsume" /\ data = <<>>
       \/ mode = "ConsumeTimed"
    /\ cPc' = IF buffer = <<>> /\ (mode = "TryConsume" \/ BatchSize = 0)
                THEN "idle" ELSE "handle"
    /\ UNCHANGED <<free, data, pVars, mode, buffer, handled, terminated>>

Handle ==
    /\ cPc = "handle"
    /\ handled' = handled \o [i \in 1..Len(buffer) |-> content[buffer[i]]]
    /\ cPc' = IF buffer = <<>> THEN "idle" ELSE "release"
    /\ UNCHANGED <<free, data, pVars, mode, buffer, terminated>>

\* Mutant: only the first object of a batch is released.
ReleaseFirst ==
    /\ cPc = "release"
    /\ free' = Append(free, Head(buffer))
    /\ buffer' = <<>> /\ cPc' = "idle"
    /\ UNCHANGED <<data, pVars, mode, handled, terminated>>

\* Mempool.Release of the next object of the batch; a refused one terminates.
Release ==
    /\ cPc = "release"
    /\ terminated' = (Len(free) = PoolSize)
    /\ free' = IF terminated' THEN free ELSE Append(free, Head(buffer))
    /\ buffer' = Tail(buffer)
    /\ cPc' = IF buffer' = <<>> \/ terminated' THEN "idle" ELSE "release"
    /\ UNCHANGED <<data, pVars, mode, handled>>

-----------------------------------------------------------------------------
Consumer == (\E m \in Modes : StartConsume(m)) \/ PopOne \/ StopCollecting \/ Handle \/ Release

Next == Acquire \/ Publish \/ LocalRelease \/ Consumer

\* The consumer thread spins on its own core; a timed pop is not forever past
\* its deadline before it looks at the ring.
Spec == Init /\ [][Next]_vars
FairSpec == Spec /\ WF_vars(Consumer) /\ SF_vars(PopOne)

-----------------------------------------------------------------------------
(* Properties *)

\* Everything has its type, and no container holds more than its capacity.
TypeOK ==
    /\ free \in Seq(Objects) /\ local \in Seq(Objects) /\ data \in Seq(Objects)
    /\ hand \in Seq(Objects) /\ Len(hand) <= 1 /\ Len(data) <= QueueSize
    /\ buffer \in Seq(Objects) /\ Len(buffer) <= Capacity
    /\ content \in [Objects -> 0..MaxMessages] /\ sent \in 0..MaxMessages
    /\ cPc \in {"idle", "collect", "handle", "release"}
    /\ mode \in Modes \cup {"none"}
    /\ terminated \in BOOLEAN /\ dropped \in BOOLEAN

\* Ownership: each object is in exactly one place (free, the producer's stack
\* or hand, the data ring, or the consumer's batch): never leaked by a batch,
\* a refused push or an early return, and never owned by both threads.
OwnedOnce ==
    LET everywhere == free \o local \o hand \o data \o buffer
    IN  Len(everywhere) = PoolSize /\ ToSet(everywhere) = Objects

\* The terminate of consumer.hpp ("Failed to release a mempool element") is
\* unreachable: the free ring always has room for an object that is not in it.
NeverTerminates == ~terminated

\* Every published message is handled once, in order and with the content the
\* producer wrote: an object is not reused before its message was handled.
HandledInOrder == handled = [i \in 1..Len(handled) |-> i]

\* Where the data ring is at least as large as the pool, as for the engine's
\* report and book-update rings, no push is ever refused and nothing dropped.
NothingDropped == QueueSize >= PoolSize => ~dropped

\* Every published message is eventually handled, and its object comes back.
EventuallyHandled == \A n \in 1..MaxMessages : sent >= n ~> Len(handled) >= n
ObjectsReturn == \A o \in Objects : o \in ToSet(data) ~> o \in ToSet(free)
=============================================================================
