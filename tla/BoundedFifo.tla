---------------------------- MODULE BoundedFifo ----------------------------
(***************************************************************************)
(* What a single-producer single-consumer ring promises its two threads: a *)
(* bounded first-in first-out queue.  q holds the published items, pushed  *)
(* and popped the outcome of the last completed call of each thread: which *)
(* call it was and whether it succeeded, and for the consumer what it got. *)
(* SpscQueue implements this specification.                                *)
(***************************************************************************)
EXTENDS Integers, Sequences

CONSTANTS Items, Size, NoItem

VARIABLES q, pushed, popped

vars == <<q, pushed, popped>>

PushOps == {"TryPush", "Push", "TimedPush"}
PopOps == {"TryPop", "Pop", "TimedPop"}

Init ==
    /\ q = <<>>
    /\ pushed = <<"none", TRUE>>
    /\ popped = <<"none", NoItem>>

Enqueue(op, item) ==
    /\ Len(q) < Size
    /\ q' = Append(q, item)
    /\ pushed' = <<op, TRUE>>
    /\ UNCHANGED popped

\* TryPush may return false only when the ring holds Size items.
RefusePush ==
    /\ Len(q) = Size
    /\ pushed' = <<"TryPush", FALSE>>
    /\ UNCHANGED <<q, popped>>

\* A TimedPush gives up at its deadline, whatever the ring holds by then.
GiveUpPush ==
    /\ pushed' = <<"TimedPush", FALSE>>
    /\ UNCHANGED <<q, popped>>

Dequeue(op) ==
    /\ q # <<>>
    /\ q' = Tail(q)
    /\ popped' = <<op, Head(q)>>
    /\ UNCHANGED pushed

\* TryPop may return false only when the ring is empty.
RefusePop ==
    /\ q = <<>>
    /\ popped' = <<"TryPop", NoItem>>
    /\ UNCHANGED <<q, pushed>>

GiveUpPop ==
    /\ popped' = <<"TimedPop", NoItem>>
    /\ UNCHANGED <<q, pushed>>

Next ==
    \/ \E op \in PushOps, item \in Items : Enqueue(op, item)
    \/ RefusePush
    \/ GiveUpPush
    \/ \E op \in PopOps : Dequeue(op)
    \/ RefusePop
    \/ GiveUpPop

Spec == Init /\ [][Next]_vars
=============================================================================
