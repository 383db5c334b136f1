----------------------------- MODULE RingFifo -----------------------------
(***************************************************************************)
(* What the shared ring buffer promises to the two protection domains on   *)
(* either end of it: a first-in first-out queue of buffer descriptors that *)
(* holds at most Capacity of them, refuses an element only when it is full *)
(* and reports nothing only when it is empty.  SharedRing implements this. *)
(***************************************************************************)
EXTENDS Integers, Sequences

CONSTANTS Capacity,     \* descriptors the ring can hold at once
          Value,        \* what a producer may put in a descriptor
          None          \* "nothing returned": dequeue gave -1

VARIABLES queue,        \* the descriptors enqueued and not yet dequeued
          enqRet,       \* what the producer's last enqueue returned
          deqRet        \* the descriptor the consumer's last dequeue returned

vars == <<queue, enqRet, deqRet>>

\* A descriptor as its producer meant it: the three fields belong together.
Desc(v) == [encoded_addr |-> v, len |-> v, cookie |-> v]

Init == queue = <<>> /\ enqRet = 0 /\ deqRet = Desc(None)

\* Faulty variant: a full queue is not noticed.
EnqueueUnchecked(v) ==
    /\ queue' = Append(queue, Desc(v))
    /\ enqRet' = 0
    /\ UNCHANGED deqRet

Enqueue(v) ==
    /\ Len(queue) < Capacity
    /\ queue' = Append(queue, Desc(v))
    /\ enqRet' = 0
    /\ UNCHANGED deqRet

EnqueueFull ==
    /\ Len(queue) = Capacity
    /\ enqRet' = -1
    /\ UNCHANGED <<queue, deqRet>>

Dequeue ==
    /\ queue # <<>>
    /\ queue' = Tail(queue)
    /\ deqRet' = Head(queue)
    /\ UNCHANGED enqRet

DequeueEmpty ==
    /\ queue = <<>>
    /\ deqRet' = Desc(None)
    /\ UNCHANGED <<queue, enqRet>>

Next ==
    \/ \E v \in Value : Enqueue(v)
    \/ EnqueueFull
    \/ Dequeue
    \/ DequeueEmpty

Spec == Init /\ [][Next]_vars
===========================================================================
