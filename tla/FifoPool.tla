------------------------------- MODULE FifoPool -------------------------------
(***************************************************************************)
(* What shm_object_pool.h promises its callers: a bounded first-in         *)
(* first-out queue from which an object anywhere can be removed.           *)
(***************************************************************************)
EXTENDS Integers, SequencesExt

CONSTANTS NumObjects, Capacity
VARIABLE queue

\* init to an empty or to a full queue
Reset == queue' \in {<<>>, [i \in 1..(Capacity - 1) |-> i]}

Push == /\ Len(queue) < Capacity - 1
        /\ \E o \in (1..NumObjects) \ ToSet(queue) : queue' = Append(queue, o)

Pop == /\ queue # <<>>
       /\ queue' = Tail(queue)

RemoveOne == \E i \in DOMAIN queue : queue' = RemoveAt(queue, i)

Spec == queue = <<>> /\ [][Reset \/ Push \/ Pop \/ RemoveOne]_queue
=============================================================================
