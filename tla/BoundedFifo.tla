----------------------------- MODULE BoundedFifo -----------------------------
(***************************************************************************)
(* What fixed_queue.h promises ("a circular queue with a fixed maximum     *)
(* size"): a first-in first-out queue of at most MaxElems elements.        *)
(***************************************************************************)
EXTENDS Naturals, Sequences

CONSTANTS Elem, MaxElems

VARIABLE fifo

Init == fifo = <<>>

Push(e) == Len(fifo) < MaxElems /\ fifo' = Append(fifo, e)

Pop == fifo # <<>> /\ fifo' = Tail(fifo)

Next == Pop \/ \E e \in Elem : Push(e)

Spec == Init /\ [][Next]_fifo
=============================================================================
