-------------------------- MODULE FixedQueueClient --------------------------
(***************************************************************************)
(* A pass that keeps its work list in a fixed_queue_t and never pushes     *)
(* more elements than it asked room for.  For such a client the ring of    *)
(* FixedQueue implements the bounded first-in first-out queue of           *)
(* BoundedFifo; ContainersProof proves it for every size and element set.  *)
(***************************************************************************)
EXTENDS FixedQueue

CONSTANTS Elem,         \* what the client queues
          MaxElems,     \* the max_elems it passes to fixed_queue_create
          Null          \* content of a slot that was never written

ASSUME MaxElemsAssumption == MaxElems \in Nat \ {0}

VARIABLE queue          \* the fixed_queue_t

Init == queue = fixed_queue_create(MaxElems, Null)

\* The caller's obligation, which the code never checks.
Push(e) ==
    /\ fixed_queue_count(queue) < MaxElems
    /\ queue' = fixed_queue_push(queue, e)

\* Every caller asks fixed_queue_is_empty before it pops.
Pop ==
    /\ ~ fixed_queue_is_empty(queue)
    /\ queue' = fixed_queue_pop(queue)

Next == Pop \/ \E e \in Elem : Push(e)

Spec == Init /\ [][Next]_queue
-----------------------------------------------------------------------------
(* The indices stay inside the array the queue allocated, and a slot holds *)
(* an element or was never written (fixed_queue.c, the struct).            *)
QueueType == [ size        : {MaxElems + 1},
               elems       : [0..MaxElems -> Elem \cup {Null}],
               front_index : 0..MaxElems,
               back_index  : 0..MaxElems ]

TypeOK == queue \in QueueType

\* The queue's contents in order of arrival.
Fifo == INSTANCE BoundedFifo WITH fifo <- Contents(queue)

(* The ring is a first-in first-out queue: across every wrap of the two    *)
(* indices a pop hands out the oldest element that has not been popped,    *)
(* and nothing is lost, repeated or invented (push and pop).               *)
ImplementsFifo == Fifo!Spec
=============================================================================
