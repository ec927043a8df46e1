----------------------------- MODULE Containers -----------------------------
(***************************************************************************)
(* One of each container of the compiler: the ring of fixed_queue.c with   *)
(* its client, the heap of priority_queue.c and the hash set of ptrset.c.  *)
(* ContainersProof proves what each promises, for every set of elements,   *)
(* priorities, addresses and sizes.                                        *)
(***************************************************************************)
EXTENDS FixedQueueClient

CONSTANTS Items, Key, Nothing,          \* of the heap
          Pointers, Hash, NoPtr, EMPTY, DELETED,
          InitialNumElems, MaxNumElems, MaxUnion    \* of the hash set

VARIABLES heap, num_elems, room, moved, cur_elem, moving, pulled,
          set, new, next_slot, to_add, adding, cur, ret

heap_vars == <<heap, num_elems, room, moved, cur_elem, moving, pulled>>
set_vars == <<set, new, next_slot, to_add, adding, cur, ret>>

Heap == INSTANCE PriorityQueue
    WITH Elems <- Items, NULL <- Nothing, elems <- heap, ret <- pulled, pc <- moved

Table == INSTANCE PtrSet
    WITH Ptrs <- Pointers, None <- NoPtr, i <- next_slot, todo <- to_add, pc <- adding
-----------------------------------------------------------------------------
(* The heap is a heap, except for the edges the running loop has still to  *)
(* compare, and never uses a slot that was not allocated, although its     *)
(* buffer is only resized when the number of elements is a power of two    *)
(* (priority_queue_push, priority_queue_pull).                             *)
HeapFits == Heap!TypeOK /\ Heap!Ordered

(* pull returns an element of the highest priority there is, once.         *)
ImplementsQueue == Heap!ImplementsQueue

(* Every loop over the slots of a chain ends: there is always an empty     *)
(* slot, in the table and in the larger one it is moved to, however many   *)
(* elements were removed before (ptrset_expand).                           *)
ProbesEnd == Table!ProbesEnd

(* The table is a set with an iterator that removals do not disturb        *)
(* (ptrset_iter_next).                                                     *)
ImplementsSet == Table!ImplementsSet
=============================================================================
