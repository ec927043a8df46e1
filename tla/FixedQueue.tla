----------------------------- MODULE FixedQueue -----------------------------
(***************************************************************************)
(* The circular queue of fixed_queue.c, as pure operators on its struct.   *)
(* The passes that keep a work list (register allocation, liveness, dead   *)
(* code elimination, the pressure scheduler) share it.                     *)
(*                                                                         *)
(* The struct has one slot more than max_elems, so that a full queue and   *)
(* an empty one differ, and no operation looks whether the queue is full:  *)
(* one push too many makes front_index meet back_index and every element   *)
(* is lost.  Staying within max_elems is the caller's obligation.          *)
(***************************************************************************)
EXTENDS Naturals, Sequences

\* Slips: no spare slot; an index that wraps one slot late.
CreateWithoutSpare(max_elems, null) ==
    [ size |-> max_elems, elems |-> [i \in 0..max_elems |-> null],
      front_index |-> 0, back_index |-> 0 ]
WrapLate(queue, index) == IF index = queue.size THEN 0 ELSE index + 1

\* ret.elems comes from calloc: every slot starts as `null'.
fixed_queue_create(max_elems, null) ==
    [ size        |-> max_elems + 1,
      elems       |-> [i \in 0..max_elems |-> null],
      front_index |-> 0,
      back_index  |-> 0 ]

fixed_queue_is_empty(queue) == queue.front_index = queue.back_index

\* index++, and back to 0 at the end of the array.
NextIndex(queue, index) == IF index + 1 = queue.size THEN 0 ELSE index + 1

fixed_queue_push(queue, elem) ==
    [queue EXCEPT !.elems = [@ EXCEPT ![queue.front_index] = elem],
                  !.front_index = NextIndex(queue, queue.front_index)]

\* fixed_queue_pop returns this element ...
fixed_queue_head(queue) == queue.elems[queue.back_index]

\* ... and leaves the queue like this.
fixed_queue_pop(queue) ==
    [queue EXCEPT !.back_index = NextIndex(queue, queue.back_index)]
-----------------------------------------------------------------------------
(* What a client may read off the two indices.                             *)

\* Number of pushes that have not been popped, as long as the caller keeps
\* its obligation.
fixed_queue_count(queue) ==
    IF queue.front_index >= queue.back_index
    THEN queue.front_index - queue.back_index
    ELSE queue.front_index + queue.size - queue.back_index

\* The slot that holds the k-th oldest element.
Slot(queue, k) ==
    LET s == queue.back_index + (k - 1)
    IN  IF s >= queue.size THEN s - queue.size ELSE s

\* The elements from the oldest to the youngest.
Contents(queue) ==
    [k \in 1..fixed_queue_count(queue) |-> queue.elems[Slot(queue, k)]]
=============================================================================
