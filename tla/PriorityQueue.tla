---------------------------- MODULE PriorityQueue ----------------------------
(***************************************************************************)
(* The binary heap of priority_queue.c.  The two loops that restore the    *)
(* order of the heap take one step per comparison; the buffer behind       *)
(* elems is modelled by the number of elements it has room for.            *)
(***************************************************************************)
EXTENDS Integers

CONSTANTS Elems, Key, NULL

QueueAssumption == Key \in [Elems -> Int] /\ NULL \notin Elems

VARIABLES elems,      \* the heap: slots 0, 1, ...
          num_elems,
          room,       \* slots allocated
          pc,         \* "idle", or the loop that runs: "up", "down"
          cur_elem,
          moving,     \* the element being pushed
          ret         \* what pull returns or returned last

vars == <<elems, num_elems, room, pc, cur_elem, moving, ret>>

\* The callbacks of the schedulers answer TRUE for equal priorities.
compare_gt(a, b) == Key[a] >= Key[b]

\* n & (n - 1) is 0: no multiple of an odd number but 1 (so 0 counts as well).
is_power_of_two(n) == \A k, q \in 1..n : n # (2 * k + 1) * q

\* Slip: the buffer grows by one element only.
RoomForOne(n) == IF n = 0 THEN 1 ELSE IF is_power_of_two(n) THEN n + 1 ELSE room

\* The buffer priority_queue_push has when it stores behind n elements.
RoomToPush(n) == IF n = 0 THEN 1 ELSE IF is_power_of_two(n) THEN 2 * n ELSE room

\* The buffer priority_queue_pull leaves for the n elements that are left.
RoomAfterPull(n) == IF is_power_of_two(n) THEN n ELSE room

Parent(i) == (i - 1) \div 2

Swap(i, j) == [elems EXCEPT ![i] = elems[j], ![j] = elems[i]]

Init ==
  /\ elems = <<>> /\ num_elems = 0 /\ room = 0
  /\ pc = "idle" /\ cur_elem = 0 /\ moving = NULL /\ ret = NULL

\* The element is stored; the loop that follows moves it up.
Push(e) ==
  /\ pc = "idle"
  /\ e \notin {elems[i] : i \in 0..(num_elems - 1)}
  /\ room' = RoomToPush(num_elems)
  /\ elems' = [i \in 0..num_elems |-> IF i = num_elems THEN e ELSE elems[i]]
  /\ cur_elem' = num_elems /\ moving' = e /\ pc' = "up"
  /\ UNCHANGED <<num_elems, ret>>

Rises == cur_elem # 0 /\ compare_gt(elems[cur_elem], elems[Parent(cur_elem)])

SiftUp ==
  /\ pc = "up" /\ Rises
  /\ elems' = Swap(Parent(cur_elem), cur_elem)
  /\ cur_elem' = Parent(cur_elem)
  /\ UNCHANGED <<num_elems, room, pc, moving, ret>>

PushDone ==
  /\ pc = "up" /\ ~Rises
  /\ num_elems' = num_elems + 1
  /\ pc' = "idle" /\ moving' = NULL /\ cur_elem' = 0
  /\ UNCHANGED <<elems, room, ret>>

PullEmpty ==
  /\ pc = "idle" /\ num_elems = 0
  /\ ret' = NULL
  /\ UNCHANGED <<elems, num_elems, room, pc, cur_elem, moving>>

PullLast ==
  /\ pc = "idle" /\ num_elems = 1
  /\ ret' = elems[0]
  /\ elems' = <<>> /\ room' = 0 /\ num_elems' = 0
  /\ UNCHANGED <<pc, cur_elem, moving>>

\* The last element takes the place of the first; the loop moves it down.
PullFirst ==
  /\ pc = "idle" /\ num_elems > 1
  /\ ret' = elems[0]
  /\ elems' = [elems EXCEPT ![0] = elems[num_elems - 1]]
  /\ cur_elem' = 0 /\ pc' = "down"
  /\ UNCHANGED <<num_elems, room, moving>>

\* Slip: the right child is compared with the parent and not with the left one.
GreaterOfParent ==
  LET right == 2 * cur_elem + 2  left == 2 * cur_elem + 1 IN
  IF right < num_elems - 1 /\ compare_gt(elems[right], elems[cur_elem]) THEN right
  ELSE IF left < num_elems - 1 /\ compare_gt(elems[left], elems[cur_elem]) THEN left
  ELSE cur_elem

\* The greatest of an element and its children, which the code calls smallest.
\* The last slot is no child any more: its element is the one that moves.
Smallest ==
  LET left  == 2 * cur_elem + 1
      right == 2 * cur_elem + 2
      first == IF left < num_elems - 1 /\ compare_gt(elems[left], elems[cur_elem])
                 THEN left ELSE cur_elem
  IN  IF right < num_elems - 1 /\ compare_gt(elems[right], elems[first])
        THEN right ELSE first

SiftDown ==
  /\ pc = "down" /\ Smallest # cur_elem
  /\ elems' = Swap(Smallest, cur_elem)
  /\ cur_elem' = Smallest
  /\ UNCHANGED <<num_elems, room, pc, moving, ret>>

PullDone ==
  /\ pc = "down" /\ Smallest = cur_elem
  /\ num_elems' = num_elems - 1
  /\ elems' = [i \in 0..(num_elems - 2) |-> elems[i]]
  /\ room' = RoomAfterPull(num_elems - 1)
  /\ pc' = "idle" /\ cur_elem' = 0
  /\ UNCHANGED <<moving, ret>>

Next ==
  \/ \E e \in Elems : Push(e)
  \/ SiftUp \/ PushDone
  \/ PullEmpty \/ PullLast \/ PullFirst \/ SiftDown \/ PullDone

Spec == Init /\ [][Next]_vars

----------------------------------------------------------------------------
\* The slots that are in use while the queue is in this state.
Used == 0..(IF pc = "up" THEN num_elems ELSE num_elems - 1)

\* Those that belong to the heap: not the last one while its element moves down.
InHeap == Used \ (IF pc = "down" THEN {num_elems - 1} ELSE {})

(* The types; and no slot is used that was not allocated, although the     *)
(* buffer is only resized when the number of elements is a power of two.   *)
TypeOK ==
  /\ num_elems \in Nat /\ room \in Nat
  /\ pc \in {"idle", "up", "down"}
  /\ elems \in [Used -> Elems]
  /\ cur_elem \in Nat
  /\ pc # "idle" => cur_elem \in InHeap
  /\ moving \in Elems \cup {NULL} /\ ret \in Elems \cup {NULL}
  /\ \A i \in Used : i < room

\* The edge of the heap the loop looks at next.
Loose(i) == (pc = "up" /\ i = cur_elem) \/ (pc = "down" /\ Parent(i) = cur_elem)

(* No element is smaller than one below it, except across the edges that   *)
(* the running loop has still to compare.                                  *)
Ordered == \A i \in InHeap \ {0} : Loose(i) \/ compare_gt(elems[Parent(i)], elems[i])

(* The element that moves is nowhere else, and the queue is the set of its *)
(* slots: a pushed element belongs to it when the push is over, a pulled   *)
(* one until the pull is.                                                  *)
HeldElems ==
  {elems[i] : i \in Used} \ (IF pc = "up" THEN {moving} ELSE {})

Sets == INSTANCE PullSet WITH held <- HeldElems, pulled <- ret

(* pull returns an element of the highest priority there is, once.         *)
ImplementsQueue == Sets!Spec
=============================================================================
