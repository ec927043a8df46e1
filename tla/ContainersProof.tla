--------------------------- MODULE ContainersProof ---------------------------
(***************************************************************************)
(* The ring buffer of fixed_queue.c implements a bounded first-in          *)
(* first-out queue, for every number of slots and every set of elements;   *)
(* and what PriorityQueueProof and PtrSetProof prove of every heap and     *)
(* every hash set, for those of Containers: the properties the runs check. *)
(***************************************************************************)
EXTENDS Containers, TLAPS

(* A stepped index stays inside the array (fixed_queue.c: it wraps).       *)
LEMMA NextIndexType ==
  ASSUME NEW q \in QueueType, NEW i \in 0..MaxElems
  PROVE  NextIndex(q, i) \in 0..MaxElems
BY MaxElemsAssumption DEF QueueType, NextIndex

(* What a push does to each field of the struct (fixed_queue_push).        *)
LEMMA PushEffect ==
  ASSUME NEW q \in QueueType, NEW e \in Elem
  PROVE  LET r == fixed_queue_push(q, e)
         IN  /\ r \in QueueType
             /\ r.size = q.size
             /\ r.elems = [q.elems EXCEPT ![q.front_index] = e]
             /\ r.front_index = NextIndex(q, q.front_index)
             /\ r.back_index = q.back_index
<1>1. NextIndex(q, q.front_index) \in 0..MaxElems
  BY NextIndexType DEF QueueType
<1>2. [q.elems EXCEPT ![q.front_index] = e] \in [0..MaxElems -> Elem \cup {Null}]
  BY DEF QueueType
<1> QED BY <1>1, <1>2 DEF QueueType, fixed_queue_push

(* And a pop (fixed_queue_pop).                                            *)
LEMMA PopEffect ==
  ASSUME NEW q \in QueueType
  PROVE  LET r == fixed_queue_pop(q)
         IN  /\ r \in QueueType
             /\ r.size = q.size
             /\ r.elems = q.elems
             /\ r.front_index = q.front_index
             /\ r.back_index = NextIndex(q, q.back_index)
<1>1. NextIndex(q, q.back_index) \in 0..MaxElems
  BY NextIndexType DEF QueueType
<1> QED BY <1>1 DEF QueueType, fixed_queue_pop

(* The two indices and the array keep their types (fixed_queue.c: every    *)
(* index step wraps before it leaves the array).                           *)
THEOREM QueueTyping == Spec => []TypeOK
<1>1. Init => TypeOK
  BY MaxElemsAssumption DEF Init, TypeOK, QueueType, fixed_queue_create
<1>2. TypeOK /\ [Next]_queue => TypeOK'
  <2> SUFFICES ASSUME TypeOK, [Next]_queue PROVE TypeOK'
    OBVIOUS
  <2>1. CASE Pop
    BY <2>1, PopEffect DEF TypeOK, Pop
  <2>2. ASSUME NEW e \in Elem, Push(e) PROVE TypeOK'
    BY <2>2, PushEffect DEF TypeOK, Push
  <2>3. CASE UNCHANGED queue
    BY <2>3 DEF TypeOK
  <2> QED BY <2>1, <2>2, <2>3 DEF Next
<1> QED BY <1>1, <1>2, PTL DEF Spec

(* The contents are a sequence whose length is the element count           *)
(* (fixed_queue.c: the distance between the two indices).                  *)
LEMMA ContentsType ==
  ASSUME NEW q \in QueueType
  PROVE  /\ fixed_queue_count(q) \in 0..MaxElems
         /\ \A k \in 1..fixed_queue_count(q) : Slot(q, k) \in 0..MaxElems
         /\ Contents(q) \in Seq(Elem \cup {Null})
         /\ Len(Contents(q)) = fixed_queue_count(q)
<1> USE MaxElemsAssumption
<1>1. fixed_queue_count(q) \in 0..MaxElems
  BY DEF QueueType, fixed_queue_count
<1>2. \A k \in 1..fixed_queue_count(q) : Slot(q, k) \in 0..MaxElems
  BY DEF QueueType, fixed_queue_count, Slot
<1>3. \A k \in 1..fixed_queue_count(q) :
          q.elems[Slot(q, k)] \in Elem \cup {Null}
  BY <1>2 DEF QueueType
<1>4. Contents(q) \in [1..fixed_queue_count(q) -> Elem \cup {Null}]
  BY <1>3 DEF Contents
<1> QED BY <1>1, <1>2, <1>4

(* Two ways a sequence is determined by its elements.                      *)
LEMMA AppendByElements ==
  ASSUME NEW S, NEW c \in Seq(S), NEW d \in Seq(S), NEW e \in S,
         Len(d) = Len(c) + 1,
         \A k \in 1..Len(c) : d[k] = c[k],
         d[Len(c) + 1] = e
  PROVE  d = Append(c, e)
OBVIOUS

LEMMA TailByElements ==
  ASSUME NEW S, NEW c \in Seq(S), NEW d \in Seq(S), c # <<>>,
         Len(d) = Len(c) - 1,
         \A k \in 1..(Len(c) - 1) : d[k] = c[k + 1]
  PROVE  d = Tail(c)
<1>1. Tail(c) \in Seq(S) /\ Len(Tail(c)) = Len(c) - 1
  OBVIOUS
<1>2. \A k \in 1..Len(d) : d[k] = Tail(c)[k]
  OBVIOUS
<1> QED BY <1>1, <1>2

(* A push appends to the contents (fixed_queue_push writes the front slot, *)
(* which holds no queued element while the client keeps its obligation).   *)
LEMMA PushAppends ==
  ASSUME NEW q \in QueueType, NEW e \in Elem, fixed_queue_count(q) < MaxElems
  PROVE  Contents(fixed_queue_push(q, e)) = Append(Contents(q), e)
<1> USE MaxElemsAssumption
<1> DEFINE r == fixed_queue_push(q, e)
           n == fixed_queue_count(q)
<1>1. /\ n \in 0..MaxElems /\ n < MaxElems
      /\ \A k \in 1..n : Slot(q, k) \in 0..MaxElems
      /\ Contents(q) \in Seq(Elem \cup {Null})
      /\ Len(Contents(q)) = n
  BY ContentsType
<1>2. /\ r \in QueueType
      /\ r.size = q.size
      /\ r.elems = [q.elems EXCEPT ![q.front_index] = e]
      /\ r.front_index = NextIndex(q, q.front_index)
      /\ r.back_index = q.back_index
  BY PushEffect
<1>3. fixed_queue_count(r) = n + 1
  <2> HIDE DEF r
  <2> QED BY SMTT(30), <1>1, <1>2 DEF QueueType, fixed_queue_count, NextIndex
<1>4. \A k \in 1..n : Slot(r, k) = Slot(q, k) /\ Slot(q, k) # q.front_index
  <2> HIDE DEF r
  <2> QED BY <1>1, <1>2 DEF QueueType, fixed_queue_count, Slot
<1>5. Slot(r, n + 1) = q.front_index
  <2> HIDE DEF r
  <2> QED BY <1>1, <1>2 DEF QueueType, fixed_queue_count, Slot
<1>6. \A k \in 1..(n + 1) : Contents(r)[k] = r.elems[Slot(r, k)]
  BY <1>3 DEF Contents
<1>7. \A k \in 1..n : Contents(q)[k] = q.elems[Slot(q, k)]
  BY DEF Contents
<1>8. /\ q.elems \in [0..MaxElems -> Elem \cup {Null}]
      /\ q.front_index \in 0..MaxElems
  BY DEF QueueType
<1>9. Contents(r) \in Seq(Elem \cup {Null}) /\ Len(Contents(r)) = n + 1
  BY <1>2, <1>3, ContentsType
<1>10. /\ \A k \in 1..n : Contents(r)[k] = Contents(q)[k]
       /\ Contents(r)[n + 1] = e
  <2> HIDE DEF r, n
  <2> QED BY <1>1, <1>2, <1>4, <1>5, <1>6, <1>7, <1>8
<1> HIDE DEF r, n
<1> QED BY <1>1, <1>9, <1>10, AppendByElements DEF r

(* A pop takes the head of the contents away (fixed_queue_pop).            *)
LEMMA PopTakesHead ==
  ASSUME NEW q \in QueueType, ~ fixed_queue_is_empty(q)
  PROVE  /\ Contents(q) # <<>>
         /\ Contents(fixed_queue_pop(q)) = Tail(Contents(q))
<1> USE MaxElemsAssumption
<1> DEFINE r == fixed_queue_pop(q)
           n == fixed_queue_count(q)
<1>1. /\ n \in 0..MaxElems
      /\ \A k \in 1..n : Slot(q, k) \in 0..MaxElems
      /\ Contents(q) \in Seq(Elem \cup {Null})
      /\ Len(Contents(q)) = n
  BY ContentsType
<1>2. n # 0
  BY DEF QueueType, fixed_queue_is_empty, fixed_queue_count
<1>3. /\ r \in QueueType
      /\ r.size = q.size
      /\ r.elems = q.elems
      /\ r.front_index = q.front_index
      /\ r.back_index = NextIndex(q, q.back_index)
  BY PopEffect
<1>4. fixed_queue_count(r) = n - 1
  <2> HIDE DEF r
  <2> QED BY SMTT(30), <1>2, <1>3 DEF QueueType, fixed_queue_is_empty,
                            fixed_queue_count, NextIndex
<1>5. \A k \in 1..(n - 1) : Slot(r, k) = Slot(q, k + 1)
  <2> HIDE DEF r
  <2> QED BY SMTT(30), <1>1, <1>2, <1>3 DEF QueueType, fixed_queue_count, NextIndex, Slot
<1>6. \A k \in 1..(n - 1) : Contents(r)[k] = r.elems[Slot(r, k)]
  BY <1>4 DEF Contents
<1>7. \A k \in 1..n : Contents(q)[k] = q.elems[Slot(q, k)]
  BY DEF Contents
<1>8. Contents(r) \in Seq(Elem \cup {Null}) /\ Len(Contents(r)) = n - 1
  BY <1>3, <1>4, ContentsType
<1>9. \A k \in 1..(n - 1) : Contents(r)[k] = Contents(q)[k + 1]
  <2> HIDE DEF r, n
  <2> TAKE k \in 1..(n - 1)
  <2>1. k + 1 \in 1..n
    BY <1>1
  <2>2. Contents(q)[k + 1] = q.elems[Slot(q, k + 1)]
    BY <1>7, <2>1
  <2> QED BY <1>3, <1>5, <1>6, <2>2
<1>10. Contents(q) # <<>>
  BY <1>1, <1>2
<1> HIDE DEF r, n
<1> QED BY <1>1, <1>8, <1>9, <1>10, TailByElements DEF r

(* The refinement itself: an empty ring is an empty queue, and every step  *)
(* of a client of fixed_queue.c is a step of the bounded queue.            *)
THEOREM RingImplementsFifo == Spec => ImplementsFifo
<1>1. Init => Fifo!Init
  BY DEF Init, Fifo!Init, fixed_queue_create, Contents, fixed_queue_count
<1>2. TypeOK /\ [Next]_queue => [Fifo!Next]_(Contents(queue))
  <2> SUFFICES ASSUME TypeOK, [Next]_queue
               PROVE  [Fifo!Next]_(Contents(queue))
    OBVIOUS
  <2>1. CASE Pop
    BY <2>1, PopTakesHead DEF TypeOK, Pop, Fifo!Next, Fifo!Pop
  <2>2. ASSUME NEW e \in Elem, Push(e) PROVE Fifo!Next
    <3>1. Contents(queue)' = Append(Contents(queue), e)
      BY <2>2, PushAppends DEF TypeOK, Push
    <3>2. Len(Contents(queue)) < MaxElems
      BY <2>2, ContentsType DEF TypeOK, Push
    <3> QED BY <3>1, <3>2 DEF Fifo!Next, Fifo!Push
  <2>3. CASE UNCHANGED queue
    BY <2>3 DEF Contents, fixed_queue_count, Slot
  <2> QED BY <2>1, <2>2, <2>3 DEF Next
<1> QED BY <1>1, <1>2, QueueTyping, PTL DEF Spec, ImplementsFifo, Fifo!Spec
-----------------------------------------------------------------------------

HeapProof == INSTANCE PriorityQueueProof
    WITH Elems <- Items, NULL <- Nothing, elems <- heap, ret <- pulled, pc <- moved

TableProof == INSTANCE PtrSetProof
    WITH Ptrs <- Pointers, None <- NoPtr, i <- next_slot, todo <- to_add, pc <- adding
-----------------------------------------------------------------------------
(* The heap of HeapProof is the heap: definition by definition.            *)

LEMMA SameHeapSteps ==
  /\ Heap!Init <=> HeapProof!Init
  /\ \A e \in Items : Heap!Push(e) <=> HeapProof!Push(e)
  /\ Heap!SiftUp <=> HeapProof!SiftUp
  /\ Heap!PushDone <=> HeapProof!PushDone
  /\ Heap!PullEmpty <=> HeapProof!PullEmpty
  /\ Heap!PullLast <=> HeapProof!PullLast
  /\ Heap!PullFirst <=> HeapProof!PullFirst
  /\ Heap!SiftDown <=> HeapProof!SiftDown
  /\ Heap!PullDone <=> HeapProof!PullDone
<1>1. Heap!Init <=> HeapProof!Init
  BY DEF Heap!Init, HeapProof!Init
<1>2. \A e \in Items : Heap!Push(e) <=> HeapProof!Push(e)
  BY DEF Heap!Push, HeapProof!Push, Heap!RoomToPush, HeapProof!RoomToPush,
         Heap!is_power_of_two, HeapProof!is_power_of_two
<1>3. Heap!SiftUp <=> HeapProof!SiftUp
  BY DEF Heap!SiftUp, HeapProof!SiftUp, Heap!Rises, HeapProof!Rises, Heap!Swap,
         HeapProof!Swap, Heap!Parent, HeapProof!Parent, Heap!compare_gt,
         HeapProof!compare_gt
<1>4. Heap!PushDone <=> HeapProof!PushDone
  BY DEF Heap!PushDone, HeapProof!PushDone, Heap!Rises, HeapProof!Rises,
         Heap!Swap, HeapProof!Swap, Heap!Parent, HeapProof!Parent,
         Heap!compare_gt, HeapProof!compare_gt
<1>5. Heap!PullEmpty <=> HeapProof!PullEmpty
  BY DEF Heap!PullEmpty, HeapProof!PullEmpty
<1>6. Heap!PullLast <=> HeapProof!PullLast
  BY DEF Heap!PullLast, HeapProof!PullLast
<1>7. Heap!PullFirst <=> HeapProof!PullFirst
  BY DEF Heap!PullFirst, HeapProof!PullFirst
<1>8. Heap!SiftDown <=> HeapProof!SiftDown
  BY DEF Heap!SiftDown, HeapProof!SiftDown, Heap!Smallest, HeapProof!Smallest,
         Heap!Swap, HeapProof!Swap, Heap!compare_gt, HeapProof!compare_gt
<1>9. Heap!PullDone <=> HeapProof!PullDone
  BY DEF Heap!PullDone, HeapProof!PullDone, Heap!Smallest, HeapProof!Smallest,
         Heap!RoomAfterPull, HeapProof!RoomAfterPull, Heap!is_power_of_two,
         HeapProof!is_power_of_two, Heap!compare_gt, HeapProof!compare_gt
<1> QED  BY <1>1, <1>2, <1>3, <1>4, <1>5, <1>6, <1>7, <1>8, <1>9

LEMMA SameTableSteps ==
  /\ Table!Init <=> TableProof!Init
  /\ \A S : Table!Call(S) <=> TableProof!Call(S)
  /\ Table!Expand <=> TableProof!Expand
  /\ Table!Move <=> TableProof!Move
  /\ Table!Expanded <=> TableProof!Expanded
  /\ \A p : Table!Insert(p) <=> TableProof!Insert(p)
  /\ \A p : Table!PtrRemove(p) <=> TableProof!PtrRemove(p)
  /\ \A p : Table!PtrContains(p) <=> TableProof!PtrContains(p)
  /\ Table!PtrFirst <=> TableProof!PtrFirst
  /\ Table!PtrEmpty <=> TableProof!PtrEmpty
  /\ Table!IterCreate <=> TableProof!IterCreate
  /\ Table!IterNext <=> TableProof!IterNext
<1>1. Table!Init <=> TableProof!Init
  BY DEF Table!Init, TableProof!Init, Table!EmptyElems, TableProof!EmptyElems,
         Table!NoTable, TableProof!NoTable
<1>2. \A S : Table!Call(S) <=> TableProof!Call(S)
  BY DEF Table!Call, TableProof!Call, Table!Idle, TableProof!Idle,
         Table!Pending, TableProof!Pending, Table!Bounded, TableProof!Bounded,
         Table!Cardinality, TableProof!Cardinality
<1>3. Table!Expand <=> TableProof!Expand
  BY DEF Table!Expand, TableProof!Expand, Table!Overloaded,
         TableProof!Overloaded, Table!EmptyElems, TableProof!EmptyElems
<1>4. Table!Move <=> TableProof!Move
  BY DEF Table!Move, TableProof!Move, Table!Live, TableProof!Live,
         Table!elems_add, TableProof!elems_add, Table!ProbeEnd,
         TableProof!ProbeEnd, Table!Slots, TableProof!Slots, Table!Slot,
         TableProof!Slot, Table!get_hash, TableProof!get_hash, Table!Min,
         TableProof!Min
<1>5. Table!Expanded <=> TableProof!Expanded
  BY DEF Table!Expanded, TableProof!Expanded, Table!EmptyElems,
         TableProof!EmptyElems, Table!NoTable, TableProof!NoTable
<1>6. \A p : Table!Insert(p) <=> TableProof!Insert(p)
  BY DEF Table!Insert, TableProof!Insert, Table!Overloaded,
         TableProof!Overloaded, Table!Inserted, TableProof!Inserted,
         Table!InsertPoint, TableProof!InsertPoint, Table!AddFound,
         TableProof!AddFound, Table!Found, TableProof!Found, Table!Seen,
         TableProof!Seen, Table!ProbeEnd, TableProof!ProbeEnd, Table!Slots,
         TableProof!Slots, Table!Slot, TableProof!Slot, Table!get_hash,
         TableProof!get_hash, Table!Min, TableProof!Min
<1>7. \A p : Table!PtrRemove(p) <=> TableProof!PtrRemove(p)
  BY DEF Table!PtrRemove, TableProof!PtrRemove, Table!Pending,
         TableProof!Pending, Table!ptrset_remove, TableProof!ptrset_remove,
         Table!Found, TableProof!Found, Table!Seen, TableProof!Seen,
         Table!ProbeEnd, TableProof!ProbeEnd, Table!Slots, TableProof!Slots,
         Table!Slot, TableProof!Slot, Table!get_hash, TableProof!get_hash,
         Table!Min, TableProof!Min
<1>8. \A p : Table!PtrContains(p) <=> TableProof!PtrContains(p)
  BY DEF Table!PtrContains, TableProof!PtrContains, Table!Found,
         TableProof!Found, Table!Seen, TableProof!Seen, Table!ProbeEnd,
         TableProof!ProbeEnd, Table!Slots, TableProof!Slots, Table!Slot,
         TableProof!Slot, Table!get_hash, TableProof!get_hash, Table!Min,
         TableProof!Min
<1>9. Table!PtrFirst <=> TableProof!PtrFirst
  BY DEF Table!PtrFirst, TableProof!PtrFirst, Table!NextLive,
         TableProof!NextLive, Table!Live, TableProof!Live, Table!Min,
         TableProof!Min
<1>10. Table!PtrEmpty <=> TableProof!PtrEmpty
  BY DEF Table!PtrEmpty, TableProof!PtrEmpty, Table!Idle, TableProof!Idle,
         Table!Pending, TableProof!Pending, Table!ptrset_empty,
         TableProof!ptrset_empty, Table!EmptyElems, TableProof!EmptyElems
<1>11. Table!IterCreate <=> TableProof!IterCreate
  BY DEF Table!IterCreate, TableProof!IterCreate, Table!NextLive,
         TableProof!NextLive, Table!Live, TableProof!Live, Table!Min,
         TableProof!Min
<1>12. Table!IterNext <=> TableProof!IterNext
  BY DEF Table!IterNext, TableProof!IterNext, Table!StepFrom,
         TableProof!StepFrom, Table!NextLive, TableProof!NextLive, Table!Live,
         TableProof!Live, Table!Min, TableProof!Min
<1> QED  BY <1>1, <1>2, <1>3, <1>4, <1>5, <1>6, <1>7, <1>8, <1>9, <1>10, <1>11, <1>12

\* The two start and step alike, so they are the same specification.
LEMMA SameHeap == Heap!Spec => HeapProof!Spec
<1>1. Heap!Init => HeapProof!Init  BY SameHeapSteps
<1>2. [Heap!Next]_(Heap!vars) => [HeapProof!Next]_(HeapProof!vars)
  BY SameHeapSteps DEF Heap!Next, HeapProof!Next, Heap!vars, HeapProof!vars
<1> QED  BY <1>1, <1>2, PTL DEF Heap!Spec, HeapProof!Spec

LEMMA SameTable == Table!Spec => TableProof!Spec
<1>1. Table!Init => TableProof!Init  BY SameTableSteps
<1>2. [Table!Next]_(Table!vars) => [TableProof!Next]_(TableProof!vars)
  BY SameTableSteps
  DEF Table!Next, TableProof!Next, Table!vars, TableProof!vars, Table!PtrAdd,
      TableProof!PtrAdd, Table!PtrUnion, TableProof!PtrUnion, Table!OtherSets,
      TableProof!OtherSets, Table!Cardinality, TableProof!Cardinality
<1> QED  BY <1>1, <1>2, PTL DEF Table!Spec, TableProof!Spec
-----------------------------------------------------------------------------
(* The heap is ordered where no loop is at work and stays within the slots *)
(* that were allocated, whatever is pushed and pulled                      *)
(* (priority_queue_push, priority_queue_pull).                             *)
THEOREM HeapStaysHeap ==
  ASSUME Heap!QueueAssumption
  PROVE  Heap!Spec => []HeapFits
<1>1. HeapProof!QueueAssumption  BY DEF Heap!QueueAssumption, HeapProof!QueueAssumption
<1>2. HeapProof!Spec => []HeapProof!IInv  BY <1>1, HeapProof!HeapInvariant
<1>3. HeapProof!IInv => HeapFits
  <2> SUFFICES ASSUME HeapProof!IInv  PROVE Heap!TypeOK /\ Heap!Ordered
    BY DEF HeapFits
  <2>1. Heap!TypeOK
    BY DEF HeapProof!IInv, Heap!TypeOK, HeapProof!TypeOK, Heap!Used, HeapProof!Used,
           Heap!InHeap, HeapProof!InHeap
  <2>2. Heap!Ordered
    BY DEF HeapProof!IInv, Heap!Ordered, HeapProof!Ordered, Heap!InHeap, HeapProof!InHeap,
           Heap!Used, HeapProof!Used, Heap!Loose, HeapProof!Loose, Heap!Parent,
           HeapProof!Parent, Heap!compare_gt, HeapProof!compare_gt
  <2> QED  BY <2>1, <2>2
<1> QED  BY <1>2, <1>3, SameHeap, PTL

(* pull hands out an element of the highest priority in the queue, once,   *)
(* and NULL exactly if there is none (priority_queue_pull).                *)
THEOREM PullIsGreatest ==
  ASSUME Heap!QueueAssumption
  PROVE  Heap!Spec => ImplementsQueue
<1>1. HeapProof!QueueAssumption  BY DEF Heap!QueueAssumption, HeapProof!QueueAssumption
<1>2. HeapProof!Spec => HeapProof!ImplementsQueue  BY <1>1, HeapProof!HeapImplementsQueue
<1>3. HeapProof!Sets!Init => Heap!Sets!Init
  BY DEF Heap!Sets!Init, HeapProof!Sets!Init, Heap!HeldElems, HeapProof!HeldElems, Heap!Used,
         HeapProof!Used
<1>4. [HeapProof!Sets!Next]_<<HeapProof!HeldElems, pulled>>
        => [Heap!Sets!Next]_<<Heap!HeldElems, pulled>>
  BY DEF Heap!Sets!Next, HeapProof!Sets!Next, Heap!Sets!Push, HeapProof!Sets!Push,
         Heap!Sets!Pull, HeapProof!Sets!Pull, Heap!HeldElems, HeapProof!HeldElems, Heap!Used,
         HeapProof!Used
<1> QED
  BY <1>2, <1>3, <1>4, SameHeap, PTL
  DEF ImplementsQueue, Heap!ImplementsQueue, HeapProof!ImplementsQueue, Heap!Sets!Spec,
      HeapProof!Sets!Spec

(* Every search of the table and of the one it is moved to meets an empty  *)
(* slot, so every probing loop ends (ptrset.c).                            *)
THEOREM EverySearchEnds ==
  ASSUME Table!PtrSetAssumption
  PROVE  Table!Spec => []ProbesEnd
<1>1. TableProof!PtrSetAssumption  BY DEF Table!PtrSetAssumption, TableProof!PtrSetAssumption
<1>2. TableProof!Spec => []TableProof!ProbesEnd  BY <1>1, TableProof!SearchesEnd
<1>3. TableProof!ProbesEnd => ProbesEnd
  BY DEF ProbesEnd, Table!ProbesEnd, TableProof!ProbesEnd, Table!Ends, TableProof!Ends,
         Table!Slots, TableProof!Slots
<1> QED  BY <1>2, <1>3, SameTable, PTL

LEMMA SameMembers ==
  /\ Table!Members(set) = TableProof!Members(set) /\ Table!Pending = TableProof!Pending
  /\ Table!Members(set)' = TableProof!Members(set)' /\ Table!Pending' = TableProof!Pending'
BY DEF Table!Members, TableProof!Members, Table!Pending, TableProof!Pending, Table!Slots,
       TableProof!Slots

(* ptrset_t is a set; its iterator yields, once, every element that was in *)
(* it when the iterator was created, for a client that removes only what   *)
(* was yielded and adds only when the iteration is over (ptrset_iter_next).*)
THEOREM TableIsSet ==
  ASSUME Table!PtrSetAssumption
  PROVE  Table!Spec => ImplementsSet
<1>1. TableProof!PtrSetAssumption  BY DEF Table!PtrSetAssumption, TableProof!PtrSetAssumption
<1>2. TableProof!Spec => TableProof!ImplementsSet  BY <1>1, TableProof!TableImplementsSet
<1>3. TableProof!Abstract!Init => Table!Abstract!Init
  BY SameMembers DEF Table!Abstract!Init, TableProof!Abstract!Init
<1>4. [TableProof!Abstract!Next]_<<TableProof!Members(set) \cup to_add, TableProof!Pending, ret>>
        => [Table!Abstract!Next]_<<Table!Members(set) \cup to_add, Table!Pending, ret>>
  BY SameMembers
  DEF Table!Abstract!Next, TableProof!Abstract!Next, Table!Abstract!Idle, TableProof!Abstract!Idle,
      Table!Abstract!Add, TableProof!Abstract!Add, Table!Abstract!Union,
      TableProof!Abstract!Union, Table!Abstract!Empty, TableProof!Abstract!Empty,
      Table!Abstract!Remove, TableProof!Abstract!Remove, Table!Abstract!Contains,
      TableProof!Abstract!Contains, Table!Abstract!First, TableProof!Abstract!First,
      Table!Abstract!IterCreate, TableProof!Abstract!IterCreate, Table!Abstract!IterNext,
      TableProof!Abstract!IterNext
<1> QED
  BY <1>2, <1>3, <1>4, SameTable, PTL
  DEF ImplementsSet, Table!ImplementsSet, TableProof!ImplementsSet, Table!Abstract!Spec,
      TableProof!Abstract!Spec
=============================================================================
