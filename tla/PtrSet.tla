-------------------------------- MODULE PtrSet --------------------------------
(***************************************************************************)
(* The hash set of ptrset.c: open addressing, linear probing, and removed  *)
(* elements that stay in the table as DELETED_ELEM until it is expanded.   *)
(* The loops that add elements, to this set (a union) or to a new table,   *)
(* take one step per element; the probing loops are operators.             *)
(* It implements PointerSet for clients that, while they iterate, remove   *)
(* nothing the iterator has still to yield and add nothing (an add may     *)
(* free the table the iterator holds).                                     *)
(***************************************************************************)
EXTENDS Integers, FiniteSets, FiniteSetsExt

CONSTANTS Ptrs,        \* the pointers clients add
          None, EMPTY, DELETED,
          Hash,        \* pointer -> its address without the low four bits
          InitialNumElems,   \* INITIAL_NUM_ELEMS (16)
          MaxNumElems,       \* bound: the size at which a client adds no more
          MaxUnion           \* bound: the size of the sets added as a whole

PtrSetAssumption ==
  /\ Hash \in [Ptrs -> Nat]
  /\ InitialNumElems \in Nat /\ InitialNumElems >= 4
  /\ None \notin Ptrs /\ EMPTY \notin Ptrs /\ DELETED \notin Ptrs /\ EMPTY # DELETED

VARIABLES set,    \* elems, num_elems, size and total_size
          new,    \* the table ptrset_expand fills: elems and num_elems
          i,      \* the slot of the old table it moves next
          todo,   \* what the call has still to add
          pc,     \* "idle", or where the call is: "add", "expand", "insert"
          cur,    \* cur_elem of the iterator, or -1 when there is none
          ret     \* the last call and what it answers

vars == <<set, new, i, todo, pc, cur, ret>>

Slots(t) == 0..(t.num_elems - 1)

Live(t, j) == t.elems[j] \notin {EMPTY, DELETED}

Members(t) == {t.elems[j] : j \in Slots(t)} \cap Ptrs

----------------------------------------------------------------------------
(* Probing.                                                                *)

get_hash(p, num_elems) == Hash[p] % num_elems

\* The k-th slot that is looked at for p.
Slot(t, p, k) ==
  LET j == get_hash(p, t.num_elems) + k IN IF j < t.num_elems THEN j ELSE j - t.num_elems

\* How far the loops run: to the first empty slot.
ProbeEnd(t, p) ==
  Min({k \in Slots(t) : t.elems[Slot(t, p, k)] = EMPTY})

\* The steps at which they see e on the way.
Seen(t, p, e) == {k \in 0..(ProbeEnd(t, p) - 1) : t.elems[Slot(t, p, k)] = e}

Found(t, p) == Seen(t, p, p) # {}

\* Slip: the search ends at the first removed element.
FoundEarly(t, p) ==
  \E k \in Seen(t, p, p) : \A j \in Seen(t, p, DELETED) : k < j

\* What ptrset_add finds when it looks for an element that may be there.
AddFound(t, p) == Found(t, p)

\* The first removed element on the way, or the empty slot behind.
InsertPoint(t, p) ==
  LET removed == Seen(t, p, DELETED)
  IN  Slot(t, p, IF removed = {} THEN ProbeEnd(t, p) ELSE Min(removed))

----------------------------------------------------------------------------
(* The operations on a table.                                              *)

EmptyElems(n) == [j \in 0..(n - 1) |-> EMPTY]

NoTable == [elems |-> EmptyElems(0), num_elems |-> 0]

elems_add(t, p) ==
  [elems |-> [t.elems EXCEPT ![Slot(t, p, ProbeEnd(t, p))] = p], num_elems |-> t.num_elems]

\* Slip: removed elements do not count.
OverloadedBySize(s) == 10 * s.size > 7 * s.num_elems

\* MAX_LOAD is 0.7.
Overloaded(s) == 10 * s.total_size > 7 * s.num_elems

\* ptrset_add, when the table is large enough.
Inserted(s, p) ==
  LET at == InsertPoint(s, p)
  IN  IF AddFound(s, p) THEN s
      ELSE [elems |-> [s.elems EXCEPT ![at] = p], num_elems |-> s.num_elems,
            size |-> s.size + 1,
            total_size |-> s.total_size + (IF s.elems[at] = DELETED THEN 0 ELSE 1)]

ptrset_remove(s, p) ==
  IF ~ Found(s, p) THEN s
  ELSE [elems |-> [s.elems EXCEPT ![Slot(s, p, Min(Seen(s, p, p)))] = DELETED],
        num_elems |-> s.num_elems, size |-> s.size - 1, total_size |-> s.total_size]

\* total_size is left as it was.
ptrset_empty(s) ==
  [elems |-> EmptyElems(s.num_elems), num_elems |-> s.num_elems,
   size |-> 0, total_size |-> s.total_size]

\* The first live slot at or behind j; the number of slots if there is none.
NextLive(t, j) ==
  Min({l \in j..(t.num_elems - 1) : Live(t, l)} \cup {t.num_elems})

----------------------------------------------------------------------------
Init ==
  /\ set = [elems |-> EmptyElems(InitialNumElems), num_elems |-> InitialNumElems,
            size |-> 0, total_size |-> 0]
  /\ new = NoTable /\ i = 0 /\ todo = {} /\ pc = "idle"
  /\ cur = -1 /\ ret = <<"create">>

Pending == IF cur = -1 THEN {} ELSE {set.elems[j] : j \in cur..(set.num_elems - 1)} \cap Ptrs

\* No iterator, or one that has come to its end.
Idle == pc = "idle" /\ Pending = {}

\* The bound: a call for k elements that does not expand a table of this size.
Bounded(k) ==
  \/ 2 * set.num_elems <= MaxNumElems
  \/ 10 * (set.total_size + k - 1) <= 7 * set.num_elems

\* A call that adds the elements of S one by one.
Call(S) ==
  /\ Idle /\ Bounded(Cardinality(S))
  /\ todo' = S /\ pc' = IF S = {} THEN "idle" ELSE "add"
  /\ cur' = -1
  /\ UNCHANGED <<set, new, i>>

PtrAdd(p) == Call({p}) /\ ret' = <<"add", p>>

\* ptrset_union: S is another set; the order is that of its slots.
PtrUnion(S) == Call(S) /\ ret' = <<"union", S>>

\* The set is expanded first, also when the element turns out to be there.
Expand ==
  /\ pc = "add" /\ Overloaded(set)
  /\ new' = [elems |-> EmptyElems(2 * set.num_elems), num_elems |-> 2 * set.num_elems]
  /\ i' = 0 /\ pc' = "expand"
  /\ UNCHANGED <<set, todo, cur, ret>>

Move ==
  /\ pc = "expand" /\ i < set.num_elems
  /\ new' = IF Live(set, i) THEN elems_add(new, set.elems[i]) ELSE new
  /\ i' = i + 1
  /\ UNCHANGED <<set, todo, pc, cur, ret>>

Expanded ==
  /\ pc = "expand" /\ i = set.num_elems
  /\ set' = [elems |-> new.elems, num_elems |-> new.num_elems,
             size |-> set.size, total_size |-> set.size]
  /\ new' = NoTable /\ i' = 0 /\ pc' = "insert"
  /\ UNCHANGED <<todo, cur, ret>>

Insert(p) ==
  /\ pc = "insert" \/ (pc = "add" /\ ~ Overloaded(set))
  /\ set' = Inserted(set, p)
  /\ todo' = todo \ {p} /\ pc' = IF todo' = {} THEN "idle" ELSE "add"
  /\ UNCHANGED <<new, i, cur, ret>>

PtrRemove(p) ==
  /\ pc = "idle" /\ p \notin Pending
  /\ set' = ptrset_remove(set, p)
  /\ ret' = <<"remove", p, Found(set, p)>>
  /\ UNCHANGED <<new, i, todo, pc, cur>>

PtrContains(p) ==
  /\ pc = "idle"
  /\ ret' = <<"contains", p, Found(set, p)>>
  /\ UNCHANGED <<set, new, i, todo, pc, cur>>

PtrFirst ==
  /\ pc = "idle"
  /\ LET j == NextLive(set, 0)
     IN  ret' = <<"first", IF j = set.num_elems THEN None ELSE set.elems[j]>>
  /\ UNCHANGED <<set, new, i, todo, pc, cur>>

PtrEmpty ==
  /\ Idle
  /\ set' = ptrset_empty(set) /\ cur' = -1 /\ ret' = <<"empty">>
  /\ UNCHANGED <<new, i, todo, pc>>

IterCreate ==
  /\ pc = "idle"
  /\ cur' = NextLive(set, 0) /\ ret' = <<"iter">>
  /\ UNCHANGED <<set, new, i, todo, pc>>

\* update_iter: the place of the next element is found before this one is used.
StepFrom(t, j) == NextLive(t, j + 1)

IterNext ==
  /\ pc = "idle" /\ cur # -1
  /\ IF cur = set.num_elems THEN ret' = <<"next", None>> /\ UNCHANGED cur
     ELSE ret' = <<"next", set.elems[cur]>> /\ cur' = StepFrom(set, cur)
  /\ UNCHANGED <<set, new, i, todo, pc>>

OtherSets == {S \in SUBSET Ptrs : Cardinality(S) <= MaxUnion}

Next ==
  \/ \E p \in Ptrs : PtrAdd(p) \/ PtrRemove(p) \/ PtrContains(p)
  \/ \E S \in OtherSets : PtrUnion(S)
  \/ Expand \/ Move \/ Expanded \/ \E p \in todo : Insert(p)
  \/ PtrEmpty \/ PtrFirst \/ IterCreate \/ IterNext

Spec == Init /\ [][Next]_vars

----------------------------------------------------------------------------
(* Every loop over the slots of a chain ends: there is always an empty     *)
(* slot, however many elements were removed before.                        *)
Ends(t) == \E j \in Slots(t) : t.elems[j] = EMPTY

ProbesEnd == Ends(set) /\ (pc = "expand" => Ends(new))

(* The table is a set with a safe iterator; what a call has still to add   *)
(* belongs to it.                                                          *)
Abstract == INSTANCE PointerSet WITH members <- Members(set) \cup todo, pending <- Pending

ImplementsSet == Abstract!Spec
=============================================================================
