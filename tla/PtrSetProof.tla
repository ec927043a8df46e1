------------------------------ MODULE PtrSetProof ------------------------------
(***************************************************************************)
(* The hash set of ptrset.c: every search ends, and the table is a set     *)
(* with an iterator that removals do not disturb, for every set of         *)
(* pointers, every hash function and every initial size.                   *)
(***************************************************************************)
EXTENDS PtrSet, FiniteSetTheorems, WellFoundedInduction, TLAPS

(* The smallest element of a set of natural numbers.                       *)
LEMMA MinOfNat ==
  ASSUME NEW T \in SUBSET Nat, T # {}
  PROVE  Min(T) \in T /\ \A k \in T : Min(T) <= k
<1>1. PICK m \in T : \A k \in T : <<k, m>> \notin OpToRel(<, Nat)
  BY NatLessThanWellFounded, WFMin, Zenon
<1>2. \A k \in T : ~ (k < m)
  BY <1>1, Zenon DEF OpToRel
<1>3. \A k \in T : m <= k
  BY <1>2
<1> QED BY <1>3 DEF Min

----------------------------------------------------------------------------
(* Tables.                                                                 *)

Table(t) ==
  /\ t.num_elems \in Nat \ {0}
  /\ t.elems \in [Slots(t) -> Ptrs \cup {EMPTY, DELETED}]

(* No pointer is in two slots.                                             *)
Once(t) == \A j, k \in Slots(t) : Live(t, j) /\ t.elems[j] = t.elems[k] => j = k

(* No empty slot comes before a pointer on the way from its hash to it.    *)
Reached(t) ==
  \A j \in Slots(t) : Live(t, j) =>
    \E k \in Slots(t) : /\ Slot(t, t.elems[j], k) = j
                        /\ \A l \in 0..(k - 1) : t.elems[Slot(t, t.elems[j], l)] # EMPTY

Hashed(t) == Table(t) /\ Once(t) /\ Reached(t)

\* The slots that hold a pointer, and those where a search goes on.
LiveSlots(t) == {j \in Slots(t) : Live(t, j)}
Taken(t) == {j \in Slots(t) : t.elems[j] # EMPTY}

(* The home slot is in the table, and so is every slot behind (get_hash).  *)
LEMMA SlotType ==
  ASSUME PtrSetAssumption, NEW t, Table(t), NEW p \in Ptrs, NEW k \in Slots(t)
  PROVE  Slot(t, p, k) \in Slots(t)
<1>1. t.num_elems \in Nat \ {0} /\ Hash[p] \in Nat
  BY DEF Table, PtrSetAssumption
<1>2. Hash[p] % t.num_elems \in 0..(t.num_elems - 1)
  BY <1>1
<1> QED BY <1>1, <1>2 DEF Slot, Slots, get_hash

(* Probing comes to every slot (the loops wrap around).                    *)
LEMMA SlotOnto ==
  ASSUME PtrSetAssumption, NEW t, Table(t), NEW p \in Ptrs, NEW j \in Slots(t)
  PROVE  \E k \in Slots(t) : Slot(t, p, k) = j
<1> DEFINE n == t.num_elems
           h == Hash[p] % n
<1>1. n \in Nat \ {0} /\ Hash[p] \in Nat /\ j \in 0..(n - 1)
  BY DEF Table, PtrSetAssumption, Slots
<1>2. h \in 0..(n - 1)
  BY <1>1
<1>3. \A l \in 0..(n - 1) : Slot(t, p, l) = IF h + l < n THEN h + l ELSE h + l - n
  <2>1. get_hash(p, n) = h
    BY DEF get_hash
  <2> HIDE DEF h
  <2> QED BY <2>1, <1>1, <1>2 DEF Slot
<1> HIDE DEF h, n
<1> DEFINE k == IF j >= h THEN j - h ELSE j - h + n
<1>4. k \in 0..(n - 1) /\ Slot(t, p, k) = j
  BY <1>1, <1>2, <1>3
<1> QED BY <1>4 DEF Slots, n

(* A search ends at the first empty slot (ptrset_contains).                *)
LEMMA ProbeEndType ==
  ASSUME PtrSetAssumption, NEW t, Table(t), Ends(t), NEW p \in Ptrs
  PROVE  /\ ProbeEnd(t, p) \in Slots(t)
         /\ t.elems[Slot(t, p, ProbeEnd(t, p))] = EMPTY
         /\ \A k \in 0..(ProbeEnd(t, p) - 1) : /\ k \in Slots(t)
                                               /\ t.elems[Slot(t, p, k)] # EMPTY
<1> DEFINE T == {k \in Slots(t) : t.elems[Slot(t, p, k)] = EMPTY}
<1>1. Slots(t) \subseteq Nat /\ T \in SUBSET Nat
  BY DEF Slots
<1>2. T # {}
  BY SlotOnto DEF Ends
<1>3. ProbeEnd(t, p) \in T /\ \A k \in T : ProbeEnd(t, p) <= k
  BY <1>1, <1>2, MinOfNat DEF ProbeEnd
<1>4. \A k \in 0..(ProbeEnd(t, p) - 1) : k \in Slots(t) /\ ~ (ProbeEnd(t, p) <= k)
  BY <1>1, <1>3 DEF Slots, Table
<1> QED BY <1>3, <1>4

(* A search finds what is there (ptrset_contains, ptrset_remove).          *)
LEMMA FoundMember ==
  ASSUME PtrSetAssumption, NEW t, Hashed(t), Ends(t), NEW p \in Ptrs
  PROVE  Found(t, p) <=> p \in Members(t)
<1> USE DEF Hashed
<1>1. ASSUME Found(t, p) PROVE p \in Members(t)
  <2>1. PICK k \in 0..(ProbeEnd(t, p) - 1) : t.elems[Slot(t, p, k)] = p
    BY <1>1 DEF Found, Seen
  <2>2. k \in Slots(t)
    BY ProbeEndType
  <2> QED BY <2>1, <2>2, SlotType DEF Members
<1>2. ASSUME p \in Members(t) PROVE Found(t, p)
  <2>1. PICK j \in Slots(t) : t.elems[j] = p
    BY <1>2 DEF Members
  <2>2. Live(t, j)
    BY <2>1 DEF Live, PtrSetAssumption
  <2>3. PICK k \in Slots(t) : /\ Slot(t, p, k) = j
                              /\ \A l \in 0..(k - 1) : t.elems[Slot(t, p, l)] # EMPTY
    BY <2>1, <2>2 DEF Reached
  <2>4. ProbeEnd(t, p) \notin 0..(k - 1) /\ ProbeEnd(t, p) # k
    BY <2>1, <2>2, <2>3, ProbeEndType DEF Live
  <2>5. k \in 0..(ProbeEnd(t, p) - 1)
    <3>1. k \in Nat /\ ProbeEnd(t, p) \in Nat
      BY ProbeEndType DEF Slots
    <3> QED BY <2>4, <3>1
  <2> QED BY <2>1, <2>3, <2>5 DEF Found, Seen
<1> QED BY <1>1, <1>2

----------------------------------------------------------------------------
(* What the operations do to a table.                                      *)

(* The same slots are probed in a table of the same size.                  *)
LEMMA SameSlots ==
  ASSUME NEW t, NEW u, u.num_elems = t.num_elems
  PROVE  Slots(u) = Slots(t) /\ \A p, k : Slot(u, p, k) = Slot(t, p, k)
BY DEF Slots, Slot

(* A pointer stored on its way is found there, and so is every other one   *)
(* (elems_add, ptrset_add).                                                *)
LEMMA Put ==
  ASSUME PtrSetAssumption, NEW t, Hashed(t), NEW p \in Ptrs, p \notin Members(t),
         NEW k \in Slots(t), NEW at, at = Slot(t, p, k), ~ Live(t, at),
         \A l \in 0..(k - 1) : t.elems[Slot(t, p, l)] # EMPTY,
         NEW u, u.num_elems = t.num_elems, u.elems = [t.elems EXCEPT ![at] = p]
  PROVE  /\ Hashed(u) /\ Members(u) = Members(t) \cup {p}
         /\ LiveSlots(u) = LiveSlots(t) \cup {at}
         /\ Taken(u) = Taken(t) \cup {at}
<1> DEFINE S == Slots(t)
<1>1. at \in S /\ p \notin {EMPTY, DELETED}
  BY SlotType DEF Hashed, PtrSetAssumption
<1>2. Slots(u) = S /\ \A q, l : Slot(u, q, l) = Slot(t, q, l)
  BY SameSlots
<1>3. t.elems \in [S -> Ptrs \cup {EMPTY, DELETED}] /\ t.num_elems \in Nat \ {0}
  BY DEF Hashed, Table
<1>4. /\ u.elems \in [S -> Ptrs \cup {EMPTY, DELETED}] /\ u.elems[at] = p
      /\ \A j \in S \ {at} : u.elems[j] = t.elems[j]
  BY <1>1, <1>3
<1> HIDE DEF S
<1>5. Table(u)
  BY <1>2, <1>3, <1>4 DEF Table
<1>6. /\ Live(u, at) /\ ~ Live(t, at)
      /\ \A j \in S \ {at} : Live(u, j) <=> Live(t, j)
  BY <1>1, <1>4 DEF Live
<1>7. \A j \in S : t.elems[j] = p => FALSE
  BY DEF Members, S
<1>8. Once(u)
  <2> SUFFICES ASSUME NEW i1 \in S, NEW i2 \in S, Live(u, i1), u.elems[i1] = u.elems[i2]
               PROVE  i1 = i2
    BY <1>2 DEF Once
  <2>1. i1 # at /\ i2 # at => i1 = i2
    BY <1>4, <1>6 DEF Hashed, Once, S
  <2>2. i1 = at <=> i2 = at
    BY <1>4, <1>7
  <2> QED BY <2>1, <2>2
<1>9. \A j \in S : t.elems[j] # EMPTY => u.elems[j] # EMPTY
  BY <1>1, <1>4
<1>10. Reached(u)
  <2> SUFFICES ASSUME NEW j \in S, Live(u, j)
               PROVE  \E l \in S : /\ Slot(t, u.elems[j], l) = j
                                   /\ \A m \in 0..(l - 1) : u.elems[Slot(t, u.elems[j], m)] # EMPTY
    BY <1>2 DEF Reached
  <2>1. CASE j = at
    <3>1. \A m \in 0..(k - 1) : Slot(t, p, m) \in S
      <4>1. \A m \in 0..(k - 1) : m \in S
        BY <1>3 DEF S, Slots
      <4> QED BY <4>1, SlotType DEF Hashed, S
    <3>2. \A m \in 0..(k - 1) : u.elems[Slot(t, p, m)] # EMPTY
      BY <3>1, <1>9
    <3> QED BY <2>1, <3>2, <1>4 DEF S
  <2>2. CASE j # at
    <3>1. u.elems[j] = t.elems[j] /\ Live(t, j)
      BY <2>2, <1>4, <1>6
    <3>2. t.elems[j] \in Ptrs
      BY <3>1, <1>3 DEF Live
    <3>3. PICK l \in S : /\ Slot(t, t.elems[j], l) = j
                         /\ \A m \in 0..(l - 1) : t.elems[Slot(t, t.elems[j], m)] # EMPTY
      BY <3>1 DEF Hashed, Reached, S
    <3>4. \A m \in 0..(l - 1) : Slot(t, t.elems[j], m) \in S
      <4>1. \A m \in 0..(l - 1) : m \in S
        BY <1>3 DEF S, Slots
      <4> QED BY <4>1, <3>2, SlotType DEF Hashed, S
    <3> QED BY <3>1, <3>3, <3>4, <1>9
  <2> QED BY <2>1, <2>2
<1>11. Members(u) = Members(t) \cup {p}
  <2>1. ASSUME NEW x PROVE x \in Members(u) <=> x \in Members(t) \cup {p}
    <3>1. x \in Members(u) <=> x \in Ptrs /\ \E j \in S : x = u.elems[j]
      BY <1>2 DEF Members
    <3>2. x \in Members(t) <=> x \in Ptrs /\ \E j \in S : x = t.elems[j]
      BY DEF Members, S
    <3>3. x \in Ptrs => t.elems[at] # x
      BY <1>6 DEF Live, PtrSetAssumption
    <3> QED BY <3>1, <3>2, <3>3, <1>1, <1>4
  <2> QED BY <2>1
<1>12. LiveSlots(u) = LiveSlots(t) \cup {at}
  BY <1>1, <1>2, <1>6 DEF LiveSlots, S
<1>13. Taken(u) = Taken(t) \cup {at}
  BY <1>1, <1>2, <1>4 DEF Taken, S
<1> QED BY <1>5, <1>8, <1>10, <1>11, <1>12, <1>13 DEF Hashed

(* A removed element leaves its slot taken, so the chains through it hold  *)
(* (ptrset_remove).                                                        *)
LEMMA Drop ==
  ASSUME PtrSetAssumption, NEW t, Hashed(t), NEW at \in Slots(t), Live(t, at),
         NEW u, u.num_elems = t.num_elems, u.elems = [t.elems EXCEPT ![at] = DELETED]
  PROVE  /\ Hashed(u) /\ Members(u) = Members(t) \ {t.elems[at]}
         /\ LiveSlots(u) = LiveSlots(t) \ {at}
         /\ Taken(u) = Taken(t)
         /\ t.elems[at] \in Members(t)
<1> DEFINE S == Slots(t)
<1>2. Slots(u) = S /\ \A q, l : Slot(u, q, l) = Slot(t, q, l)
  BY SameSlots
<1>3. t.elems \in [S -> Ptrs \cup {EMPTY, DELETED}] /\ t.num_elems \in Nat \ {0} /\ at \in S
  BY DEF Hashed, Table
<1>4. /\ u.elems \in [S -> Ptrs \cup {EMPTY, DELETED}] /\ u.elems[at] = DELETED
      /\ \A j \in S \ {at} : u.elems[j] = t.elems[j]
  BY <1>3
<1> HIDE DEF S
<1>5. Table(u)
  BY <1>2, <1>3, <1>4 DEF Table
<1>6. /\ ~ Live(u, at)
      /\ \A j \in S \ {at} : Live(u, j) <=> Live(t, j)
  BY <1>3, <1>4 DEF Live
<1>7. Once(u)
  <2>1. \A j, k \in S : Live(t, j) /\ t.elems[j] = t.elems[k] => j = k
    BY DEF Hashed, Once, S
  <2>2. \A j \in S : Live(u, j) => u.elems[j] # DELETED
    BY DEF Live
  <2> QED BY <1>2, <1>4, <1>6, <2>1, <2>2 DEF Once
<1>8. \A j \in S : t.elems[j] # EMPTY <=> u.elems[j] # EMPTY
  BY <1>3, <1>4 DEF Live, PtrSetAssumption
<1>9. Reached(u)
  <2> SUFFICES ASSUME NEW j \in S, Live(u, j)
               PROVE  \E l \in S : /\ Slot(t, u.elems[j], l) = j
                                   /\ \A m \in 0..(l - 1) : u.elems[Slot(t, u.elems[j], m)] # EMPTY
    BY <1>2 DEF Reached
  <2>1. j # at /\ u.elems[j] = t.elems[j] /\ Live(t, j)
    BY <1>4, <1>6
  <2>2. t.elems[j] \in Ptrs
    BY <2>1, <1>3 DEF Live
  <2>3. PICK l \in S : /\ Slot(t, t.elems[j], l) = j
                       /\ \A m \in 0..(l - 1) : t.elems[Slot(t, t.elems[j], m)] # EMPTY
    BY <2>1 DEF Hashed, Reached, S
  <2>4. \A m \in 0..(l - 1) : Slot(t, t.elems[j], m) \in S
    <3>1. \A m \in 0..(l - 1) : m \in S
      BY <1>3 DEF S, Slots
    <3> QED BY <3>1, <2>2, SlotType DEF Hashed, S
  <2> QED BY <2>1, <2>3, <2>4, <1>8
<1>10. t.elems[at] \in Members(t)
  BY <1>3 DEF Live, Members, S
<1>11. Members(u) = Members(t) \ {t.elems[at]}
  <2>1. ASSUME NEW x PROVE x \in Members(u) <=> x \in Members(t) \ {t.elems[at]}
    <3>1. x \in Members(u) <=> x \in Ptrs /\ \E j \in S : x = u.elems[j]
      BY <1>2 DEF Members
    <3>2. x \in Members(t) <=> x \in Ptrs /\ \E j \in S : x = t.elems[j]
      BY DEF Members, S
    <3>3. x \in Ptrs => x # DELETED
      BY DEF PtrSetAssumption
    <3>4. \A j \in S : t.elems[at] = t.elems[j] => at = j
      BY <1>3 DEF Hashed, Once, S
    <3> QED BY <3>1, <3>2, <3>3, <3>4, <1>3, <1>4
  <2> QED BY <2>1
<1>12. LiveSlots(u) = LiveSlots(t) \ {at}
  BY <1>2, <1>6 DEF LiveSlots, S
<1>13. Taken(u) = Taken(t)
  BY <1>2, <1>8 DEF Taken, S
<1> QED BY <1>5, <1>7, <1>9, <1>10, <1>11, <1>12, <1>13 DEF Hashed

----------------------------------------------------------------------------
(* The inductive invariant.                                                *)

(* The set is a table; size counts its pointers, total_size at least the   *)
(* slots that were taken since the table was made.                         *)
SetOK ==
  /\ set = [elems |-> set.elems, num_elems |-> set.num_elems,
            size |-> set.size, total_size |-> set.total_size]
  /\ set.num_elems >= 4 /\ set.size \in Nat /\ set.total_size \in Nat
  /\ Hashed(set)
  /\ Cardinality(LiveSlots(set)) = set.size
  /\ Cardinality(Taken(set)) <= set.total_size

(* An add starts from a load of at most 0.7.                               *)
LoadOK ==
  /\ 10 * set.total_size <= 7 * set.num_elems + 10
  /\ pc = "insert" => 10 * set.total_size <= 7 * set.num_elems

\* The slots of the old table that were moved and held a pointer.
MovedSlots == {j \in 0..(i - 1) : Live(set, j)}

(* The new table has the pointers of the slots that were moved.            *)
NewOK ==
  pc = "expand" =>
    /\ new = [elems |-> new.elems, num_elems |-> 2 * set.num_elems]
    /\ i \in 0..set.num_elems
    /\ Hashed(new)
    /\ \A j \in Slots(new) : new.elems[j] # DELETED
    /\ Members(new) = {set.elems[j] : j \in MovedSlots}
    /\ Cardinality(Taken(new)) = Cardinality(MovedSlots)

(* A call is over when nothing is left to add, an iterator stands at a     *)
(* pointer or at the end, and there is none while the table changes.       *)
CallOK ==
  /\ pc \in {"idle", "add", "expand", "insert"}
  /\ todo \subseteq Ptrs /\ (pc = "idle" => todo = {})
  /\ cur \in -1..set.num_elems
  /\ cur \in Slots(set) => Live(set, cur)
  /\ pc # "idle" => cur = -1

IInv == SetOK /\ LoadOK /\ NewOK /\ CallOK

(* A table in which fewer slots are taken than there are has an empty one. *)
LEMMA EmptyLeft ==
  ASSUME NEW t, Table(t), Cardinality(Taken(t)) < t.num_elems
  PROVE  Ends(t)
<1> SUFFICES ASSUME ~ Ends(t) PROVE FALSE
  OBVIOUS
<1>1. Taken(t) = 0..(t.num_elems - 1)
  BY DEF Ends, Taken, Slots
<1>2. Cardinality(0..(t.num_elems - 1)) = t.num_elems
  BY FS_Interval DEF Table
<1> QED BY <1>1, <1>2 DEF Table

(* Sets of slots are finite.                                               *)
LEMMA SlotsFinite ==
  ASSUME NEW n \in Nat, NEW S \in SUBSET (0..(n - 1))
  PROVE  IsFiniteSet(S) /\ Cardinality(S) \in Nat /\ Cardinality(S) <= n
<1>1. IsFiniteSet(0..(n - 1)) /\ Cardinality(0..(n - 1)) = n
  BY FS_Interval
<1> QED BY <1>1, FS_Subset, FS_CardinalityType

(* The load factor leaves an empty slot, and a new table has more slots    *)
(* than the old one has pointers (ptrset_add, ptrset_expand).              *)
LEMMA Room ==
  ASSUME PtrSetAssumption, IInv
  PROVE  ProbesEnd
<1>1. set.num_elems \in Nat /\ Table(set)
  BY DEF IInv, SetOK, Hashed, Table
<1>2. Cardinality(Taken(set)) \in Nat
  BY <1>1, SlotsFinite DEF Taken, Slots
<1>3. Ends(set)
  <2>1. Cardinality(Taken(set)) < set.num_elems
    BY <1>1, <1>2 DEF IInv, SetOK, LoadOK
  <2> QED BY <1>1, <2>1, EmptyLeft
<1>4. ASSUME pc = "expand" PROVE Ends(new)
  <2>1. /\ i \in 0..set.num_elems /\ Table(new) /\ new.num_elems = 2 * set.num_elems
        /\ Cardinality(Taken(new)) = Cardinality(MovedSlots)
    BY <1>4 DEF IInv, NewOK, Hashed
  <2>2. MovedSlots \in SUBSET (0..(set.num_elems - 1))
    BY <1>1, <2>1 DEF MovedSlots
  <2>3. Cardinality(MovedSlots) \in Nat /\ Cardinality(MovedSlots) <= set.num_elems
    BY <1>1, <2>2, SlotsFinite
  <2>4. Cardinality(Taken(new)) < new.num_elems
    BY <1>1, <2>1, <2>3 DEF IInv, SetOK
  <2> QED BY <2>1, <2>4, EmptyLeft
<1> QED BY <1>3, <1>4 DEF ProbesEnd

(* A table that was just allocated (calloc, memset).                       *)
LEMMA EmptyHashed ==
  ASSUME PtrSetAssumption, NEW t, t.num_elems \in Nat \ {0}, t.elems = EmptyElems(t.num_elems)
  PROVE  /\ Hashed(t) /\ Members(t) = {} /\ LiveSlots(t) = {} /\ Taken(t) = {}
         /\ \A j \in Slots(t) : t.elems[j] = EMPTY
<1>1. \A j \in Slots(t) : t.elems[j] = EMPTY /\ ~ Live(t, j)
  BY DEF EmptyElems, Slots, Live
<1>2. Table(t)
  BY DEF Table, EmptyElems, Slots
<1> QED BY <1>1, <1>2 DEF Hashed, Once, Reached, Members, LiveSlots, Taken, PtrSetAssumption

LEMMA InitIInv ==
  ASSUME PtrSetAssumption, Init
  PROVE  IInv
<1>1. /\ set.elems = EmptyElems(InitialNumElems) /\ set.num_elems = InitialNumElems
      /\ set.size = 0 /\ set.total_size = 0
      /\ InitialNumElems \in Nat /\ InitialNumElems >= 4
      /\ todo = {} /\ pc = "idle" /\ cur = -1
  BY DEF Init, PtrSetAssumption
<1>2. Hashed(set) /\ LiveSlots(set) = {} /\ Taken(set) = {}
  BY <1>1, EmptyHashed
<1>3. SetOK
  <2>1. set = [elems |-> set.elems, num_elems |-> set.num_elems,
               size |-> set.size, total_size |-> set.total_size]
    BY DEF Init
  <2> QED BY <1>1, <1>2, <2>1, FS_EmptySet DEF SetOK
<1>4. LoadOK /\ NewOK /\ CallOK
  BY <1>1 DEF LoadOK, NewOK, CallOK, Slots
<1> QED BY <1>3, <1>4 DEF IInv

----------------------------------------------------------------------------
(* One lemma per action.                                                   *)

(* An insertion, whether a removed slot or an empty one takes the pointer. *)
LEMMA InsertedEffect ==
  ASSUME PtrSetAssumption, SetOK, Ends(set), NEW p \in Ptrs
  PROVE  LET s == Inserted(set, p)
         IN  /\ s = [elems |-> s.elems, num_elems |-> s.num_elems,
                     size |-> s.size, total_size |-> s.total_size]
             /\ s.num_elems = set.num_elems /\ s.size \in Nat /\ s.total_size \in Nat
             /\ Hashed(s) /\ Members(s) = Members(set) \cup {p}
             /\ Cardinality(LiveSlots(s)) = s.size
             /\ Cardinality(Taken(s)) <= s.total_size
             /\ s.total_size <= set.total_size + 1
<1> DEFINE s == Inserted(set, p)
           end == ProbeEnd(set, p)
           removed == Seen(set, p, DELETED)
           k == IF removed = {} THEN end ELSE Min(removed)
           at == Slot(set, p, k)
<1>1. Hashed(set) /\ Table(set) /\ set.num_elems \in Nat
  BY DEF SetOK, Hashed, Table
<1>2. CASE AddFound(set, p)
  <2>1. s = set
    BY <1>2 DEF Inserted
  <2>2. p \in Members(set)
    BY <1>1, <1>2, FoundMember DEF AddFound
  <2> QED BY <2>1, <2>2 DEF SetOK
<1>3. CASE ~ AddFound(set, p)
  <2>1. p \notin Members(set)
    BY <1>1, <1>3, FoundMember DEF AddFound
  <2>2. /\ end \in Slots(set) /\ set.elems[Slot(set, p, end)] = EMPTY
        /\ \A l \in 0..(end - 1) : l \in Slots(set) /\ set.elems[Slot(set, p, l)] # EMPTY
    BY <1>1, ProbeEndType
  <2>3. end \in Nat
    BY <2>2 DEF Slots
  <2>4. /\ k \in Slots(set)
        /\ set.elems[at] \in {EMPTY, DELETED}
        /\ \A l \in 0..(k - 1) : set.elems[Slot(set, p, l)] # EMPTY
    <3>1. CASE removed = {}
      BY <3>1, <2>2
    <3>2. CASE removed # {}
      <4>1. removed \in SUBSET Nat
        BY <2>3 DEF Seen
      <4>2. Min(removed) \in removed
        BY <3>2, <4>1, MinOfNat
      <4>3. k \in 0..(end - 1) /\ set.elems[at] = DELETED
        BY <3>2, <4>2 DEF Seen
      <4> HIDE DEF k
      <4>4. \A l \in 0..(k - 1) : l \in 0..(end - 1)
        BY <2>3, <4>3
      <4> QED BY <2>2, <4>3, <4>4
    <3> QED BY <3>1, <3>2
  <2>5. /\ s.elems = [set.elems EXCEPT ![at] = p]
        /\ s.num_elems = set.num_elems /\ s.size = set.size + 1
        /\ s.total_size = set.total_size + (IF set.elems[at] = DELETED THEN 0 ELSE 1)
        /\ s = [elems |-> s.elems, num_elems |-> s.num_elems,
                size |-> s.size, total_size |-> s.total_size]
    <3>1. s = [elems |-> [set.elems EXCEPT ![at] = p], num_elems |-> set.num_elems,
               size |-> set.size + 1,
               total_size |-> set.total_size + (IF set.elems[at] = DELETED THEN 0 ELSE 1)]
      BY <1>3 DEF Inserted, InsertPoint
    <3> HIDE DEF at, s
    <3> QED BY <3>1
  <2>6. ~ Live(set, at) /\ at \in Slots(set)
    BY <1>1, <2>4, SlotType DEF Live
  <2>7. /\ Hashed(s) /\ Members(s) = Members(set) \cup {p}
        /\ LiveSlots(s) = LiveSlots(set) \cup {at}
        /\ Taken(s) = Taken(set) \cup {at}
    <3>1. /\ k \in Slots(set) /\ at = Slot(set, p, k) /\ ~ Live(set, at)
          /\ \A l \in 0..(k - 1) : set.elems[Slot(set, p, l)] # EMPTY
          /\ s.num_elems = set.num_elems
          /\ s.elems = [set.elems EXCEPT ![at] = p]
      BY <2>4, <2>5, <2>6
    <3> HIDE DEF s, k, at
    <3> QED BY <1>1, <2>1, <3>1, Put
  <2> HIDE DEF s, at
  <2>8. IsFiniteSet(LiveSlots(set)) /\ IsFiniteSet(Taken(set)) /\ Cardinality(Taken(set)) \in Nat
    BY <1>1, SlotsFinite DEF LiveSlots, Taken, Slots
  <2>9. at \notin LiveSlots(set) /\ (at \in Taken(set) <=> set.elems[at] = DELETED)
    BY <2>4, <2>6 DEF LiveSlots, Taken, PtrSetAssumption
  <2>10. Cardinality(LiveSlots(s)) = set.size + 1
    <3>1. Cardinality(LiveSlots(set) \cup {at}) = Cardinality(LiveSlots(set)) + 1
      BY <2>8, <2>9, FS_AddElement
    <3> QED BY <2>7, <3>1 DEF SetOK
  <2>11. Cardinality(Taken(s)) <= s.total_size
    <3>1. Cardinality(Taken(set) \cup {at})
            = IF at \in Taken(set) THEN Cardinality(Taken(set)) ELSE Cardinality(Taken(set)) + 1
      BY <2>8, FS_AddElement
    <3> QED BY <2>5, <2>7, <2>8, <2>9, <3>1 DEF SetOK
  <2> QED BY <2>5, <2>7, <2>10, <2>11 DEF SetOK, s
<1> QED BY <1>2, <1>3

(* A removal; nothing happens if the pointer is not there (ptrset_remove). *)
LEMMA RemovedEffect ==
  ASSUME PtrSetAssumption, SetOK, Ends(set), NEW p \in Ptrs
  PROVE  LET s == ptrset_remove(set, p)
         IN  /\ s = [elems |-> s.elems, num_elems |-> s.num_elems,
                     size |-> s.size, total_size |-> s.total_size]
             /\ s.num_elems = set.num_elems /\ s.size \in Nat
             /\ s.total_size = set.total_size
             /\ Hashed(s) /\ Members(s) = Members(set) \ {p}
             /\ Cardinality(LiveSlots(s)) = s.size
             /\ Cardinality(Taken(s)) <= s.total_size
             /\ \A j \in Slots(set) : set.elems[j] # p => s.elems[j] = set.elems[j]
<1> DEFINE s == ptrset_remove(set, p)
           at == Slot(set, p, Min(Seen(set, p, p)))
<1>1. Hashed(set) /\ Table(set) /\ set.num_elems \in Nat
  BY DEF SetOK, Hashed, Table
<1>2. CASE ~ Found(set, p)
  <2>1. s = set /\ p \notin Members(set)
    BY <1>1, <1>2, FoundMember DEF ptrset_remove
  <2> QED BY <2>1 DEF SetOK
<1>3. CASE Found(set, p)
  <2>1. ProbeEnd(set, p) \in Nat /\ \A k \in 0..(ProbeEnd(set, p) - 1) : k \in Slots(set)
    BY <1>1, ProbeEndType DEF Slots
  <2>2. Seen(set, p, p) \in SUBSET Nat /\ Seen(set, p, p) # {}
    BY <1>3, <2>1 DEF Seen, Found
  <2>3. Min(Seen(set, p, p)) \in Seen(set, p, p)
    BY <2>2, MinOfNat
  <2>4. at \in Slots(set) /\ set.elems[at] = p
    BY <1>1, <2>1, <2>3, SlotType DEF Seen
  <2>5. Live(set, at)
    BY <2>4 DEF Live, PtrSetAssumption
  <2>6. s = [elems |-> [set.elems EXCEPT ![at] = DELETED], num_elems |-> set.num_elems,
             size |-> set.size - 1, total_size |-> set.total_size]
    BY <1>3 DEF ptrset_remove
  <2> HIDE DEF s, at
  <2>7. s.num_elems = set.num_elems /\ s.elems = [set.elems EXCEPT ![at] = DELETED]
    BY <2>6
  <2>8. /\ Hashed(s) /\ Members(s) = Members(set) \ {p}
        /\ LiveSlots(s) = LiveSlots(set) \ {at}
        /\ Taken(s) = Taken(set)
    BY <1>1, <2>4, <2>5, <2>7, Drop
  <2>9. IsFiniteSet(LiveSlots(set)) /\ at \in LiveSlots(set)
    BY <1>1, <2>4, <2>5, SlotsFinite DEF LiveSlots, Slots
  <2>10. Cardinality(LiveSlots(set) \ {at}) = Cardinality(LiveSlots(set)) - 1
    BY <2>9, FS_RemoveElement
  <2>11. Cardinality(LiveSlots(set) \ {at}) \in Nat
    BY <2>9, FS_RemoveElement, FS_CardinalityType
  <2>12. \A j \in Slots(set) : set.elems[j] # p => s.elems[j] = set.elems[j]
    BY <1>1, <2>4, <2>7 DEF Table
  <2>13. /\ s = [elems |-> s.elems, num_elems |-> s.num_elems,
                  size |-> s.size, total_size |-> s.total_size]
         /\ s.num_elems = set.num_elems /\ s.total_size = set.total_size
         /\ s.size = set.size - 1
    BY <2>6
  <2>14. s.size \in Nat /\ Cardinality(LiveSlots(s)) = s.size /\ Cardinality(Taken(s)) <= s.total_size
    BY <2>8, <2>10, <2>11, <2>13 DEF SetOK
  <2> QED BY <2>8, <2>12, <2>13, <2>14 DEF s
<1> QED BY <1>2, <1>3

(* The next pointer of an iteration (update_iter, ptrset_first).           *)
LEMMA NextLiveType ==
  ASSUME NEW t, Table(t), NEW j \in 0..t.num_elems
  PROVE  /\ NextLive(t, j) \in j..t.num_elems
         /\ NextLive(t, j) # t.num_elems => NextLive(t, j) \in Slots(t) /\ Live(t, NextLive(t, j))
         /\ \A l \in j..(NextLive(t, j) - 1) : ~ Live(t, l)
<1> DEFINE T == {l \in j..(t.num_elems - 1) : Live(t, l)} \cup {t.num_elems}
           m == NextLive(t, j)
<1>1. t.num_elems \in Nat /\ T \in SUBSET Nat /\ T # {}
  BY DEF Table
<1>2. m \in T /\ \A l \in T : m <= l
  BY <1>1, MinOfNat DEF NextLive
<1> HIDE DEF m
<1>3. m \in j..t.num_elems /\ (m # t.num_elems => m \in Slots(t) /\ Live(t, m))
  BY <1>1, <1>2 DEF Slots
<1>4. ASSUME NEW l \in j..(m - 1) PROVE ~ Live(t, l)
  <2>1. l \in j..(t.num_elems - 1) /\ ~ (m <= l)
    BY <1>1, <1>3
  <2> QED BY <2>1, <1>2
<1> QED BY <1>3, <1>4 DEF m

LEMMA CallIInv ==
  ASSUME PtrSetAssumption, IInv, NEW S \in SUBSET Ptrs, Call(S)
  PROVE  IInv'
<1>1. /\ pc = "idle" /\ todo' = S /\ pc' = (IF S = {} THEN "idle" ELSE "add")
      /\ cur' = -1 /\ set' = set /\ new' = new /\ i' = i
  BY DEF Call, Idle
<1>2. SetOK'
  BY <1>1 DEF IInv, SetOK
<1>3. LoadOK' /\ NewOK' /\ CallOK'
  BY <1>1 DEF IInv, LoadOK, NewOK, CallOK, SetOK, Hashed, Table, Slots
<1> QED BY <1>2, <1>3 DEF IInv

LEMMA ExpandIInv ==
  ASSUME PtrSetAssumption, IInv, Expand
  PROVE  IInv'
<1>1. /\ pc = "add" /\ pc' = "expand" /\ i' = 0
      /\ new' = [elems |-> EmptyElems(2 * set.num_elems), num_elems |-> 2 * set.num_elems]
      /\ set' = set /\ todo' = todo /\ cur' = cur
  BY DEF Expand
<1>2. set.num_elems \in Nat \ {0}
  BY DEF IInv, SetOK, Hashed, Table
<1>3. /\ Hashed(new') /\ Members(new') = {} /\ Taken(new') = {}
      /\ \A j \in Slots(new') : new'.elems[j] = EMPTY
  BY <1>1, <1>2, EmptyHashed
<1>4. MovedSlots' = {}
  BY <1>1 DEF MovedSlots
<1>5. NewOK'
  <2>1. \A j \in Slots(new') : new'.elems[j] # DELETED
    BY <1>3 DEF PtrSetAssumption
  <2>2. Members(new') = {set'.elems[j] : j \in MovedSlots'}
    BY <1>3, <1>4
  <2>3. /\ new' = [elems |-> new'.elems, num_elems |-> 2 * set'.num_elems]
        /\ i' \in 0..set'.num_elems
    BY <1>1, <1>2
  <2> QED BY <1>3, <1>4, <2>1, <2>2, <2>3 DEF NewOK
<1>6. SetOK' /\ LoadOK' /\ CallOK'
  BY <1>1 DEF IInv, SetOK, LoadOK, CallOK
<1> QED BY <1>5, <1>6 DEF IInv

LEMMA MoveIInv ==
  ASSUME PtrSetAssumption, IInv, Move
  PROVE  IInv'
<1>1. /\ pc = "expand" /\ pc' = "expand" /\ i < set.num_elems /\ i' = i + 1
      /\ new' = IF Live(set, i) THEN elems_add(new, set.elems[i]) ELSE new
      /\ set' = set /\ todo' = todo /\ cur' = cur
  BY DEF Move
<1>2. /\ new = [elems |-> new.elems, num_elems |-> 2 * set.num_elems]
      /\ i \in 0..set.num_elems /\ set.num_elems \in Nat
      /\ Hashed(new) /\ Table(new) /\ Ends(new)
      /\ \A j \in Slots(new) : new.elems[j] # DELETED
      /\ Members(new) = {set.elems[j] : j \in MovedSlots}
      /\ Cardinality(Taken(new)) = Cardinality(MovedSlots)
  BY <1>1, Room DEF IInv, NewOK, SetOK, Hashed, Table, ProbesEnd
<1>3. i \in Slots(set) /\ i \notin MovedSlots /\ IsFiniteSet(MovedSlots)
  <2>1. i \in Slots(set) /\ i \notin MovedSlots /\ MovedSlots \in SUBSET (0..(i - 1)) /\ i \in Nat
    BY <1>1, <1>2 DEF Slots, MovedSlots
  <2> QED BY <2>1, SlotsFinite
<1>4. MovedSlots' = IF Live(set, i) THEN MovedSlots \cup {i} ELSE MovedSlots
  <2>1. 0..(i' - 1) = 0..(i - 1) \cup {i}
    BY <1>1, <1>2
  <2> QED BY <1>1, <2>1 DEF MovedSlots
<1>5. SetOK' /\ LoadOK' /\ CallOK'
  BY <1>1 DEF IInv, SetOK, LoadOK, CallOK
<1>6. CASE ~ Live(set, i)
  <2>1. new' = new /\ MovedSlots' = MovedSlots /\ i' \in 0..set.num_elems
    BY <1>1, <1>2, <1>4, <1>6
  <2> QED BY <1>1, <1>2, <1>5, <2>1 DEF IInv, NewOK
<1>7. CASE Live(set, i)
  <2> DEFINE p == set.elems[i]
             k == ProbeEnd(new, p)
             at == Slot(new, p, k)
             u == elems_add(new, p)
  <2>1. p \in Ptrs
    BY <1>3, <1>7 DEF IInv, SetOK, Hashed, Table, Live
  <2>2. p \notin Members(new)
    <3>1. \A j \in MovedSlots : j \in Slots(set) /\ j # i
      BY <1>2, <1>3 DEF MovedSlots, Slots
    <3>2. \A j, l \in Slots(set) : Live(set, j) /\ set.elems[j] = set.elems[l] => j = l
      BY DEF IInv, SetOK, Hashed, Once
    <3> QED BY <1>2, <1>3, <1>7, <3>1, <3>2
  <2>3. /\ k \in Slots(new) /\ new.elems[at] = EMPTY
        /\ \A l \in 0..(k - 1) : new.elems[Slot(new, p, l)] # EMPTY
    BY <1>2, <2>1, ProbeEndType
  <2>4. u = [elems |-> [new.elems EXCEPT ![at] = p], num_elems |-> new.num_elems]
    BY DEF elems_add
  <2>5. new' = u
    BY <1>1, <1>7
  <2> HIDE DEF u, at, k
  <2>6. at \in Slots(new) /\ ~ Live(new, at) /\ at = Slot(new, p, k) /\ at \notin Taken(new)
    BY <1>2, <2>1, <2>3, SlotType DEF Live, at, Taken
  <2> HIDE DEF p
  <2>7. /\ Hashed(u) /\ Members(u) = Members(new) \cup {p}
        /\ Taken(u) = Taken(new) \cup {at}
    <3>1. u.num_elems = new.num_elems /\ u.elems = [new.elems EXCEPT ![at] = p]
      BY <2>4
    <3> QED BY <1>2, <2>1, <2>2, <2>3, <2>6, <3>1, Put
  <2>8. \A j \in Slots(u) : u.elems[j] # DELETED
    <3>1. new.elems \in [Slots(new) -> Ptrs \cup {EMPTY, DELETED}] /\ Slots(u) = Slots(new)
      BY <1>2, <2>4 DEF Table, Slots
    <3> QED BY <1>2, <2>1, <2>4, <2>6, <3>1 DEF PtrSetAssumption
  <2>9. Members(u) = {set.elems[j] : j \in MovedSlots'}
    BY <1>2, <1>4, <1>7, <2>7 DEF p
  <2>10. Cardinality(Taken(u)) = Cardinality(MovedSlots')
    <3>1. IsFiniteSet(Taken(new))
      <4>1. new.num_elems \in Nat
        BY <1>2
      <4> QED BY <4>1, SlotsFinite DEF Taken, Slots
    <3>2. Cardinality(Taken(new) \cup {at}) = Cardinality(Taken(new)) + 1
      BY <2>6, <3>1, FS_AddElement
    <3>3. Cardinality(MovedSlots \cup {i}) = Cardinality(MovedSlots) + 1
      BY <1>3, FS_AddElement
    <3> QED BY <1>2, <1>4, <1>7, <2>7, <3>2, <3>3
  <2>11. NewOK'
    <3>1. u = [elems |-> u.elems, num_elems |-> 2 * set.num_elems] /\ i' \in 0..set.num_elems
      BY <1>1, <1>2, <2>4
    <3> QED BY <1>1, <2>5, <2>7, <2>8, <2>9, <2>10, <3>1 DEF NewOK
  <2> QED BY <1>5, <2>11 DEF IInv
<1> QED BY <1>6, <1>7

LEMMA ExpandedIInv ==
  ASSUME PtrSetAssumption, IInv, Expanded
  PROVE  /\ IInv' /\ Members(set') = Members(set)
<1>1. /\ pc = "expand" /\ pc' = "insert" /\ i = set.num_elems
      /\ set' = [elems |-> new.elems, num_elems |-> new.num_elems,
                 size |-> set.size, total_size |-> set.size]
      /\ todo' = todo /\ cur' = cur
  BY DEF Expanded
<1>2. /\ new.num_elems = 2 * set.num_elems /\ Hashed(new)
      /\ Members(new) = {set.elems[j] : j \in MovedSlots}
      /\ Cardinality(Taken(new)) = Cardinality(MovedSlots)
      /\ \A j \in Slots(new) : new.elems[j] # DELETED
  BY <1>1 DEF IInv, NewOK
<1>3. /\ set'.elems = new.elems /\ set'.num_elems = new.num_elems
      /\ set'.size = set.size /\ set'.total_size = set.size
  BY <1>1
<1>4. MovedSlots = LiveSlots(set)
  BY <1>1 DEF MovedSlots, LiveSlots, Slots
<1>5. set.num_elems \in Nat /\ Table(set) /\ set.num_elems >= 4 /\ set.size \in Nat
  BY DEF IInv, SetOK, Hashed, Table
<1>6. Slots(set') = Slots(new) /\ \A p, k : Slot(set', p, k) = Slot(new, p, k)
  BY <1>3, SameSlots
<1>7. \A j : Live(set', j) <=> Live(new, j)
  BY <1>3 DEF Live
<1>8. Hashed(set')
  BY <1>2, <1>3, <1>6, <1>7 DEF Hashed, Table, Once, Reached
<1>9. Taken(set') = Taken(new) /\ Members(set') = Members(new) /\ LiveSlots(set') = LiveSlots(new)
  BY <1>3, <1>6, <1>7 DEF Taken, Members, LiveSlots
<1>10. LiveSlots(new) = Taken(new)
  BY <1>2 DEF LiveSlots, Taken, Live
<1>11. SetOK'
  <2>1. set' = [elems |-> set'.elems, num_elems |-> set'.num_elems,
                size |-> set'.size, total_size |-> set'.total_size]
    BY <1>1
  <2>2. Cardinality(Taken(new)) = set.size
    BY <1>2, <1>4 DEF IInv, SetOK
  <2> QED BY <2>1, <2>2, <1>2, <1>3, <1>5, <1>8, <1>9, <1>10 DEF SetOK
<1>12. LoadOK'
  <2>1. set.size < set.num_elems
    <3>1. PICK j \in Slots(set) : set.elems[j] = EMPTY
      BY Room DEF ProbesEnd, Ends
    <3>2. LiveSlots(set) \subseteq Slots(set) \ {j}
      BY <3>1 DEF LiveSlots, Live
    <3>3. IsFiniteSet(Slots(set)) /\ Cardinality(Slots(set)) = set.num_elems
      <4>1. \A n \in Nat \ {0} : IsFiniteSet(0..(n - 1)) /\ Cardinality(0..(n - 1)) = n
        BY FS_Interval
      <4> QED BY <4>1, <1>5 DEF Slots
    <3>4. IsFiniteSet(Slots(set) \ {j}) /\ Cardinality(Slots(set) \ {j}) = set.num_elems - 1
      BY <3>1, <3>3, FS_RemoveElement
    <3>5. Cardinality(LiveSlots(set)) <= set.num_elems - 1
      BY <3>2, <3>4, FS_Subset
    <3> QED BY <3>5, <1>5 DEF IInv, SetOK
  <2> QED BY <2>1, <1>1, <1>2, <1>3, <1>5 DEF LoadOK
<1>13. NewOK' /\ CallOK'
  BY <1>1, <1>2, <1>3, <1>5 DEF IInv, NewOK, CallOK, Slots
<1>14. Members(set) = {set.elems[j] : j \in LiveSlots(set)}
  BY <1>5 DEF Members, LiveSlots, Live, Table, PtrSetAssumption
<1> QED BY <1>2, <1>4, <1>9, <1>11, <1>12, <1>13, <1>14 DEF IInv

LEMMA InsertIInv ==
  ASSUME PtrSetAssumption, IInv, NEW p \in todo, Insert(p)
  PROVE  IInv' /\ Members(set') = Members(set) \cup {p}
<1>1. /\ pc = "insert" \/ (pc = "add" /\ ~ Overloaded(set))
      /\ set' = Inserted(set, p) /\ todo' = todo \ {p}
      /\ pc' = (IF todo' = {} THEN "idle" ELSE "add")
      /\ new' = new /\ i' = i /\ cur' = cur
  BY DEF Insert
<1>2. p \in Ptrs /\ todo \subseteq Ptrs /\ cur = -1
  BY <1>1 DEF IInv, CallOK
<1>3. SetOK /\ Ends(set) /\ set.num_elems \in Nat
  BY Room DEF IInv, ProbesEnd, SetOK, Hashed, Table
<1>4. /\ set' = [elems |-> set'.elems, num_elems |-> set'.num_elems,
                 size |-> set'.size, total_size |-> set'.total_size]
      /\ set'.num_elems = set.num_elems /\ set'.size \in Nat /\ set'.total_size \in Nat
      /\ Hashed(set') /\ Members(set') = Members(set) \cup {p}
      /\ Cardinality(LiveSlots(set')) = set'.size
      /\ Cardinality(Taken(set')) <= set'.total_size
      /\ set'.total_size <= set.total_size + 1
  BY <1>1, <1>2, <1>3, InsertedEffect
<1>5. SetOK'
  BY <1>3, <1>4 DEF SetOK
<1>6. LoadOK'
  <2>1. 10 * set.total_size <= 7 * set.num_elems
    BY <1>1, <1>3 DEF IInv, LoadOK, Overloaded, SetOK
  <2>2. pc' # "insert"
    BY <1>1
  <2> QED BY <2>1, <2>2, <1>3, <1>4 DEF LoadOK, SetOK
<1>7. NewOK' /\ CallOK'
  BY <1>1, <1>2, <1>3, <1>4 DEF NewOK, CallOK, Slots
<1> QED BY <1>4, <1>5, <1>6, <1>7 DEF IInv

LEMMA RemoveIInv ==
  ASSUME PtrSetAssumption, IInv, NEW p \in Ptrs, PtrRemove(p)
  PROVE  IInv' /\ Members(set') = Members(set) \ {p} /\ Pending' = Pending
<1>1. /\ pc = "idle" /\ p \notin Pending /\ set' = ptrset_remove(set, p)
      /\ new' = new /\ i' = i /\ todo' = todo /\ pc' = pc /\ cur' = cur
  BY DEF PtrRemove
<1>2. SetOK /\ Ends(set) /\ set.num_elems \in Nat /\ Hashed(set)
  BY Room DEF IInv, ProbesEnd, SetOK, Hashed, Table
<1>3. /\ set' = [elems |-> set'.elems, num_elems |-> set'.num_elems,
                 size |-> set'.size, total_size |-> set'.total_size]
      /\ set'.num_elems = set.num_elems /\ set'.size \in Nat
      /\ set'.total_size = set.total_size
      /\ Hashed(set') /\ Members(set') = Members(set) \ {p}
      /\ Cardinality(LiveSlots(set')) = set'.size
      /\ Cardinality(Taken(set')) <= set'.total_size
      /\ \A j \in Slots(set) : set.elems[j] # p => set'.elems[j] = set.elems[j]
  BY <1>1, <1>2, RemovedEffect
<1>4. SetOK' /\ LoadOK' /\ NewOK'
  BY <1>1, <1>2, <1>3 DEF IInv, SetOK, LoadOK, NewOK
<1>5. \A j \in Slots(set) : cur # -1 /\ cur <= j => set.elems[j] # p /\ set'.elems[j] = set.elems[j]
  <2> SUFFICES ASSUME NEW j \in Slots(set), cur # -1, cur <= j PROVE set.elems[j] # p
    BY <1>3
  <2>1. j \in cur..(set.num_elems - 1)
    BY <1>2 DEF IInv, CallOK, Slots
  <2> QED BY <2>1, <1>1 DEF Pending
<1>6. CallOK'
  <2>1. cur \in Slots(set) => cur # -1 /\ set'.elems[cur] = set.elems[cur]
    BY <1>2, <1>5 DEF Slots
  <2> QED BY <2>1, <1>1, <1>2, <1>3 DEF IInv, CallOK, Slots, Live
<1>7. Pending' = Pending
  <2>1. CASE cur = -1
    BY <2>1, <1>1 DEF Pending
  <2>2. CASE cur # -1
    <3>1. \A j \in cur..(set.num_elems - 1) : set'.elems[j] = set.elems[j]
      BY <2>2, <1>2, <1>5 DEF IInv, CallOK, Slots
    <3> QED BY <3>1, <2>2, <1>1, <1>3 DEF Pending
  <2> QED BY <2>1, <2>2
<1> QED BY <1>3, <1>4, <1>6, <1>7 DEF IInv

LEMMA EmptyIInv ==
  ASSUME PtrSetAssumption, IInv, PtrEmpty
  PROVE  IInv' /\ Members(set') = {}
<1>1. /\ pc = "idle" /\ pc' = "idle" /\ cur' = -1 /\ todo' = todo
      /\ set' = [elems |-> EmptyElems(set.num_elems), num_elems |-> set.num_elems,
                 size |-> 0, total_size |-> set.total_size]
  BY DEF PtrEmpty, Idle, ptrset_empty
<1>2. set.num_elems \in Nat \ {0} /\ set.num_elems >= 4 /\ set.total_size \in Nat
  BY DEF IInv, SetOK, Hashed, Table
<1>3. Hashed(set') /\ Members(set') = {} /\ LiveSlots(set') = {} /\ Taken(set') = {}
  BY <1>1, <1>2, EmptyHashed
<1>4. SetOK'
  BY <1>1, <1>2, <1>3, FS_EmptySet DEF SetOK
<1>5. LoadOK' /\ NewOK' /\ CallOK'
  BY <1>1, <1>2 DEF IInv, LoadOK, NewOK, CallOK, Slots
<1> QED BY <1>3, <1>4, <1>5 DEF IInv

LEMMA IterIInv ==
  ASSUME PtrSetAssumption, IInv, IterCreate \/ IterNext
  PROVE  IInv'
<1>1. /\ set' = set /\ new' = new /\ i' = i /\ todo' = todo /\ pc = "idle" /\ pc' = "idle"
      /\ Table(set) /\ set.num_elems \in Nat
  BY DEF IterCreate, IterNext, IInv, SetOK, Hashed, Table
<1>2. /\ cur' \in -1..set.num_elems
      /\ cur' \in Slots(set) => Live(set, cur')
  <2>1. CASE IterCreate
    BY <2>1, <1>1, NextLiveType DEF IterCreate, Slots
  <2>2. CASE IterNext
    <3>1. CASE cur = set.num_elems
      BY <3>1, <2>2 DEF IterNext, IInv, CallOK
    <3>2. CASE cur # set.num_elems
      <4>1. cur + 1 \in 0..set.num_elems /\ cur' = NextLive(set, cur + 1)
        BY <3>2, <2>2, <1>1 DEF IterNext, StepFrom, IInv, CallOK
      <4> QED BY <4>1, <1>1, NextLiveType DEF Slots
    <3> QED BY <3>1, <3>2
  <2> QED BY <2>1, <2>2
<1> QED BY <1>1, <1>2 DEF IInv, SetOK, LoadOK, NewOK, CallOK

LEMMA NextIInv ==
  ASSUME PtrSetAssumption, IInv, [Next]_vars
  PROVE  IInv'
<1>1. ASSUME NEW p \in Ptrs, PtrAdd(p) PROVE IInv'
  BY <1>1, CallIInv DEF PtrAdd
<1>2. ASSUME NEW S \in OtherSets, PtrUnion(S) PROVE IInv'
  BY <1>2, CallIInv DEF PtrUnion, OtherSets
<1>3. ASSUME NEW p \in Ptrs, PtrRemove(p) PROVE IInv'
  BY <1>3, RemoveIInv
<1>4. ASSUME NEW p \in todo, Insert(p) PROVE IInv'
  BY <1>4, InsertIInv
<1>5. CASE Expand
  BY <1>5, ExpandIInv
<1>6. CASE Move
  BY <1>6, MoveIInv
<1>7. CASE Expanded
  BY <1>7, ExpandedIInv
<1>8. CASE PtrEmpty
  BY <1>8, EmptyIInv
<1>9. CASE IterCreate \/ IterNext
  BY <1>9, IterIInv
<1>10. ASSUME UNCHANGED <<set, new, i, todo, pc, cur>> PROVE IInv'
  BY <1>10 DEF IInv, SetOK, LoadOK, NewOK, CallOK, MovedSlots
<1>11. CASE PtrFirst
  BY <1>10, <1>11 DEF PtrFirst
<1>12. ASSUME NEW p \in Ptrs, PtrContains(p) PROVE IInv'
  BY <1>10, <1>12 DEF PtrContains
<1>13. CASE UNCHANGED vars
  BY <1>10, <1>13 DEF vars
<1> QED BY <1>1, <1>2, <1>3, <1>4, <1>5, <1>6, <1>7, <1>8, <1>9, <1>11, <1>12, <1>13 DEF Next

(* The structure of the table, the two counters and the load are right at  *)
(* every moment of every call (ptrset.c).                                  *)
THEOREM TableInvariant ==
  ASSUME PtrSetAssumption
  PROVE  Spec => []IInv
<1> QED BY InitIInv, NextIInv, PTL DEF Spec

(* No search of any call runs for ever (ptrset_add, elems_add).            *)
THEOREM SearchesEnd ==
  ASSUME PtrSetAssumption
  PROVE  Spec => []ProbesEnd
<1> QED BY TableInvariant, Room, PTL

----------------------------------------------------------------------------
(* The refinement.                                                         *)

(* What an iterator at slot j has still to yield.                          *)
LEMMA PendingFrom ==
  ASSUME PtrSetAssumption, IInv, NEW j \in 0..set.num_elems, NEW n \in j..set.num_elems,
         \A l \in j..(n - 1) : ~ Live(set, l)
  PROVE  {set.elems[l] : l \in j..(set.num_elems - 1)} \cap Ptrs
           = {set.elems[l] : l \in n..(set.num_elems - 1)} \cap Ptrs
<1>1. /\ set.num_elems \in Nat
  BY DEF IInv, SetOK, Hashed, Table
<1>2. \A l \in n..(set.num_elems - 1) : l \in j..(set.num_elems - 1)
  BY <1>1
<1>3. \A l \in j..(set.num_elems - 1) : l \in j..(n - 1) \/ l \in n..(set.num_elems - 1)
  BY <1>1
<1>4. \A l \in j..(n - 1) : set.elems[l] \notin Ptrs
  BY DEF Live, PtrSetAssumption
<1> QED BY <1>2, <1>3, <1>4

(* The iterator starts with the whole set (ptrset_iter_create).            *)
LEMMA IterCreatePending ==
  ASSUME PtrSetAssumption, IInv, IterCreate
  PROVE  Pending' = Members(set)
<1>1. cur' = NextLive(set, 0) /\ set' = set /\ Table(set) /\ set.num_elems \in Nat
  BY DEF IterCreate, IInv, SetOK, Hashed, Table
<1>2. /\ cur' \in 0..set.num_elems /\ cur' # -1
      /\ \A l \in 0..(cur' - 1) : ~ Live(set, l)
  BY <1>1, NextLiveType
<1>3. Pending' = {set.elems[l] : l \in cur'..(set.num_elems - 1)} \cap Ptrs
  BY <1>1, <1>2 DEF Pending
<1> QED BY <1>1, <1>2, <1>3, PendingFrom DEF Members, Slots

(* It yields a pointer it has not yielded yet, until there is none         *)
(* (ptrset_iter_next).                                                     *)
LEMMA IterNextPending ==
  ASSUME PtrSetAssumption, IInv, IterNext
  PROVE  IF cur = set.num_elems
           THEN Pending = {} /\ Pending' = {} /\ ret' = <<"next", None>>
           ELSE /\ set.elems[cur] \in Pending
                /\ ret' = <<"next", set.elems[cur]>>
                /\ Pending' = Pending \ {set.elems[cur]}
<1> DEFINE n == set.num_elems
<1>1. set' = set /\ Table(set) /\ n \in Nat /\ cur \in 0..n /\ cur # -1
  BY DEF IterNext, IInv, SetOK, CallOK, Hashed, Table
<1>2. Pending = {set.elems[l] : l \in cur..(n - 1)} \cap Ptrs
  BY <1>1 DEF Pending
<1>3. CASE cur = n
  <2>1. cur' = cur /\ ret' = <<"next", None>>
    BY <1>3 DEF IterNext
  <2>2. cur..(n - 1) = {}
    BY <1>1, <1>3
  <2> QED BY <1>1, <1>2, <1>3, <2>1, <2>2 DEF Pending
<1>4. CASE cur # n
  <2>1. cur' = NextLive(set, cur + 1) /\ ret' = <<"next", set.elems[cur]>> /\ cur + 1 \in 0..n
    BY <1>1, <1>4 DEF IterNext, StepFrom
  <2>2. /\ cur' \in (cur + 1)..n /\ cur' # -1
        /\ \A l \in (cur + 1)..(cur' - 1) : ~ Live(set, l)
    BY <1>1, <2>1, NextLiveType
  <2>3. Pending' = {set.elems[l] : l \in cur'..(n - 1)} \cap Ptrs
    BY <1>1, <2>2 DEF Pending
  <2>4. Pending' = {set.elems[l] : l \in (cur + 1)..(n - 1)} \cap Ptrs
    BY <2>1, <2>2, <2>3, PendingFrom
  <2>5. cur \in Slots(set) /\ Live(set, cur) /\ set.elems[cur] \in Ptrs
    BY <1>1, <1>4 DEF IInv, CallOK, Slots, Live, Table
  <2>6. \A l \in (cur + 1)..(n - 1) : l \in Slots(set) /\ l # cur
    BY <1>1 DEF Slots
  <2>7. \A l \in (cur + 1)..(n - 1) : set.elems[l] # set.elems[cur]
    BY <2>5, <2>6 DEF IInv, SetOK, Hashed, Once
  <2>8. cur..(n - 1) = (cur + 1)..(n - 1) \cup {cur}
    BY <1>1, <1>4
  <2> QED BY <1>2, <1>4, <2>1, <2>4, <2>5, <2>7, <2>8
<1> QED BY <1>3, <1>4

(* The first pointer of the table is one of the set (ptrset_first).        *)
LEMMA FirstMember ==
  ASSUME PtrSetAssumption, IInv, PtrFirst
  PROVE  IF Members(set) = {} THEN ret' = <<"first", None>>
         ELSE \E p \in Members(set) : ret' = <<"first", p>>
<1> DEFINE j == NextLive(set, 0)
<1>1. /\ Table(set) /\ set.num_elems \in Nat
      /\ ret' = <<"first", IF j = set.num_elems THEN None ELSE set.elems[j]>>
  BY DEF PtrFirst, IInv, SetOK, Hashed, Table
<1>2. /\ j \in 0..set.num_elems
      /\ j # set.num_elems => j \in Slots(set) /\ Live(set, j)
      /\ \A l \in 0..(j - 1) : ~ Live(set, l)
  BY <1>1, NextLiveType
<1> HIDE DEF j
<1>3. CASE j = set.num_elems
  <2>1. \A l \in Slots(set) : set.elems[l] \notin Ptrs
    BY <1>2, <1>3 DEF Live, Slots, PtrSetAssumption
  <2>2. Members(set) = {}
    BY <2>1 DEF Members
  <2> QED BY <1>1, <1>3, <2>2
<1>4. CASE j # set.num_elems
  <2>1. set.elems[j] \in Members(set)
    BY <1>1, <1>2, <1>4 DEF Members, Live, Table
  <2> QED BY <1>1, <1>4, <2>1
<1> QED BY <1>3, <1>4

LEMMA NextSets ==
  ASSUME PtrSetAssumption, IInv, [Next]_vars
  PROVE  [Abstract!Next]_<<Members(set) \cup todo, Pending, ret>>
<1> DEFINE members == Members(set) \cup todo
<1>0. (pc = "idle" => todo = {}) /\ (pc # "idle" => cur = -1) /\ todo \subseteq Ptrs
  BY DEF IInv, CallOK
<1>1. ASSUME NEW S \in SUBSET Ptrs, Call(S)
      PROVE  members' = members \cup S /\ Pending = {} /\ Pending' = {}
  <2>1. /\ pc = "idle" /\ Pending = {} /\ todo' = S /\ cur' = -1 /\ set' = set
    BY <1>1 DEF Call, Idle
  <2>2. Members(set') = Members(set) /\ Pending' = {}
    BY <2>1 DEF Pending
  <2> QED BY <2>1, <2>2, <1>0
<1>2. ASSUME NEW p \in Ptrs, PtrAdd(p) PROVE Abstract!Add(p)
  BY <1>1, <1>2 DEF PtrAdd, Abstract!Add, Abstract!Idle
<1>3. ASSUME NEW S \in OtherSets, PtrUnion(S) PROVE S \in SUBSET Ptrs /\ Abstract!Union(S)
  BY <1>1, <1>3 DEF PtrUnion, OtherSets, Abstract!Union, Abstract!Idle
<1>4. ASSUME NEW p \in Ptrs, PtrRemove(p) PROVE Abstract!Remove(p)
  <2>1. /\ pc = "idle" /\ p \notin Pending /\ todo' = todo
        /\ ret' = <<"remove", p, Found(set, p)>>
        /\ Members(set') = Members(set) \ {p} /\ Pending' = Pending
    BY <1>4, RemoveIInv DEF PtrRemove
  <2>2. Found(set, p) = (p \in members)
    <3>1. Found(set, p) <=> p \in Members(set)
      BY FoundMember, Room DEF ProbesEnd, IInv, SetOK
    <3>2. Found(set, p) \in BOOLEAN
      BY DEF Found
    <3> QED BY <2>1, <1>0, <3>1, <3>2
  <2> QED BY <1>0, <2>1, <2>2 DEF Abstract!Remove
<1>5. ASSUME NEW p \in Ptrs, PtrContains(p) PROVE Abstract!Contains(p)
  <2>1. pc = "idle" /\ set' = set /\ todo' = todo /\ cur' = cur /\ ret' = <<"contains", p, Found(set, p)>>
    BY <1>5 DEF PtrContains
  <2>2. Found(set, p) = (p \in members)
    <3>1. Found(set, p) <=> p \in Members(set)
      BY FoundMember, Room DEF ProbesEnd, IInv, SetOK
    <3>2. Found(set, p) \in BOOLEAN
      BY DEF Found
    <3> QED BY <2>1, <1>0, <3>1, <3>2
  <2> QED BY <2>1, <2>2 DEF Abstract!Contains, Pending
<1>6. CASE PtrFirst
  <2>1. pc = "idle" /\ set' = set /\ todo' = todo /\ cur' = cur
    BY <1>6 DEF PtrFirst
  <2>2. UNCHANGED <<members, Pending>>
    BY <2>1 DEF Pending
  <2>3. members = Members(set)
    BY <2>1, <1>0
  <2> HIDE DEF members
  <2>4. IF members = {} THEN ret' = <<"first", None>> ELSE \E p \in members : ret' = <<"first", p>>
    BY <1>6, <2>3, FirstMember
  <2>5. Abstract!First
    BY <2>2, <2>4 DEF Abstract!First, members
  <2> QED BY <2>5 DEF Abstract!Next
<1>7. CASE PtrEmpty
  <2>1. /\ pc = "idle" /\ Pending = {} /\ cur' = -1 /\ todo' = todo /\ ret' = <<"empty">>
        /\ Members(set') = {}
    BY <1>7, EmptyIInv DEF PtrEmpty, Idle
  <2>2. Pending' = {} /\ members' = {}
    BY <2>1, <1>0 DEF Pending
  <2> QED BY <2>1, <2>2 DEF Abstract!Next, Abstract!Empty, Abstract!Idle
<1>8. CASE IterCreate
  <2>1. pc = "idle" /\ set' = set /\ todo' = todo /\ ret' = <<"iter">> /\ Pending' = Members(set)
    BY <1>8, IterCreatePending DEF IterCreate
  <2>2. members' = members /\ Pending' = members
    BY <2>1, <1>0
  <2> QED BY <2>1, <2>2 DEF Abstract!Next, Abstract!IterCreate
<1>9. CASE IterNext
  <2>1. set' = set /\ todo' = todo
    BY <1>9 DEF IterNext
  <2>2. members' = members
    BY <2>1
  <2>3. Abstract!IterNext
    BY <1>9, <2>2, IterNextPending DEF Abstract!IterNext
  <2> QED BY <2>3 DEF Abstract!Next
<1>10. ASSUME set' = set, todo' = todo, cur' = cur, ret' = ret
       PROVE  UNCHANGED <<members, Pending, ret>>
  BY <1>10 DEF Pending
<1>11. CASE Expand \/ Move \/ UNCHANGED vars
  BY <1>10, <1>11 DEF Expand, Move, vars
<1>12. CASE Expanded
  <2>1. Members(set') = Members(set) /\ todo' = todo /\ cur' = cur /\ ret' = ret /\ pc = "expand"
    BY <1>12, ExpandedIInv DEF Expanded
  <2> QED BY <2>1, <1>0 DEF Pending
<1>13. ASSUME NEW p \in todo, Insert(p) PROVE UNCHANGED <<members, Pending, ret>>
  <2>1. /\ Members(set') = Members(set) \cup {p} /\ todo' = todo \ {p} /\ cur' = cur /\ ret' = ret
        /\ pc # "idle"
    BY <1>13, InsertIInv DEF Insert
  <2> QED BY <2>1, <1>0 DEF Pending
<1> HIDE DEF members
<1>14. ASSUME Next PROVE [Abstract!Next]_<<members, Pending, ret>>
  BY <1>2, <1>3, <1>4, <1>5, <1>6, <1>7, <1>8, <1>9, <1>11, <1>12, <1>13, <1>14
     DEF Next, Abstract!Next, members
<1> QED BY <1>11, <1>14 DEF members

(* The table answers like a set, and an iterator yields every pointer of   *)
(* the set once, although it may be removed meanwhile (ptrset.h).          *)
THEOREM TableImplementsSet ==
  ASSUME PtrSetAssumption
  PROVE  Spec => ImplementsSet
<1>1. ASSUME Init PROVE Abstract!Init
  <2>1. set.elems = EmptyElems(InitialNumElems) /\ set.num_elems = InitialNumElems /\ todo = {} /\ cur = -1
    BY <1>1 DEF Init
  <2>2. Members(set) = {}
    BY <2>1, EmptyHashed DEF PtrSetAssumption
  <2> QED BY <1>1, <2>1, <2>2 DEF Init, Abstract!Init, Pending
<1> QED BY <1>1, InitIInv, NextIInv, NextSets, PTL DEF Spec, ImplementsSet, Abstract!Spec
=============================================================================
