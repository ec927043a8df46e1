-------------------------- MODULE PriorityQueueProof --------------------------
(***************************************************************************)
(* The heap of priority_queue.c implements a set from which one pulls a    *)
(* greatest element, and never leaves its buffer, for every set of         *)
(* elements and every priority.                                            *)
(***************************************************************************)
EXTENDS PriorityQueue, WellFoundedInduction, TLAPS

(* The least number principle, in the form the proofs below need.          *)
LEMMA LeastNumber ==
  ASSUME NEW T \in SUBSET Nat, T # {}
  PROVE  \E m \in T : \A k \in T : m <= k
<1>1. PICK m \in T : \A k \in T : <<k, m>> \notin OpToRel(<, Nat)
  BY NatLessThanWellFounded, WFMin, Zenon
<1>2. \A k \in T : ~ (k < m)
  BY <1>1, Zenon DEF OpToRel
<1> QED BY <1>2

----------------------------------------------------------------------------
(* Powers of two (is_power_of_two).                                        *)

LEMMA PowerOfZero == is_power_of_two(0)
BY DEF is_power_of_two

LEMMA PowerOfOne == is_power_of_two(1)
<1> SUFFICES ASSUME NEW k \in 1..1, NEW q \in 1..1 PROVE 1 # (2 * k + 1) * q
  BY DEF is_power_of_two
<1> QED OBVIOUS

(* Doubling a power of two yields one ...                                  *)
LEMMA PowerDoubled ==
  ASSUME NEW n \in Nat, is_power_of_two(n)
  PROVE  is_power_of_two(2 * n)
<1> SUFFICES ASSUME NEW k \in 1..(2 * n), NEW q \in 1..(2 * n), 2 * n = (2 * k + 1) * q
             PROVE  FALSE
  BY DEF is_power_of_two
<1> DEFINE kq == k * q
<1>1. kq \in Nat /\ (2 * k + 1) * q = 2 * kq + q
  OBVIOUS
<1>2. PICK h \in Nat : q = 2 * h
  <2>1. q = 2 * (n - kq)
    BY <1>1
  <2> HIDE DEF kq
  <2> QED BY <2>1, <1>1
<1>3. (2 * k + 1) * q = 2 * ((2 * k + 1) * h)
  BY <1>2
<1>4. n = (2 * k + 1) * h /\ h \in 1..n
  <2> DEFINE kh == (2 * k + 1) * h
  <2>1. kh \in Nat /\ kh >= h
    <3>1. kh = h + 2 * (k * h) /\ k * h \in Nat
      OBVIOUS
    <3> HIDE DEF kh
    <3> QED BY <3>1
  <2> HIDE DEF kh
  <2>2. n = kh
    BY <1>3, <2>1 DEF kh
  <2> QED BY <2>1, <2>2, <1>2 DEF kh
<1>5. k \in 1..n
  <2>1. (2 * k + 1) * h = k + (k * h + k * (h - 1) + h) /\ k * h \in Nat /\ k * (h - 1) \in Nat
    BY <1>4
  <2> QED BY <2>1, <1>4
<1> QED BY <1>4, <1>5 DEF is_power_of_two

(* ... and so does halving one.                                            *)
LEMMA PowerHalved ==
  ASSUME NEW n \in Nat, is_power_of_two(2 * n)
  PROVE  is_power_of_two(n)
<1> SUFFICES ASSUME NEW k \in 1..n, NEW q \in 1..n, n = (2 * k + 1) * q
             PROVE  FALSE
  BY DEF is_power_of_two
<1>1. 2 * n = (2 * k + 1) * (2 * q)
  OBVIOUS
<1>2. k \in 1..(2 * n) /\ 2 * q \in 1..(2 * n)
  OBVIOUS
<1> QED BY <1>1, <1>2 DEF is_power_of_two

(* A power of two above one is even.                                       *)
LEMMA PowerEven ==
  ASSUME NEW n \in Nat, n > 1, is_power_of_two(n)
  PROVE  \E h \in Nat : n = 2 * h
<1> SUFFICES ASSUME NEW k \in Nat, n = 2 * k + 1 PROVE FALSE
  <2>1. n \div 2 \in Nat /\ (n = 2 * (n \div 2) \/ n = 2 * (n \div 2) + 1)
    OBVIOUS
  <2> QED BY <2>1
<1>1. k \in 1..n /\ 1 \in 1..n /\ n = (2 * k + 1) * 1
  OBVIOUS
<1> QED BY <1>1 DEF is_power_of_two

(* There is no power of two between one and its double.                    *)
LEMMA PowerGap ==
  ASSUME NEW n \in Nat, n > 0, is_power_of_two(n),
         NEW r \in Nat, is_power_of_two(r), n <= r, r < 2 * n
  PROVE  r = n
<1> DEFINE Gap(a) == /\ a > 0 /\ is_power_of_two(a)
                     /\ \E b \in Nat : is_power_of_two(b) /\ a < b /\ b < 2 * a
           T == {a \in Nat : Gap(a)}
<1> SUFFICES ASSUME T # {} PROVE FALSE
  <2>1. r = n \/ n \in T
    OBVIOUS
  <2> QED BY <2>1
<1>1. PICK a \in T : \A k \in T : a <= k
  BY LeastNumber
<1>2. PICK b \in Nat : is_power_of_two(b) /\ a < b /\ b < 2 * a
  OBVIOUS
<1>3. a > 1
  BY <1>2
<1>4. PICK h \in Nat : a = 2 * h
  BY <1>3, PowerEven
<1>5. PICK i \in Nat : b = 2 * i
  BY <1>2, <1>3, PowerEven
<1>6. is_power_of_two(h) /\ is_power_of_two(i)
  BY <1>2, <1>4, <1>5, PowerHalved
<1>7. h \in T
  BY <1>2, <1>3, <1>4, <1>5, <1>6
<1> QED BY <1>1, <1>3, <1>4, <1>7

----------------------------------------------------------------------------
(* The inductive invariant.                                                *)

\* The number of slots in use.
Size == IF pc = "up" THEN num_elems + 1 ELSE num_elems

(* The buffer has the least power of two that is enough.                   *)
RoomFits ==
  /\ is_power_of_two(room)
  /\ IF Size = 0 THEN room = 0 ELSE Size <= room /\ room < 2 * Size

(* Nothing is in the heap twice, and the loops carry one element along.    *)
Distinct ==
  /\ \A i, j \in InHeap : elems[i] = elems[j] => i = j
  /\ pc = "up" => elems[cur_elem] = moving
  /\ pc = "down" => elems[cur_elem] = elems[num_elems - 1]

(* The elements on both sides of the one that moves are in order.          *)
OrderedAcross ==
  pc # "idle" /\ cur_elem # 0 =>
    \A i \in InHeap \ {0} :
      Parent(i) = cur_elem => compare_gt(elems[Parent(cur_elem)], elems[i])

IInv == TypeOK /\ Ordered /\ OrderedAcross /\ Distinct /\ RoomFits

(* The queue starts without elements and without a buffer                  *)
(* (priority_queue_create).                                                *)
LEMMA InitIInv == Init => IInv
<1> SUFFICES ASSUME Init PROVE IInv
  OBVIOUS
<1>1. Used = {} /\ InHeap = {} /\ Size = 0
  BY DEF Init, Used, InHeap, Size
<1>2. elems \in [Used -> Elems]
  BY <1>1 DEF Init
<1> QED BY <1>1, <1>2, PowerOfZero DEF Init, IInv, TypeOK, Ordered, OrderedAcross, Distinct, RoomFits

(* A push finds or makes room for one element more (priority_queue_push).  *)
LEMMA RoomForPush ==
  ASSUME TypeOK, RoomFits, pc = "idle"
  PROVE  LET r == RoomToPush(num_elems)
         IN  /\ r \in Nat /\ is_power_of_two(r)
             /\ num_elems < r /\ r < 2 * (num_elems + 1)
<1>1. num_elems \in Nat /\ room \in Nat /\ Size = num_elems
  BY DEF TypeOK, Size
<1>2. CASE num_elems = 0
  BY <1>1, <1>2, PowerOfOne DEF RoomToPush
<1>3. CASE num_elems # 0 /\ is_power_of_two(num_elems)
  BY <1>1, <1>3, PowerDoubled DEF RoomToPush
<1>4. CASE num_elems # 0 /\ ~ is_power_of_two(num_elems)
  <2>1. num_elems # room
    BY <1>4 DEF RoomFits
  <2> QED BY <1>1, <1>4, <2>1 DEF RoomToPush, RoomFits
<1> QED BY <1>2, <1>3, <1>4

(* What pull leaves is enough for the elements that are left               *)
(* (priority_queue_pull).                                                  *)
LEMMA RoomForRest ==
  ASSUME TypeOK, RoomFits, pc = "down", num_elems > 1
  PROVE  LET n == num_elems - 1
             r == RoomAfterPull(n)
         IN  /\ r \in Nat /\ is_power_of_two(r)
             /\ n <= r /\ r < 2 * n
<1> DEFINE n == num_elems - 1
<1>1. n \in Nat /\ n > 0 /\ room \in Nat /\ Size = n + 1
  BY DEF TypeOK, Size
<1>2. CASE is_power_of_two(n)
  BY <1>1, <1>2 DEF RoomAfterPull
<1>3. CASE ~ is_power_of_two(n)
  <2>1. room > 1 /\ room < 2 * (n + 1) /\ n <= room
    BY <1>1 DEF RoomFits
  <2>2. PICK h \in Nat : room = 2 * h
    BY <1>1, <2>1, PowerEven DEF RoomFits
  <2>3. is_power_of_two(h)
    BY <2>2, PowerHalved DEF RoomFits
  <2>4. h # n
    BY <1>3, <2>3
  <2>5. room < 2 * n
    BY <1>1, <2>1, <2>2, <2>4
  <2> QED BY <1>1, <1>3, <2>1, <2>5 DEF RoomAfterPull, RoomFits
<1> QED BY <1>2, <1>3

----------------------------------------------------------------------------
(* One lemma per action.                                                   *)

LEMMA PushIInv ==
  ASSUME QueueAssumption, IInv, NEW e \in Elems, Push(e)
  PROVE  IInv'
<1> USE DEF IInv
<1>1. /\ pc = "idle" /\ pc' = "up"
      /\ num_elems \in Nat /\ num_elems' = num_elems
      /\ cur_elem' = num_elems /\ moving' = e /\ ret' = ret
      /\ room' = RoomToPush(num_elems)
      /\ elems' = [i \in 0..num_elems |-> IF i = num_elems THEN e ELSE elems[i]]
  BY DEF Push, TypeOK
<1>2. /\ Used = 0..(num_elems - 1) /\ InHeap = Used
      /\ Used' = 0..num_elems /\ InHeap' = 0..num_elems
      /\ Size' = num_elems + 1
  BY <1>1 DEF Used, InHeap, Size
<1>3. \A i \in 0..(num_elems - 1) : elems'[i] = elems[i] /\ elems[i] \in Elems /\ elems[i] # e
  BY <1>1, <1>2 DEF TypeOK, Push
<1>4. elems'[num_elems] = e
  BY <1>1
<1>5. /\ room' \in Nat /\ is_power_of_two(room')
      /\ num_elems < room' /\ room' < 2 * (num_elems + 1)
  BY <1>1, RoomForPush
<1>6. TypeOK'
  <2>1. elems' \in [0..num_elems -> Elems]
    BY <1>1, <1>3
  <2> QED BY <1>1, <1>2, <1>5, <2>1 DEF TypeOK
<1>7. \A i \in (0..num_elems) \ {0} : i # num_elems => i \in InHeap \ {0} /\ Parent(i) \in 0..(num_elems - 1)
  BY <1>1, <1>2 DEF Parent
<1>8. Ordered'
  BY <1>1, <1>2, <1>3, <1>7 DEF Ordered, Loose, compare_gt
<1>9. OrderedAcross'
  <2>1. \A i \in (0..num_elems) \ {0} : Parent(i) # num_elems
    BY <1>1 DEF Parent
  <2> QED BY <1>1, <1>2, <2>1 DEF OrderedAcross
<1>10. Distinct'
  BY <1>1, <1>2, <1>3, <1>4 DEF Distinct
<1>11. RoomFits'
  BY <1>1, <1>2, <1>5 DEF RoomFits
<1> QED BY <1>6, <1>8, <1>9, <1>10, <1>11

(* What the swap of two slots does to each of them.                        *)
LEMMA SwapEffect ==
  ASSUME NEW S, elems \in [S -> Elems], NEW a \in S, NEW b \in S
  PROVE  /\ Swap(a, b) \in [S -> Elems]
         /\ Swap(a, b)[a] = elems[b] /\ Swap(a, b)[b] = elems[a]
         /\ \A i \in S \ {a, b} : Swap(a, b)[i] = elems[i]
BY DEF Swap

LEMMA SiftUpIInv ==
  ASSUME QueueAssumption, IInv, SiftUp
  PROVE  IInv'
<1> USE DEF IInv
<1> DEFINE c == cur_elem
           p == Parent(cur_elem)
<1>1. /\ pc = "up" /\ pc' = "up"
      /\ num_elems \in Nat /\ num_elems' = num_elems
      /\ cur_elem' = p /\ elems' = Swap(p, c)
      /\ moving' = moving /\ ret' = ret /\ room' = room
      /\ c # 0 /\ compare_gt(elems[c], elems[p])
  BY DEF SiftUp, Rises, TypeOK
<1>2. /\ Used = 0..num_elems /\ InHeap = Used /\ Used' = Used /\ InHeap' = Used
      /\ Size' = Size
  BY <1>1 DEF Used, InHeap, Size
<1>3. c \in Used /\ p \in Used /\ p # c /\ p < c
  BY <1>1, <1>2 DEF TypeOK, Parent
<1>4. \A i \in Used \ {0} : Parent(i) \in Used /\ Parent(i) # i
  BY <1>1, <1>2 DEF Parent
<1>5. /\ elems \in [Used -> Elems] /\ elems' \in [Used -> Elems]
      /\ elems'[p] = elems[c] /\ elems'[c] = elems[p]
      /\ \A i \in Used \ {p, c} : elems'[i] = elems[i]
  <2>1. elems \in [Used -> Elems]
    BY DEF TypeOK
  <2> HIDE DEF p
  <2> QED BY <1>1, <1>3, <2>1, SwapEffect
<1>6. TypeOK'
  BY <1>1, <1>2, <1>3, <1>5 DEF TypeOK
<1>7. \A i \in Used : Key[elems[i]] \in Int
  BY <1>5 DEF QueueAssumption
<1> HIDE DEF p
<1>8. \A i \in Used \ {0} : i # c => Key[elems[Parent(i)]] >= Key[elems[i]]
  BY <1>1, <1>2 DEF Ordered, Loose, compare_gt
<1>9. \A i \in Used \ {0} : Parent(i) = c => Key[elems[p]] >= Key[elems[i]]
  BY <1>1, <1>2 DEF OrderedAcross, compare_gt, p
<1>10. Key[elems[c]] >= Key[elems[p]]
  BY <1>1 DEF compare_gt
<1>11. Ordered'
  <2> SUFFICES ASSUME NEW i \in Used \ {0}, i # p
               PROVE  Key[elems'[Parent(i)]] >= Key[elems'[i]]
    BY <1>1, <1>2 DEF Ordered, Loose, compare_gt
  <2>1. CASE i = c
    BY <2>1, <1>5, <1>10 DEF p
  <2>2. CASE i # c /\ Parent(i) = c
    BY <2>2, <1>5, <1>9
  <2>3. CASE i # c /\ Parent(i) = p
    BY <2>3, <1>3, <1>5, <1>7, <1>8, <1>10
  <2>4. CASE i # c /\ Parent(i) # c /\ Parent(i) # p
    BY <2>4, <1>4, <1>5, <1>8
  <2> QED BY <2>1, <2>2, <2>3, <2>4
<1>12. OrderedAcross'
  <2> SUFFICES ASSUME p # 0, NEW i \in Used \ {0}, Parent(i) = p
               PROVE  Key[elems'[Parent(p)]] >= Key[elems'[i]]
    BY <1>1, <1>2 DEF OrderedAcross, compare_gt
  <2>1. Parent(p) \in Used /\ Parent(p) # p /\ Parent(p) # c /\ i # p
    BY <1>1, <1>2, <1>3, <1>4 DEF Parent
  <2>2. Key[elems[Parent(p)]] >= Key[elems[p]]
    BY <1>3, <1>8
  <2>3. CASE i = c
    BY <2>1, <2>2, <2>3, <1>5
  <2>4. CASE i # c
    BY <2>1, <2>2, <2>4, <1>3, <1>5, <1>7, <1>8
  <2> QED BY <2>3, <2>4
<1>13. Distinct'
  <2>1. /\ \A i, j \in Used : elems[i] = elems[j] => i = j
        /\ elems[c] = moving
    BY <1>1, <1>2 DEF Distinct
  <2>2. \A i, j \in Used : elems'[i] = elems'[j] => i = j
    BY <1>3, <1>5, <2>1
  <2> QED BY <1>1, <1>2, <1>5, <2>1, <2>2 DEF Distinct
<1>14. RoomFits'
  BY <1>1, <1>2 DEF RoomFits
<1> QED BY <1>6, <1>11, <1>12, <1>13, <1>14

LEMMA PushDoneIInv ==
  ASSUME QueueAssumption, IInv, PushDone
  PROVE  IInv'
<1> USE DEF IInv
<1>1. /\ pc = "up" /\ pc' = "idle" /\ ~ Rises
      /\ num_elems \in Nat /\ num_elems' = num_elems + 1
      /\ cur_elem' = 0 /\ moving' = NULL
      /\ elems' = elems /\ ret' = ret /\ room' = room
  BY DEF PushDone, TypeOK
<1>2. /\ Used = 0..num_elems /\ InHeap = Used /\ Used' = Used /\ InHeap' = Used
      /\ Size' = Size
  BY <1>1 DEF Used, InHeap, Size
<1>3. TypeOK'
  BY <1>1, <1>2 DEF TypeOK
<1>4. \A i \in Used : Key[elems[i]] \in Int
  BY DEF TypeOK, QueueAssumption
<1>5. \A i \in Used \ {0} : Parent(i) \in Used
  BY <1>1, <1>2 DEF Parent
<1>6. Ordered'
  <2> SUFFICES ASSUME NEW i \in Used \ {0}
               PROVE  Key[elems[Parent(i)]] >= Key[elems[i]]
    BY <1>1, <1>2 DEF Ordered, compare_gt
  <2>1. CASE i = cur_elem
    BY <2>1, <1>1, <1>4, <1>5 DEF Rises, compare_gt
  <2>2. CASE i # cur_elem
    BY <2>2, <1>1, <1>2 DEF Ordered, Loose, compare_gt
  <2> QED BY <2>1, <2>2
<1>7. OrderedAcross' /\ Distinct' /\ RoomFits'
  BY <1>1, <1>2 DEF OrderedAcross, Distinct, RoomFits
<1> QED BY <1>3, <1>6, <1>7

LEMMA PullLastIInv ==
  ASSUME QueueAssumption, IInv, PullLast
  PROVE  IInv'
<1> USE DEF IInv
<1>1. /\ pc = "idle" /\ pc' = "idle" /\ num_elems = 1 /\ num_elems' = 0
      /\ cur_elem' = cur_elem /\ moving' = moving
      /\ elems' = <<>> /\ ret' = elems[0] /\ room' = 0
  BY DEF PullLast
<1>2. /\ Used = 0..0 /\ Used' = {} /\ InHeap' = {} /\ Size' = 0
  BY <1>1 DEF Used, InHeap, Size
<1>3. elems' \in [Used' -> Elems] /\ elems[0] \in Elems
  BY <1>1, <1>2 DEF TypeOK
<1>4. TypeOK'
  BY <1>1, <1>2, <1>3 DEF TypeOK
<1> QED BY <1>1, <1>2, <1>4, PowerOfZero DEF Ordered, OrderedAcross, Distinct, RoomFits

LEMMA PullFirstIInv ==
  ASSUME QueueAssumption, IInv, PullFirst
  PROVE  IInv'
<1> USE DEF IInv
<1> DEFINE n == num_elems - 1
<1>1. /\ pc = "idle" /\ pc' = "down" /\ n \in Nat /\ n > 0
      /\ num_elems \in Nat /\ num_elems' = num_elems /\ num_elems' - 1 = n
      /\ cur_elem' = 0 /\ moving' = moving /\ room' = room
      /\ elems' = [elems EXCEPT ![0] = elems[n]] /\ ret' = elems[0]
  BY DEF PullFirst, TypeOK
<1>2. /\ Used = 0..n /\ InHeap = Used /\ Used' = Used /\ InHeap' = 0..(n - 1)
      /\ Size' = Size
  BY <1>1 DEF Used, InHeap, Size
<1>3. /\ elems \in [Used -> Elems] /\ elems' \in [Used -> Elems]
      /\ 0 \in Used /\ n \in Used
      /\ elems'[0] = elems[n]
      /\ \A i \in Used \ {0} : elems'[i] = elems[i]
  BY <1>1, <1>2 DEF TypeOK
<1> HIDE DEF n
<1>4. TypeOK'
  BY <1>1, <1>2, <1>3 DEF TypeOK
<1>5. Ordered'
  <2> SUFFICES ASSUME NEW i \in (0..(n - 1)) \ {0}, Parent(i) # 0
               PROVE  Key[elems'[Parent(i)]] >= Key[elems'[i]]
    BY <1>1, <1>2 DEF Ordered, Loose, compare_gt
  <2>1. i \in Used \ {0} /\ Parent(i) \in Used \ {0}
    BY <1>1, <1>2 DEF Parent
  <2>2. Key[elems[Parent(i)]] >= Key[elems[i]]
    BY <1>1, <1>2, <2>1 DEF Ordered, Loose, compare_gt
  <2> QED BY <1>3, <2>1, <2>2
<1>6. OrderedAcross'
  BY <1>1 DEF OrderedAcross
<1>7. Distinct'
  <2>1. \A i, j \in Used : elems[i] = elems[j] => i = j
    BY <1>2 DEF Distinct
  <2>2. \A i, j \in 0..(n - 1) : elems'[i] = elems'[j] => i = j
    <3> SUFFICES ASSUME NEW i \in 0..(n - 1), NEW j \in 0..(n - 1), elems'[i] = elems'[j]
                 PROVE  i = j
      OBVIOUS
    <3>1. i \in Used /\ j \in Used /\ i # n /\ j # n
      BY <1>1, <1>2
    <3> QED BY <3>1, <2>1, <1>3
  <2>3. elems'[0] = elems'[n]
    BY <1>1, <1>3
  <2> QED BY <1>1, <1>2, <2>2, <2>3 DEF Distinct
<1>8. RoomFits'
  BY <1>1, <1>2 DEF RoomFits
<1> QED BY <1>4, <1>5, <1>6, <1>7, <1>8

LEMMA SmallestType ==
  ASSUME QueueAssumption, TypeOK, pc = "down"
  PROVE  /\ Smallest \in InHeap
         /\ Smallest # cur_elem => /\ Smallest # 0 /\ Parent(Smallest) = cur_elem
                                   /\ compare_gt(elems[Smallest], elems[cur_elem])
         /\ \A i \in InHeap \ {0} : Parent(i) = cur_elem => compare_gt(elems[Smallest], elems[i])
<1> DEFINE n == num_elems - 1
           c == cur_elem
           left == 2 * c + 1
           right == 2 * c + 2
           first == IF left < n /\ compare_gt(elems[left], elems[c]) THEN left ELSE c
           second == IF right < n /\ compare_gt(elems[right], elems[first]) THEN right ELSE first
<1>1. Smallest = second
  BY DEF Smallest
<1>2. /\ num_elems \in Nat /\ Used = 0..n /\ InHeap = 0..(n - 1) /\ c \in InHeap
  BY DEF TypeOK, Used, InHeap
<1>3. \A i \in 0..(n - 1) : Key[elems[i]] \in Int
  BY <1>2 DEF TypeOK, QueueAssumption
<1>4. \A i \in InHeap \ {0} : Parent(i) = c <=> i = left \/ i = right
  BY <1>2 DEF Parent
<1>5. /\ first \in 0..(n - 1) /\ (first = left \/ first = c)
      /\ Key[elems[first]] >= Key[elems[c]]
      /\ left < n => Key[elems[first]] >= Key[elems[left]]
  BY <1>2, <1>3 DEF compare_gt
<1> HIDE DEF first
<1>6. /\ second \in 0..(n - 1) /\ (second = right \/ second = first)
      /\ Key[elems[second]] >= Key[elems[first]]
      /\ right < n => Key[elems[second]] >= Key[elems[right]]
  BY <1>2, <1>3, <1>5 DEF compare_gt
<1> HIDE DEF second
<1>7. Key[elems[second]] >= Key[elems[c]] /\ (left < n => Key[elems[second]] >= Key[elems[left]])
  <2>1. /\ Key[elems[first]] \in Int /\ Key[elems[second]] \in Int
        /\ Key[elems[c]] \in Int
    BY <1>2, <1>3, <1>5, <1>6
  <2>2. left < n => Key[elems[left]] \in Int
    BY <1>2, <1>3
  <2> HIDE DEF left, right
  <2> QED BY <2>1, <2>2, <1>5, <1>6
<1>8. second # c => second \in InHeap \ {0} /\ Parent(second) = c
  BY <1>2, <1>4, <1>5, <1>6
<1>9. ASSUME NEW i \in InHeap \ {0}, Parent(i) = c
      PROVE  Key[elems[second]] >= Key[elems[i]]
  <2>1. i < n /\ (i = left \/ i = right)
    BY <1>9, <1>2, <1>4
  <2> QED BY <2>1, <1>6, <1>7
<1>10. Smallest \in InHeap
  BY <1>1, <1>2, <1>6
<1>11. ASSUME Smallest # c
       PROVE  Smallest # 0 /\ Parent(Smallest) = c /\ compare_gt(elems[Smallest], elems[c])
  BY <1>11, <1>1, <1>7, <1>8 DEF compare_gt
<1>12. \A i \in InHeap \ {0} : Parent(i) = c => compare_gt(elems[Smallest], elems[i])
  BY <1>1, <1>9 DEF compare_gt
<1> QED BY <1>10, <1>11, <1>12

LEMMA SiftDownIInv ==
  ASSUME QueueAssumption, IInv, SiftDown
  PROVE  IInv'
<1> USE DEF IInv
<1> DEFINE n == num_elems - 1
           c == cur_elem
           s == Smallest
<1>1. /\ pc = "down" /\ pc' = "down" /\ s # c
      /\ num_elems \in Nat /\ num_elems' = num_elems /\ num_elems' - 1 = n
      /\ cur_elem' = s /\ elems' = Swap(s, c)
      /\ moving' = moving /\ ret' = ret /\ room' = room
  BY DEF SiftDown, TypeOK
<1>2. /\ Used = 0..n /\ InHeap = 0..(n - 1) /\ Used' = Used /\ InHeap' = InHeap
      /\ Size' = Size
  BY <1>1 DEF Used, InHeap, Size
<1>3. /\ s \in InHeap \ {0} /\ Parent(s) = c /\ c \in InHeap
      /\ Key[elems[s]] >= Key[elems[c]]
      /\ \A i \in InHeap \ {0} : Parent(i) = c => Key[elems[s]] >= Key[elems[i]]
  BY <1>1, SmallestType DEF TypeOK, compare_gt
<1> HIDE DEF s
<1>4. s \in Used /\ c \in Used /\ n \in Used /\ s # n /\ c # n /\ n \in Nat
  BY <1>1, <1>2, <1>3
<1>5. /\ elems \in [Used -> Elems] /\ elems' \in [Used -> Elems]
      /\ elems'[s] = elems[c] /\ elems'[c] = elems[s]
      /\ \A i \in Used \ {s, c} : elems'[i] = elems[i]
  <2>1. elems \in [Used -> Elems]
    BY DEF TypeOK
  <2> QED BY <1>1, <1>4, <2>1, SwapEffect
<1> HIDE DEF n
<1>6. TypeOK'
  BY <1>1, <1>2, <1>3, <1>5 DEF TypeOK
<1>7. \A i \in InHeap : Key[elems[i]] \in Int
  BY <1>1, <1>2, <1>4, <1>5 DEF QueueAssumption
<1>8. \A i \in InHeap \ {0} : Parent(i) # c => Key[elems[Parent(i)]] >= Key[elems[i]]
  BY <1>1, <1>2 DEF Ordered, Loose, compare_gt
<1>9. c # 0 => \A i \in InHeap \ {0} : Parent(i) = c => Key[elems[Parent(c)]] >= Key[elems[i]]
  BY <1>1, <1>2 DEF OrderedAcross, compare_gt
<1>10. \A i \in InHeap \ {0} : /\ Parent(i) \in InHeap /\ Parent(i) \in Used
                                /\ Parent(i) # i /\ i \in Used
  BY <1>1, <1>2 DEF Parent
<1>11. Ordered'
  <2> SUFFICES ASSUME NEW i \in InHeap \ {0}, Parent(i) # s
               PROVE  Key[elems'[Parent(i)]] >= Key[elems'[i]]
    BY <1>1, <1>2 DEF Ordered, Loose, compare_gt
  <2>1. CASE i = s
    BY <2>1, <1>3, <1>5
  <2>2. CASE i # s /\ Parent(i) = c
    BY <2>2, <1>3, <1>5, <1>10
  <2>3. CASE i = c
    BY <2>3, <1>3, <1>5, <1>9, <1>10
  <2>4. CASE i # s /\ i # c /\ Parent(i) # c
    BY <2>4, <1>2, <1>5, <1>8, <1>10
  <2> QED BY <2>1, <2>2, <2>3, <2>4
<1>12. OrderedAcross'
  <2> SUFFICES ASSUME NEW i \in InHeap \ {0}, Parent(i) = s
               PROVE  Key[elems'[Parent(s)]] >= Key[elems'[i]]
    BY <1>1, <1>2 DEF OrderedAcross, compare_gt
  <2>1. i # s /\ i # c /\ i \in Used
    <3>1. i # s
      BY <1>10
    <3>2. Parent(c) # s
      <4>1. c \in Nat /\ s \in Nat /\ c < s
        BY <1>1, <1>2, <1>3 DEF Parent
      <4>2. Parent(c) <= c /\ Parent(c) \in Int
        BY <4>1 DEF Parent
      <4> QED BY <4>1, <4>2
    <3> QED BY <3>1, <3>2, <1>10
  <2>2. Key[elems[s]] >= Key[elems[i]]
    BY <1>1, <1>3, <1>8
  <2> QED BY <1>3, <1>5, <2>1, <2>2
<1>13. Distinct'
  <2>1. /\ \A i, j \in InHeap : elems[i] = elems[j] => i = j
        /\ elems[c] = elems[n]
    BY <1>1, <1>2 DEF Distinct, n
  <2>2. \A i, j \in InHeap : elems'[i] = elems'[j] => i = j
    <3>1. \A i \in InHeap : i \in Used
      BY <1>1, <1>2, <1>4
    <3> QED BY <3>1, <1>3, <1>5, <2>1
  <2>3. elems'[s] = elems'[n]
    BY <1>4, <1>5, <2>1
  <2> QED BY <1>1, <1>2, <2>2, <2>3 DEF Distinct
<1>14. RoomFits'
  BY <1>1, <1>2 DEF RoomFits
<1> QED BY <1>6, <1>11, <1>12, <1>13, <1>14

LEMMA PullDoneIInv ==
  ASSUME QueueAssumption, IInv, PullDone
  PROVE  IInv'
<1> USE DEF IInv
<1> DEFINE n == num_elems - 1
<1>1. /\ pc = "down" /\ pc' = "idle" /\ Smallest = cur_elem
      /\ num_elems \in Nat /\ num_elems' = n
      /\ cur_elem' = 0 /\ moving' = moving /\ ret' = ret /\ room' = RoomAfterPull(n)
      /\ elems' = [i \in 0..(num_elems - 2) |-> elems[i]]
  BY DEF PullDone, TypeOK
<1>2. /\ Used = 0..n /\ InHeap = 0..(n - 1) /\ Used' = InHeap /\ InHeap' = InHeap
      /\ Size' = n
  BY <1>1 DEF Used, InHeap, Size
<1>3. /\ cur_elem \in InHeap /\ n \in Nat /\ num_elems > 1
  BY <1>1, <1>2 DEF TypeOK
<1>4. /\ elems' \in [InHeap -> Elems]
      /\ \A i \in InHeap : elems'[i] = elems[i]
  BY <1>1, <1>2 DEF TypeOK
<1>5. /\ room' \in Nat /\ is_power_of_two(room') /\ n <= room' /\ room' < 2 * n
  BY <1>1, <1>3, RoomForRest
<1> HIDE DEF n
<1>6. TypeOK'
  BY <1>1, <1>2, <1>3, <1>4, <1>5 DEF TypeOK
<1>7. Ordered'
  <2> SUFFICES ASSUME NEW i \in InHeap \ {0}
               PROVE  compare_gt(elems'[Parent(i)], elems'[i])
    BY <1>1, <1>2 DEF Ordered, compare_gt
  <2>1. Parent(i) \in InHeap
    BY <1>2, <1>3 DEF Parent
  <2>2. compare_gt(elems[Parent(i)], elems[i])
    BY <1>1, SmallestType DEF Ordered, Loose
  <2> QED BY <1>4, <2>1, <2>2 DEF compare_gt
<1>8. OrderedAcross' /\ Distinct' /\ RoomFits'
  BY <1>1, <1>2, <1>3, <1>4, <1>5 DEF OrderedAcross, Distinct, RoomFits
<1> QED BY <1>6, <1>7, <1>8

LEMMA NextIInv ==
  ASSUME QueueAssumption, IInv, [Next]_vars
  PROVE  IInv'
<1>1. ASSUME NEW e \in Elems, Push(e) PROVE IInv'
  BY <1>1, PushIInv
<1>2. CASE SiftUp
  BY <1>2, SiftUpIInv
<1>3. CASE PushDone
  BY <1>3, PushDoneIInv
<1>4. CASE PullEmpty \/ UNCHANGED vars
  <2>1. /\ UNCHANGED <<elems, num_elems, room, pc, cur_elem, moving>>
        /\ ret' = NULL \/ ret' = ret
    BY <1>4 DEF PullEmpty, vars
  <2> QED BY <2>1 DEF IInv, TypeOK, Ordered, OrderedAcross, Distinct, RoomFits,
                      Used, InHeap, Size, Loose, compare_gt
<1>5. CASE PullLast
  BY <1>5, PullLastIInv
<1>6. CASE PullFirst
  BY <1>6, PullFirstIInv
<1>7. CASE SiftDown
  BY <1>7, SiftDownIInv
<1>8. CASE PullDone
  BY <1>8, PullDoneIInv
<1> QED BY <1>1, <1>2, <1>3, <1>4, <1>5, <1>6, <1>7, <1>8 DEF Next

(* The buffer is always large enough and the heap is always in order, for  *)
(* every number of elements (priority_queue_push, priority_queue_pull).    *)
THEOREM HeapInvariant ==
  ASSUME QueueAssumption
  PROVE  Spec => []IInv
<1> QED BY InitIInv, NextIInv, PTL DEF Spec

----------------------------------------------------------------------------
(* The refinement.                                                         *)

(* The first element of a heap that is in order is a greatest one.         *)
LEMMA RootGreatest ==
  ASSUME QueueAssumption, IInv, pc = "idle", NEW i \in Used
  PROVE  Key[elems[0]] >= Key[elems[i]]
<1> DEFINE T == {j \in Nat : j \in Used /\ ~ (Key[elems[0]] >= Key[elems[j]])}
<1>1. /\ num_elems \in Nat /\ Used = 0..(num_elems - 1) /\ InHeap = Used
      /\ \A j \in Used : Key[elems[j]] \in Int
  BY DEF IInv, TypeOK, Used, InHeap, QueueAssumption
<1> SUFFICES ASSUME T # {} PROVE FALSE
  BY <1>1
<1>2. PICK j \in T : \A k \in T : j <= k
  BY LeastNumber
<1>3. j # 0 /\ 0 \in Used
  BY <1>1
<1>4. Parent(j) \in Used /\ Parent(j) < j /\ Parent(j) \in Nat
  BY <1>1, <1>3 DEF Parent
<1>5. Key[elems[Parent(j)]] >= Key[elems[j]]
  BY <1>1, <1>3 DEF IInv, Ordered, Loose, compare_gt
<1>6. Parent(j) \in T
  <2>1. ~ (Key[elems[0]] >= Key[elems[j]]) /\ j \in Used
    OBVIOUS
  <2>2. Key[elems[0]] \in Int /\ Key[elems[j]] \in Int /\ Key[elems[Parent(j)]] \in Int
    BY <1>1, <1>3, <1>4, <2>1
  <2>3. ~ (Key[elems[0]] >= Key[elems[Parent(j)]])
    BY <1>5, <2>1, <2>2
  <2> QED BY <1>4, <2>3
<1> QED BY <1>2, <1>4, <1>6

(* Refinement, a push: the element joins when the loop has ended           *)
(* (priority_queue_push).                                                  *)
LEMMA PushHolds ==
  ASSUME QueueAssumption, IInv, NEW e \in Elems, Push(e)
  PROVE  HeldElems' = HeldElems /\ ret' = ret
<1>1. /\ pc = "idle" /\ pc' = "up" /\ num_elems \in Nat
      /\ num_elems' = num_elems /\ moving' = e /\ ret' = ret
      /\ elems' = [i \in 0..num_elems |-> IF i = num_elems THEN e ELSE elems[i]]
      /\ e \notin {elems[i] : i \in 0..(num_elems - 1)}
  BY DEF Push, IInv, TypeOK
<1>2. /\ Used = 0..(num_elems - 1) /\ Used' = 0..num_elems
      /\ HeldElems = {elems[i] : i \in 0..(num_elems - 1)}
      /\ HeldElems' = {elems'[i] : i \in 0..num_elems} \ {e}
  BY <1>1 DEF Used, HeldElems
<1>3. /\ \A i \in 0..(num_elems - 1) : i \in 0..num_elems /\ elems'[i] = elems[i]
      /\ \A i \in 0..num_elems : i # num_elems => i \in 0..(num_elems - 1)
      /\ elems'[num_elems] = e
  BY <1>1
<1>4. ASSUME NEW x PROVE x \in HeldElems <=> x \in HeldElems'
  BY <1>1, <1>2, <1>3
<1> QED BY <1>1, <1>4

LEMMA PushDoneHolds ==
  ASSUME QueueAssumption, IInv, PushDone
  PROVE  /\ moving \in Elems /\ moving \notin HeldElems
         /\ HeldElems' = HeldElems \cup {moving} /\ ret' = ret
<1>1. /\ pc = "up" /\ pc' = "idle" /\ num_elems \in Nat
      /\ num_elems' = num_elems + 1 /\ elems' = elems /\ ret' = ret
  BY DEF PushDone, IInv, TypeOK
<1>2. /\ Used = 0..num_elems /\ Used' = Used /\ InHeap = Used
      /\ HeldElems = {elems[i] : i \in Used} \ {moving}
      /\ HeldElems' = {elems[i] : i \in Used}
  BY <1>1 DEF Used, InHeap, HeldElems
<1>3. moving \in {elems[i] : i \in Used} /\ moving \in Elems
  BY <1>1, <1>2 DEF IInv, TypeOK, Distinct
<1> QED BY <1>1, <1>2, <1>3

(* Refinement, a swap of a running loop: the elements are the same.        *)
LEMMA SwapHolds ==
  ASSUME NEW S, elems \in [S -> Elems], NEW a \in S, NEW b \in S, elems' = Swap(a, b)
  PROVE  {elems'[i] : i \in S} = {elems[i] : i \in S}
<1>1. /\ elems'[a] = elems[b] /\ elems'[b] = elems[a]
      /\ \A i \in S \ {a, b} : elems'[i] = elems[i]
  BY SwapEffect
<1> QED BY <1>1

LEMMA SiftUpHolds ==
  ASSUME QueueAssumption, IInv, SiftUp
  PROVE  HeldElems' = HeldElems /\ ret' = ret
<1>1. /\ pc = "up" /\ pc' = "up" /\ num_elems \in Nat /\ num_elems' = num_elems
      /\ cur_elem # 0 /\ elems' = Swap(Parent(cur_elem), cur_elem)
      /\ moving' = moving /\ ret' = ret
  BY DEF SiftUp, Rises, IInv, TypeOK
<1>2. Used = 0..num_elems /\ InHeap = Used /\ Used' = Used
  BY <1>1 DEF Used, InHeap
<1>3. cur_elem \in Used /\ Parent(cur_elem) \in Used
  BY <1>1, <1>2 DEF IInv, TypeOK, Parent
<1>4. elems \in [Used -> Elems]
  BY DEF IInv, TypeOK
<1>5. {elems'[i] : i \in Used} = {elems[i] : i \in Used}
  BY <1>1, <1>3, <1>4, SwapHolds
<1> QED BY <1>1, <1>2, <1>5 DEF HeldElems

LEMMA SiftDownHolds ==
  ASSUME QueueAssumption, IInv, SiftDown
  PROVE  HeldElems' = HeldElems /\ ret' = ret
<1>1. /\ pc = "down" /\ pc' = "down" /\ num_elems \in Nat /\ num_elems' = num_elems
      /\ elems' = Swap(Smallest, cur_elem) /\ ret' = ret
  BY DEF SiftDown, IInv, TypeOK
<1>2. Used = 0..(num_elems - 1) /\ InHeap \subseteq Used /\ Used' = Used
  BY <1>1 DEF Used, InHeap
<1>3. cur_elem \in Used /\ Smallest \in Used
  BY <1>1, <1>2, SmallestType DEF IInv, TypeOK
<1>4. elems \in [Used -> Elems]
  BY DEF IInv, TypeOK
<1>5. {elems'[i] : i \in Used} = {elems[i] : i \in Used}
  BY <1>1, <1>3, <1>4, SwapHolds
<1> QED BY <1>1, <1>2, <1>5 DEF HeldElems

(* Refinement, a pull: the first element leaves, and nothing else          *)
(* (priority_queue_pull).                                                  *)
LEMMA PullFirstHolds ==
  ASSUME QueueAssumption, IInv, PullFirst \/ PullLast
  PROVE  /\ elems[0] \in HeldElems
         /\ \A o \in HeldElems : Key[elems[0]] >= Key[o]
         /\ ret' = elems[0] /\ HeldElems' = HeldElems \ {elems[0]}
<1> DEFINE n == num_elems - 1
<1>1. /\ pc = "idle" /\ n \in Nat /\ ret' = elems[0]
  BY DEF PullFirst, PullLast, IInv, TypeOK
<1>2. Used = 0..n /\ InHeap = Used /\ HeldElems = {elems[i] : i \in 0..n} /\ 0 \in 0..n
  BY <1>1 DEF Used, InHeap, HeldElems
<1>3. \A o \in HeldElems : Key[elems[0]] >= Key[o]
  BY <1>1, <1>2, RootGreatest
<1>4. \A i, j \in 0..n : elems[i] = elems[j] => i = j
  BY <1>2 DEF IInv, Distinct
<1>5. CASE PullLast
  <2>1. n = 0 /\ HeldElems' = {}
    BY <1>5 DEF PullLast, HeldElems, Used
  <2> QED BY <1>1, <1>2, <1>3, <2>1
<1>6. CASE PullFirst
  <2>1. /\ n > 0 /\ pc' = "down" /\ Used' = 0..n
        /\ HeldElems' = {elems'[i] : i \in 0..n}
        /\ elems \in [0..n -> Elems]
        /\ elems' = [elems EXCEPT ![0] = elems[n]]
    BY <1>1, <1>2, <1>6 DEF PullFirst, HeldElems, Used, IInv, TypeOK
  <2> HIDE DEF n
  <2>2. n \in 0..n /\ n # 0 /\ elems'[0] = elems[n] /\ \A i \in 0..n : i # 0 => elems'[i] = elems[i]
    BY <1>1, <1>2, <2>1
  <2>3. ASSUME NEW x PROVE x \in HeldElems' <=> x \in HeldElems \ {elems[0]}
    <3>1. ASSUME x \in HeldElems' PROVE x \in HeldElems \ {elems[0]}
      <4>1. PICK i \in 0..n : x = elems'[i]
        BY <3>1, <2>1
      <4>2. \E j \in 0..n : j # 0 /\ x = elems[j]
        BY <4>1, <2>2
      <4> QED BY <4>2, <1>2, <1>4
    <3>2. ASSUME x \in HeldElems \ {elems[0]} PROVE x \in HeldElems'
      <4>1. PICK i \in 0..n : x = elems[i] /\ i # 0
        BY <3>2, <1>2
      <4> QED BY <4>1, <2>1, <2>2
    <3> QED BY <3>1, <3>2
  <2> QED BY <1>1, <1>2, <1>3, <2>3
<1> QED BY <1>5, <1>6

LEMMA PullDoneHolds ==
  ASSUME QueueAssumption, IInv, PullDone
  PROVE  HeldElems' = HeldElems /\ ret' = ret
<1> DEFINE n == num_elems - 1
<1>1. /\ pc = "down" /\ pc' = "idle" /\ num_elems' = n /\ ret' = ret
      /\ elems' = [i \in 0..(n - 1) |-> elems[i]]
      /\ num_elems \in Nat /\ num_elems - 2 = n - 1
  BY DEF PullDone, IInv, TypeOK
<1>2. /\ HeldElems = {elems[i] : i \in 0..n} /\ InHeap = 0..(n - 1)
      /\ HeldElems' = {elems'[i] : i \in 0..(n - 1)}
  BY <1>1 DEF Used, InHeap, HeldElems
<1>3. cur_elem \in 0..(n - 1) /\ elems[cur_elem] = elems[n] /\ n \in Nat
  BY <1>1, <1>2 DEF IInv, TypeOK, Distinct
<1> HIDE DEF n
<1>4. {elems'[i] : i \in 0..(n - 1)} = {elems[i] : i \in 0..(n - 1)}
  BY <1>1
<1>5. {elems[i] : i \in 0..(n - 1)} = {elems[i] : i \in 0..n}
  <2>1. \A i \in 0..n : i = n \/ i \in 0..(n - 1)
    BY <1>3
  <2>2. \A i \in 0..(n - 1) : i \in 0..n
    BY <1>3
  <2> QED BY <2>1, <2>2, <1>3
<1> QED BY <1>1, <1>2, <1>4, <1>5

LEMMA NextHolds ==
  ASSUME QueueAssumption, IInv, [Next]_vars
  PROVE  [Sets!Next]_<<HeldElems, ret>>
<1>1. ASSUME NEW e \in Elems, Push(e) PROVE UNCHANGED <<HeldElems, ret>>
  BY <1>1, PushHolds
<1>2. CASE SiftUp \/ SiftDown \/ PullDone
  BY <1>2, SiftUpHolds, SiftDownHolds, PullDoneHolds
<1>3. CASE PushDone
  <2>1. moving \in Elems /\ Sets!Push(moving)
    BY <1>3, PushDoneHolds DEF Sets!Push
  <2> QED BY <2>1 DEF Sets!Next
<1>4. CASE PullEmpty
  <2>1. /\ HeldElems = {} /\ ret' = NULL
        /\ UNCHANGED <<elems, num_elems, pc, moving>>
    BY <1>4 DEF PullEmpty, HeldElems, Used
  <2>2. HeldElems' = HeldElems
    BY <2>1 DEF HeldElems, Used
  <2> QED BY <2>1, <2>2 DEF Sets!Next, Sets!Pull
<1>5. CASE PullFirst \/ PullLast
  BY <1>5, PullFirstHolds DEF Sets!Next, Sets!Pull
<1>6. CASE UNCHANGED vars
  BY <1>6 DEF vars, HeldElems, Used
<1> QED BY <1>1, <1>2, <1>3, <1>4, <1>5, <1>6 DEF Next

(* Every pull returns an element of the highest priority that was pushed   *)
(* and not pulled yet, and takes it away (priority_queue.h).               *)
THEOREM HeapImplementsQueue ==
  ASSUME QueueAssumption
  PROVE  Spec => ImplementsQueue
<1>1. Init => Sets!Init
  BY DEF Init, Sets!Init, HeldElems, Used
<1> QED BY <1>1, InitIInv, NextIInv, NextHolds, PTL DEF Spec, ImplementsQueue, Sets!Spec
=============================================================================
