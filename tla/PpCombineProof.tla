---------------------------- MODULE PpCombineProof ----------------------------
(***************************************************************************)
(* The combining scheduler, for every block: it follows no edge to an      *)
(* instruction that was merged into another one, every instruction comes   *)
(* into the list or into one of the list, and the edges among those of the *)
(* list lead forward, although combine_deps renames their ends.            *)
(*                                                                         *)
(* And the operations: none is lost, doubled or changed, none shares its   *)
(* slot, and those that may not change places run in the order they had.   *)
(* No variable says where an operation went, so the invariant is that      *)
(* there is a history (w, t): the instruction each instruction of the      *)
(* block is part of now, and the slot each operation has there.            *)
(***************************************************************************)
EXTENDS PpCombine, PpDepInfoProof, FiniteSetTheorems, TLAPS

-----------------------------------------------------------------------------
(* The list and the graph that combine_deps changes.                       *)

Positions == 1..Len(order)
Listed == {order[k] : k \in Positions}

\* The instructions whose turn it is.
Waiting == {i \in Instrs \ visited : Succs(deps, i) \subseteq visited}

\* Before the list is begun the graph is that of dep_info.c.
FreshInv == EdgesInv /\ visited = {} /\ order = <<>> /\ bundle = block

\* The list: no instruction twice, all of them visited.
ListInv ==
  /\ order \in Seq(Instrs)
  /\ visited \subseteq Instrs
  /\ \A k, l \in Positions : order[k] = order[l] => k = l
  /\ Listed \subseteq visited

\* An edge among the instructions still to come leads forward in the block;
\* one to the list, to an instruction that is really there, and one within
\* the list, forward in the list.
EdgeFits(e) ==
  /\ e[1] \in visited => e[1] \in Listed /\ e[2] \in visited
  /\ e[2] \in visited => e[2] \in Listed
  /\ e[2] \notin visited => e[1] < e[2]
  /\ \A k, l \in Positions : order[k] = e[1] /\ order[l] = e[2] => k < l

MergeInv ==
  /\ IsBlock(block)
  /\ ListInv
  /\ deps \subseteq Instrs \X Instrs
  /\ \A e \in deps : EdgeFits(e)

CombineInv ==
  /\ block \in Blocks
  /\ pc \in {"deps", "min", "schedule", "pull", "done"}
  /\ pc \notin {"pull", "done"} => FreshInv
  /\ pc \in {"pull", "done"} => MergeInv /\ queue = Waiting
  /\ pc = "done" => visited = Instrs

-----------------------------------------------------------------------------
(* Where things are in the list.                                           *)

LEMMA AtIs ==
  ASSUME ListInv, NEW k \in Positions
  PROVE  At(order[k]) = k
<1> DEFINE I == {n \in 1..Len(order) : order[n] = order[k]}
<1>1. Len(order) \in Nat
  BY DEF ListInv
<1>2. I = {k}
  BY DEF ListInv, Positions
<1>3. Min(I) = k
  BY <1>1, <1>2 DEF Min, Positions
<1>4. At(order[k]) = Min(I)
  BY <1>2 DEF At, SelectInSeq
<1> QED BY <1>3, <1>4

(* The first successor of an instruction that is ready, which is in the    *)
(* list or one behind its end, as the code searches for it.                *)
LEMMA LatestSuccIs ==
  ASSUME MergeInv, NEW i \in Waiting
  PROVE  /\ LatestSucc(i) \in 1..(Len(order) + 1)
         /\ \A k \in Positions : order[k] \in Succs(deps, i) => LatestSucc(i) <= k
         /\ \A s \in Succs(deps, i) : \E k \in Positions : order[k] = s
         /\ Succs(deps, i) # {} => LatestSucc(i) \in Positions
<1> DEFINE U == {At(s) : s \in Succs(deps, i)}
           V == {Len(order) + 1} \cup U
<1>1. Len(order) \in Nat
  BY DEF MergeInv, ListInv
<1>2. ASSUME NEW s \in Succs(deps, i)
      PROVE  \E k \in Positions : order[k] = s /\ At(s) = k
  <2>1. <<i, s>> \in deps /\ s \in visited
    BY DEF Succs, Waiting
  <2>2. s \in Listed
    BY <2>1 DEF MergeInv, EdgeFits
  <2>3. PICK k \in Positions : order[k] = s
    BY <2>2 DEF Listed
  <2> QED BY <2>3, AtIs DEF MergeInv
<1>3. U \subseteq 1..Len(order)
  BY <1>2 DEF Positions
<1>4. V \in SUBSET (1..(Len(order) + 1)) /\ V # {}
  <2>1. \A x \in U : x \in 1..(Len(order) + 1)
    <3> HIDE DEF U
    <3> QED BY <1>1, <1>3
  <2>2. Len(order) + 1 \in 1..(Len(order) + 1)
    BY <1>1
  <2> HIDE DEF U
  <2> QED BY <2>1, <2>2
<1>5. PICK m \in V : \A k \in V : m <= k
  <2> HIDE DEF V
  <2>1. Len(order) + 1 \in Nat
    BY <1>1
  <2> QED BY <2>1, <1>4, FirstExists
<1>6. LatestSucc(i) \in V /\ \A k \in V : LatestSucc(i) <= k
  <2> HIDE DEF V
  <2>1. Min(V) \in V /\ \A k \in V : Min(V) <= k
    BY <1>5 DEF Min
  <2>2. Min(V) = LatestSucc(i)
    BY DEF LatestSucc, V
  <2> QED BY <2>1, <2>2
<1>7. \A k \in Positions : order[k] \in Succs(deps, i) => LatestSucc(i) <= k
  <2> TAKE k \in Positions
  <2> HAVE order[k] \in Succs(deps, i)
  <2>1. At(order[k]) = k
    BY AtIs DEF MergeInv
  <2> QED BY <2>1, <1>6
<1>8. Succs(deps, i) # {} => LatestSucc(i) \in Positions
  <2> SUFFICES ASSUME NEW s \in Succs(deps, i) PROVE LatestSucc(i) \in Positions
    OBVIOUS
  <2>1. PICK k \in Positions : At(s) = k
    BY <1>2
  <2>2. LatestSucc(i) <= k
    BY <2>1, <1>6
  <2> QED BY <1>1, <1>4, <1>6, <2>1, <2>2 DEF Positions
<1>9. LatestSucc(i) \in 1..(Len(order) + 1)
  <2> HIDE DEF V
  <2> QED BY <1>4, <1>6
<1>10. \A s \in Succs(deps, i) : \E k \in Positions : order[k] = s
  BY <1>2
<1> QED BY <1>7, <1>8, <1>9, <1>10

-----------------------------------------------------------------------------
(* The steps.                                                              *)

\* What the two ways to merge i into the m-th instruction of the list share:
\* no successor of i is further to the front.
Joins(i, m) ==
  /\ i \in Waiting
  /\ m \in Positions
  /\ \A k \in Positions : order[k] \in Succs(deps, i) => m <= k
  /\ deps' = combine_deps(deps, i, order[m])
  /\ visited' = visited \cup {i}
  /\ UNCHANGED <<block, order>>

\* Who takes over the edges of j when i is merged into `into'.
NameOf(i, into, j) == IF j = i THEN into ELSE j

LEMMA CombinedEdges ==
  ASSUME NEW E, NEW i, NEW into
  PROVE  /\ \A e \in combine_deps(E, i, into) :
              \E f \in E : /\ e = <<NameOf(i, into, f[1]), NameOf(i, into, f[2])>>
                           /\ e # <<into, into>>
         /\ \A f \in E : LET e == <<NameOf(i, into, f[1]), NameOf(i, into, f[2])>>
                         IN  e # <<into, into>> => e \in combine_deps(E, i, into)
BY DEF combine_deps, NameOf

(* Merging: the edges of i lead from and to the place in the list where i  *)
(* now is, which is in front of its successors (combine_deps).             *)
LEMMA JoinKeeps ==
  ASSUME MergeInv, NEW i \in Instrs, NEW m \in Positions, Joins(i, m)
  PROVE  MergeInv'
<1> DEFINE into == order[m]
           name(j) == NameOf(i, into, j)
<1>1. /\ Positions' = Positions /\ Listed' = Listed /\ Instrs' = Instrs
      /\ (IsBlock(block))' = IsBlock(block)
  BY DEF Joins, Positions, Listed, Instrs
<1>2. i \notin visited /\ into \in Listed /\ into \in visited /\ into \in Instrs
  BY DEF Joins, Waiting, Listed, MergeInv, ListInv
<1>3. ListInv'
  BY <1>1 DEF Joins, MergeInv, ListInv
<1>4. ASSUME NEW f \in deps, NEW g, g = <<name(f[1]), name(f[2])>>, g # <<into, into>>
      PROVE  g \in Instrs \X Instrs /\ EdgeFits(g)'
  <2> DEFINE a == g[1]
             b == g[2]
  <2>1. EdgeFits(f) /\ f[1] \in Instrs /\ f[2] \in Instrs
    BY DEF MergeInv
  <2>2. g \in Instrs \X Instrs /\ a \in Instrs /\ b \in Instrs
    BY <1>4, <1>2, <2>1 DEF NameOf
  <2>3. CASE f[1] = i /\ f[2] # i
    <3>1. a = into /\ b = f[2]
      BY <1>4, <2>3 DEF NameOf
    <3>2. f[2] \in Succs(deps, i) /\ f[2] \in visited /\ f[2] \in Listed
      <4>1. f = <<f[1], f[2]>>
        BY DEF MergeInv
      <4>2. f[2] \in Succs(deps, i)
        BY <2>1, <2>3, <4>1 DEF Succs
      <4> QED BY <2>1, <4>2 DEF Joins, Waiting, EdgeFits
    <3>3. ASSUME NEW k \in Positions, NEW l \in Positions, order[k] = a, order[l] = b
          PROVE  k < l
      <4>1. k = m
        BY <3>1, <3>3 DEF MergeInv, ListInv
      <4>2. m <= l /\ l # m
        BY <1>4, <3>1, <3>2, <3>3 DEF Joins
      <4> QED BY <4>1, <4>2 DEF Positions
    <3> QED BY <1>1, <1>2, <2>2, <3>1, <3>2, <3>3 DEF EdgeFits, Joins
  <2>4. CASE f[2] = i /\ f[1] # i
    <3>1. a = f[1] /\ b = into
      BY <1>4, <2>4 DEF NameOf
    <3>2. a \notin visited
      BY <1>2, <2>1, <2>4, <3>1 DEF EdgeFits
    <3>3. a \notin visited' /\ a \notin Listed'
      BY <1>1, <1>2, <2>4, <3>1, <3>2 DEF Joins, MergeInv, ListInv
    <3> QED BY <1>1, <1>2, <2>2, <3>1, <3>2, <3>3 DEF EdgeFits, Joins, Listed
  <2>5. CASE f[1] # i /\ f[2] # i
    <3>1. a = f[1] /\ b = f[2]
      BY <1>4, <2>5 DEF NameOf
    <3> QED BY <1>1, <2>1, <2>2, <2>5, <3>1 DEF EdgeFits, Joins
  <2>6. CASE f[1] = i /\ f[2] = i
    BY <1>4, <2>6 DEF NameOf
  <2> QED BY <2>3, <2>4, <2>5, <2>6
<1>5. ASSUME NEW e \in deps' PROVE e \in Instrs \X Instrs /\ EdgeFits(e)'
  <2>1. PICK f \in deps : e = <<name(f[1]), name(f[2])>> /\ e # <<into, into>>
    BY CombinedEdges DEF Joins
  <2> QED BY <1>4, <2>1
<1> QED BY <1>1, <1>3, <1>5 DEF MergeInv

(* Nobody else becomes ready by a merge than the predecessors of what was  *)
(* merged, for these lose one successor of their own (the loop over preds  *)
(* in lima_pp_lir_combine_schedule_block).                                 *)
LEMMA JoinQueue ==
  ASSUME MergeInv, NEW i \in Instrs, NEW m \in Positions, Joins(i, m), queue = Waiting,
         queue' = (queue \ {i}) \cup {p \in Preds(deps, i) : Succs(deps', p) \subseteq visited'}
  PROVE  queue' = Waiting'
<1> DEFINE into == order[m]
           name(j) == NameOf(i, into, j)
<1>1. Instrs' = Instrs
  BY DEF Joins, Instrs
<1>2. i \notin visited /\ into \in visited /\ into \in Instrs
  BY DEF Joins, Waiting, Listed, MergeInv, ListInv
<1>3. ASSUME NEW x \in Instrs, x \notin visited, x # i
      PROVE  Succs(deps', x) \subseteq visited' <=> Succs(deps, x) \subseteq visited'
  <2>1. ASSUME NEW s \in Succs(deps, x), s \notin visited' PROVE s \in Succs(deps', x)
    <3>1. <<x, s>> \in deps /\ s # i /\ s # into
      BY <1>2, <2>1 DEF Succs, Joins
    <3>2. <<x, s>> \in deps'
      BY <1>3, <3>1, CombinedEdges DEF Joins, NameOf
    <3> QED BY <1>1, <3>2, <2>1 DEF Succs
  <2>2. ASSUME NEW s \in Succs(deps', x), s \notin visited' PROVE s \in Succs(deps, x)
    <3>1. <<x, s>> \in deps' /\ s # into /\ x # into
      BY <1>2, <1>3, <2>2 DEF Succs, Joins
    <3>2. PICK f \in deps : <<x, s>> = <<name(f[1]), name(f[2])>>
      BY <3>1, CombinedEdges DEF Joins
    <3>3. f = <<x, s>>
      BY <3>1, <3>2 DEF NameOf, MergeInv
    <3> QED BY <1>1, <3>3, <2>2 DEF Succs
  <2> QED BY <2>1, <2>2
<1>4. ASSUME NEW x \in Instrs, x \notin visited, x # i, Succs(deps, x) \subseteq visited',
             x \notin Waiting
      PROVE  x \in Preds(deps, i)
  BY <1>4 DEF Joins, Waiting, Succs, Preds
<1>5. ASSUME NEW p \in Preds(deps, i) PROVE p \in Instrs /\ p \notin visited /\ p # i
  <2>1. <<p, i>> \in deps /\ p \in Instrs
    BY DEF Preds
  <2>2. EdgeFits(<<p, i>>)
    BY <2>1 DEF MergeInv
  <2>3. p \notin visited
    BY <1>2, <2>2 DEF EdgeFits
  <2>4. p # i
    <3>1. p \in Nat
      BY <2>1, InstrsFacts DEF MergeInv
    <3> QED BY <1>2, <2>2, <3>1 DEF EdgeFits
  <2> QED BY <2>1, <2>3, <2>4
<1>6. Waiting' = {x \in Instrs \ visited' : Succs(deps', x) \subseteq visited'}
  BY <1>1 DEF Waiting, Succs
<1>7. ASSUME NEW x \in queue'
      PROVE  x \in Instrs /\ x \notin visited' /\ Succs(deps', x) \subseteq visited'
  BY <1>3, <1>5, <1>7 DEF Waiting, Joins
<1>8. ASSUME NEW x \in Instrs, x \notin visited', Succs(deps', x) \subseteq visited'
      PROVE  x \in queue'
  <2>1. x \notin visited /\ x # i
    BY <1>8 DEF Joins
  <2> QED BY <1>3, <1>4, <1>8, <2>1
<1> QED BY <1>6, <1>7, <1>8

\* What it means for i to become the first of the list.
Begins(i) ==
  /\ i \in Waiting
  /\ order' = <<i>> \o order
  /\ visited' = visited \cup {i}
  /\ UNCHANGED <<block, deps>>

LEMMA BeginsList ==
  ASSUME ListInv, NEW i \in Instrs, Begins(i)
  PROVE  /\ order' \in Seq(Instrs) /\ Len(order') = Len(order) + 1
         /\ order'[1] = i /\ \A k \in Positions : order'[k + 1] = order[k]
         /\ \A l \in Positions' : l = 1 \/ (l - 1 \in Positions /\ order'[l] = order[l - 1])
         /\ Listed' = Listed \cup {i}
<1>1. order \in Seq(Instrs) /\ Len(order) \in Nat /\ <<i>> \in Seq(Instrs)
  BY DEF ListInv
<1>2. /\ order' \in Seq(Instrs) /\ Len(order') = Len(order) + 1
      /\ order'[1] = i
  BY <1>1 DEF Begins
<1>3. \A k \in Positions : order'[k + 1] = order[k]
  BY <1>1 DEF Begins, Positions
<1>4. \A l \in Positions' : l = 1 \/ (l - 1 \in Positions /\ order'[l] = order[l - 1])
  BY <1>1, <1>2 DEF Begins, Positions
<1>5. 1 \in Positions' /\ \A k \in Positions : k + 1 \in Positions'
  BY <1>1, <1>2 DEF Positions
<1>6. Listed' = Listed \cup {i}
  BY <1>2, <1>3, <1>4, <1>5 DEF Listed
<1> QED BY <1>2, <1>3, <1>4, <1>6

(* Inserting: i goes in front of everything, and so of its successors      *)
(* (lima_pp_lir_instr_insert_start).                                       *)
LEMMA InsertKeeps ==
  ASSUME MergeInv, NEW i \in Instrs, Begins(i)
  PROVE  MergeInv'
<1>1. Instrs' = Instrs /\ (IsBlock(block))' = IsBlock(block)
  BY DEF Begins, Instrs
<1>2. i \notin visited /\ visited' = visited \cup {i}
  BY DEF Begins, Waiting
<1>3. /\ order' \in Seq(Instrs) /\ Len(order') = Len(order) + 1
      /\ order'[1] = i /\ \A k \in Positions : order'[k + 1] = order[k]
      /\ \A l \in Positions' : l = 1 \/ (l - 1 \in Positions /\ order'[l] = order[l - 1])
      /\ Listed' = Listed \cup {i}
  BY BeginsList DEF MergeInv
<1>4. \A k \in Positions : order[k] # i /\ order[k] \in visited
  BY <1>2 DEF MergeInv, ListInv, Listed
<1>5. Positions' \subseteq Nat /\ Positions \subseteq Nat
  BY DEF Positions
<1>6. ListInv'
  <2>1. ASSUME NEW k \in Positions', NEW l \in Positions', order'[k] = order'[l] PROVE k = l
    <3>1. CASE k = 1
      BY <1>3, <1>4, <2>1, <3>1
    <3>2. CASE l = 1
      BY <1>3, <1>4, <2>1, <3>2
    <3>3. CASE k # 1 /\ l # 1
      <4>1. k - 1 \in Positions /\ l - 1 \in Positions /\ order[k - 1] = order[l - 1]
        BY <1>3, <2>1, <3>3
      <4>2. k - 1 = l - 1
        BY <4>1 DEF MergeInv, ListInv
      <4> QED BY <1>5, <4>2
    <3> QED BY <3>1, <3>2, <3>3
  <2>2. Listed \subseteq visited /\ visited \subseteq Instrs
    BY DEF MergeInv, ListInv
  <2>3. Listed' \subseteq visited' /\ visited' \subseteq Instrs
    BY <1>2, <1>3, <2>2
  <2> QED BY <1>1, <1>3, <2>1, <2>3 DEF ListInv
<1>7. ASSUME NEW e \in deps PROVE EdgeFits(e)'
  <2>1. EdgeFits(e) /\ e = <<e[1], e[2]>> /\ e[1] \in Instrs /\ e[2] \in Instrs
    BY DEF MergeInv
  <2>2. e[1] = i => e[2] # i /\ e[2] \in visited /\ e[2] \in Listed
    <3> HAVE e[1] = i
    <3>1. e[2] \in Succs(deps, i)
      BY <2>1 DEF Succs
    <3> QED BY <1>2, <2>1, <3>1 DEF Begins, Waiting, EdgeFits
  <2>3. e[2] = i => e[1] \notin visited'
    <3> HAVE e[2] = i
    <3>1. e[1] \notin visited
      BY <1>2, <2>1 DEF EdgeFits
    <3> QED BY <1>2, <2>2, <3>1
  <2>4. ASSUME NEW k \in Positions', NEW l \in Positions', order'[k] = e[1], order'[l] = e[2]
        PROVE  k < l
    <3>1. e[1] \in visited'
      <4>1. Listed \subseteq visited
        BY DEF MergeInv, ListInv
      <4>2. order'[k] \in Listed'
        BY DEF Listed
      <4> QED BY <1>2, <1>3, <2>4, <4>1, <4>2
    <3>2. l # 1
      BY <1>3, <2>3, <2>4, <3>1
    <3>3. l - 1 \in Positions /\ order[l - 1] = e[2]
      BY <1>3, <2>4, <3>2
    <3>4. CASE k = 1
      BY <1>5, <3>2, <3>3, <3>4 DEF Positions
    <3>5. CASE k # 1
      <4>1. k - 1 \in Positions /\ order[k - 1] = e[1]
        BY <1>3, <2>4, <3>5
      <4>2. k - 1 < l - 1
        BY <2>1, <3>3, <4>1 DEF EdgeFits
      <4> QED BY <1>5, <4>2
    <3> QED BY <3>4, <3>5
  <2>5. e[1] \in visited' => e[1] \in Listed' /\ e[2] \in visited'
    BY <1>2, <1>3, <2>1, <2>2 DEF EdgeFits
  <2>6. e[2] \in visited' => e[2] \in Listed'
    BY <1>2, <1>3, <2>1 DEF EdgeFits
  <2>7. e[2] \notin visited' => e[1] < e[2]
    BY <1>2, <2>1 DEF EdgeFits
  <2> QED BY <2>4, <2>5, <2>6, <2>7 DEF EdgeFits
<1>8. deps' = deps /\ deps \subseteq Instrs \X Instrs
  BY DEF Begins, MergeInv
<1> QED BY <1>1, <1>6, <1>7, <1>8 DEF MergeInv

LEMMA InsertQueue ==
  ASSUME MergeInv, NEW i \in Instrs, Begins(i), queue = Waiting,
         queue' = (queue \ {i}) \cup {p \in Preds(deps, i) : Succs(deps', p) \subseteq visited'}
  PROVE  queue' = Waiting'
<1>1. Instrs' = Instrs /\ i \notin visited /\ visited' = visited \cup {i} /\ deps' = deps
  BY DEF Begins, Instrs, Waiting
<1>2. Waiting' = {x \in Instrs \ visited' : Succs(deps, x) \subseteq visited'}
  BY <1>1 DEF Waiting, Succs
<1>3. ASSUME NEW p \in Preds(deps, i) PROVE p \in Instrs /\ p \notin visited /\ p # i
  <2>1. <<p, i>> \in deps /\ p \in Instrs
    BY DEF Preds
  <2>2. EdgeFits(<<p, i>>)
    BY <2>1 DEF MergeInv
  <2>3. p \notin visited
    BY <1>1, <2>2 DEF EdgeFits
  <2>4. p # i
    <3>1. p \in Nat
      BY <2>1, InstrsFacts DEF MergeInv
    <3> QED BY <1>1, <2>2, <3>1 DEF EdgeFits
  <2> QED BY <2>1, <2>3, <2>4
<1>4. ASSUME NEW x \in queue'
      PROVE  x \in Instrs /\ x \notin visited' /\ Succs(deps, x) \subseteq visited'
  BY <1>1, <1>3, <1>4 DEF Waiting
<1>5. ASSUME NEW x \in Instrs, x \notin visited', Succs(deps, x) \subseteq visited'
      PROVE  x \in queue'
  BY <1>1, <1>5 DEF Waiting, Succs, Preds
<1> QED BY <1>2, <1>4, <1>5

(* The two ways to merge: into the first successor, or into an instruction *)
(* in front of it.                                                         *)
LEMMA BeforeJoins ==
  ASSUME MergeInv, queue = Waiting, NEW i \in Instrs, CombineBefore(i)
  PROVE  /\ LatestSucc(i) \in Positions /\ Joins(i, LatestSucc(i))
         /\ queue' = (queue \ {i}) \cup {p \in Preds(deps, i) : Succs(deps', p) \subseteq visited'}
<1>1. i \in Waiting /\ Succs(deps, i) # {}
  BY DEF CombineBefore, Ready, CanCombineBefore
<1>2. /\ LatestSucc(i) \in Positions
      /\ \A k \in Positions : order[k] \in Succs(deps, i) => LatestSucc(i) <= k
  BY <1>1, LatestSuccIs
<1> QED BY <1>1, <1>2 DEF CombineBefore, MergeInto, Pulled, Joins

LEMMA IndepJoins ==
  ASSUME MergeInv, queue = Waiting, NEW i \in Instrs, CombineIndep(i)
  PROVE  /\ Max(IndepPlaces(i)) \in Positions /\ Joins(i, Max(IndepPlaces(i)))
         /\ Max(IndepPlaces(i)) \in IndepPlaces(i) /\ Max(IndepPlaces(i)) < LatestSucc(i)
         /\ queue' = (queue \ {i}) \cup {p \in Preds(deps, i) : Succs(deps', p) \subseteq visited'}
<1>1. i \in Waiting /\ IndepPlaces(i) # {}
  BY DEF CombineIndep, Ready
<1>2. /\ LatestSucc(i) \in 1..(Len(order) + 1) /\ Len(order) \in Nat
      /\ \A k \in Positions : order[k] \in Succs(deps, i) => LatestSucc(i) <= k
  BY <1>1, LatestSuccIs DEF MergeInv, ListInv
<1>3. IndepPlaces(i) \subseteq 1..(LatestSucc(i) - 1)
  BY DEF IndepPlaces
<1>4. IndepPlaces(i) \in SUBSET (1..Len(order))
  BY <1>2, <1>3
<1>5. PICK m \in IndepPlaces(i) : \A k \in IndepPlaces(i) : k <= m
  BY <1>1, <1>2, <1>4, LastExists
<1>6. Max(IndepPlaces(i)) \in IndepPlaces(i)
  <2>1. \E x \in IndepPlaces(i) : \A y \in IndepPlaces(i) : x >= y
    BY <1>4, <1>5
  <2> QED BY <2>1 DEF Max
<1>7. Max(IndepPlaces(i)) \in Positions /\ Max(IndepPlaces(i)) < LatestSucc(i)
  BY <1>2, <1>3, <1>4, <1>6 DEF Positions
<1>8. \A k \in Positions : order[k] \in Succs(deps, i) => Max(IndepPlaces(i)) <= k
  <2> TAKE k \in Positions
  <2> HAVE order[k] \in Succs(deps, i)
  <2> QED BY <1>2, <1>7 DEF Positions
<1> QED BY <1>1, <1>6, <1>7, <1>8 DEF CombineIndep, MergeInto, Pulled, Joins

LEMMA InsertBegins ==
  ASSUME MergeInv, queue = Waiting, NEW i \in Instrs, InsertStart(i)
  PROVE  /\ Begins(i)
         /\ queue' = (queue \ {i}) \cup {p \in Preds(deps, i) : Succs(deps', p) \subseteq visited'}
BY DEF InsertStart, Ready, Pulled, Begins

\* The schedulers' blocks are blocks of the graph.
LEMMA BlockIs ==
  ASSUME CombineAssumption, block \in Blocks
  PROVE  IsBlock(block) /\ Len(block) \in Nat \ {0}
BY DEF CombineAssumption, IsBundle, IsBlock

\* As long as somebody is to come, somebody can: the last of them.
LEMMA SomebodyWaits ==
  ASSUME MergeInv, Waiting = {}
  PROVE  visited = Instrs
<1> SUFFICES ASSUME Instrs \ visited # {} PROVE FALSE
  BY DEF MergeInv, ListInv
<1>1. PICK i \in Instrs \ visited : \A k \in Instrs \ visited : k <= i
  <2>1. Len(block) \in Nat /\ Instrs \ visited \in SUBSET (1..Len(block))
    BY InstrsFacts DEF MergeInv, Instrs
  <2> QED BY <2>1, LastExists
<1>2. PICK s \in Succs(deps, i) : s \notin visited
  BY <1>1 DEF Waiting
<1>3. <<i, s>> \in deps /\ s \in Instrs
  BY DEF Succs
<1>4. i < s /\ s <= i
  BY <1>1, <1>2, <1>3 DEF MergeInv, EdgeFits
<1> QED BY <1>3, <1>4, InstrsFacts DEF MergeInv
-----------------------------------------------------------------------------
(* The invariant.                                                          *)

LEMMA CombineInitial == CombineAssumption /\ Init => CombineInv
<1> SUFFICES ASSUME CombineAssumption, Init PROVE CombineInv
  OBVIOUS
<1>1. block \in Blocks /\ pc = "deps" /\ cur = 1 /\ deps = {}
  BY DEF Init, DepInit
<1>2. IsBlock(block) /\ cur \in Instrs
  BY <1>1, BlockIs DEF Instrs
<1>3. \A i \in Instrs : ~ (i < cur)
  BY <1>1, <1>2, InstrsFacts DEF Instrs
<1>4. EdgesInv
  BY <1>1, <1>2, <1>3 DEF EdgesInv
<1> QED BY <1>1, <1>4 DEF Init, CombineInv, FreshInv

\* The walk over the instructions goes on with an instruction, or ends.
LEMMA AdvanceIs ==
  ASSUME IsBlock(block), cur \in Instrs, NEW phase, Advance(phase)
  PROVE  cur' \in Instrs /\ (pc' = pc \/ pc' = phase)
BY InstrsFacts DEF Advance, Instrs

LEMMA CombineStep == CombineAssumption /\ CombineInv /\ [Next]_vars => CombineInv'
<1> SUFFICES ASSUME CombineAssumption, CombineInv, [Next]_vars PROVE CombineInv'
  OBVIOUS
<1>1. CASE Analyse
  <2>1. FreshInv /\ UNCHANGED combineVars /\ block' = block
    BY <1>1 DEF Analyse, CombineInv, AddDepInstr, CalcMinDepInfo
  <2>2. EdgesInv' /\ pc' \in {"deps", "min", "schedule"}
    <3>1. CASE AddDepInstr
      <4>1. pc' = pc \/ pc' = "min"
        BY <2>1, <3>1, AdvanceIs DEF AddDepInstr, FreshInv, EdgesInv
      <4> QED BY <2>1, <3>1, <4>1, EdgesGrow DEF FreshInv, AddDepInstr
    <3>2. CASE CalcMinDepInfo
      <4>1. cur' \in Instrs /\ (pc' = pc \/ pc' = "schedule")
        BY <2>1, <3>2, AdvanceIs DEF CalcMinDepInfo, FreshInv, EdgesInv
      <4> QED BY <2>1, <3>2, <4>1, EdgesKept DEF FreshInv, CalcMinDepInfo
    <3> QED BY <1>1, <3>1, <3>2 DEF Analyse
  <2> QED BY <2>1, <2>2 DEF CombineInv, FreshInv, combineVars
<1>2. CASE CalcMaxDist
  <2>1. FreshInv /\ block' = block /\ deps' = deps /\ pc = "schedule"
        /\ bundle' = bundle /\ visited' = visited /\ order' = order
    BY <1>2 DEF CalcMaxDist, CombineInv
  <2>2. cur' \in Instrs /\ (pc' = "schedule" \/ pc' = "pull")
    BY <1>2, <2>1, AdvanceIs DEF CalcMaxDist, FreshInv, EdgesInv
  <2>3. EdgesInv'
    BY <2>1, <2>2, EdgesKept DEF FreshInv
  <2>4. FreshInv'
    BY <2>1, <2>3 DEF FreshInv
  <2>5. ASSUME pc' = "pull" PROVE MergeInv' /\ queue' = Waiting'
    <3>1. order' = <<>> /\ visited' = {} /\ IsBlock(block)' /\ (deps \subseteq Edges)'
      BY <2>4 DEF FreshInv, EdgesInv
    <3>2. Positions' = {}
      BY <3>1 DEF Positions
    <3>3. ListInv' /\ Listed' = {}
      BY <3>1, <3>2 DEF ListInv, Listed
    <3>4. (deps \subseteq Instrs \X Instrs)' /\ (\A e \in deps : EdgeFits(e))'
      BY <3>1, <3>2 DEF EdgeFits, Edges
    <3>5. queue' = Waiting'
      BY <1>2, <2>1, <2>5, <3>1 DEF CalcMaxDist, Waiting, Succs, Instrs
    <3> QED BY <3>1, <3>3, <3>4, <3>5 DEF MergeInv
  <2> QED BY <2>1, <2>2, <2>4, <2>5 DEF CombineInv
<1>3. ASSUME NEW i \in Instrs, CombineBefore(i) \/ CombineIndep(i) \/ InsertStart(i)
      PROVE  CombineInv'
  <2>1. MergeInv /\ queue = Waiting /\ pc = "pull"
    BY <1>3 DEF CombineBefore, CombineIndep, InsertStart, Ready, CombineInv
  <2>2. MergeInv' /\ queue' = Waiting'
    <3>1. CASE CombineBefore(i)
      BY <2>1, <3>1, BeforeJoins, JoinKeeps, JoinQueue
    <3>2. CASE CombineIndep(i)
      BY <2>1, <3>2, IndepJoins, JoinKeeps, JoinQueue
    <3>3. CASE InsertStart(i)
      BY <2>1, <3>3, InsertBegins, InsertKeeps, InsertQueue
    <3> QED BY <1>3, <3>1, <3>2, <3>3
  <2>3. pc' = pc /\ block' = block
    BY <1>3 DEF CombineBefore, CombineIndep, InsertStart, Pulled
  <2> QED BY <2>1, <2>2, <2>3 DEF CombineInv
<1>4. CASE Finish
  <2>1. MergeInv /\ Waiting = {} /\ queue = Waiting
    BY <1>4 DEF Finish, CombineInv
  <2>2. UNCHANGED <<block, deps, queue, visited, order>> /\ pc' = "done"
    BY <1>4 DEF Finish, combineVars
  <2>3. visited' = Instrs'
    BY <2>1, <2>2, SomebodyWaits DEF Instrs
  <2>4. MergeInv' /\ queue' = Waiting'
    BY <2>1, <2>2 DEF MergeInv, IsBlock, ListInv, EdgeFits, Listed, Positions, Instrs,
                      Waiting, Succs
  <2> QED BY <2>2, <2>3, <2>4 DEF CombineInv
<1>5. CASE UNCHANGED vars
  <2>1. UNCHANGED <<block, pc, cur, deps, queue, visited, order, bundle>>
    BY <1>5 DEF vars, depVars, combineVars
  <2>2. MergeInv' = MergeInv /\ Waiting' = Waiting /\ Instrs' = Instrs
    BY <2>1 DEF MergeInv, IsBlock, ListInv, EdgeFits, Listed, Positions, Instrs,
                Waiting, Succs
  <2>3. FreshInv' = FreshInv
    BY <2>1 DEF FreshInv, EdgesInv, IsBlock, Instrs, Edges, Direct, TrueDepsOf,
                AntiDepsOf, TempDepsOf, Remaining
  <2> QED BY <2>1, <2>2, <2>3 DEF CombineInv
<1> QED BY <1>1, <1>2, <1>3, <1>4, <1>5 DEF Next, Done

(* No edge leads to or from an instruction that was merged into another    *)
(* and deleted, and those of the list lead forward                         *)
(* (lima_pp_lir_combine_schedule_block).                                   *)
THEOREM EdgesStayInList == CombineAssumption /\ Spec => []EdgesFollowList
<1>1. CombineInv => EdgesFollowList
  <2> SUFFICES ASSUME CombineInv, pc = "pull", NEW e \in deps
               PROVE  /\ e[1] \in visited => e[1] \in ToSet(order)
                      /\ e[2] \in visited => e[2] \in ToSet(order)
                      /\ {e[1], e[2]} \subseteq visited => At(e[1]) < At(e[2])
    BY DEF EdgesFollowList
  <2>1. MergeInv /\ EdgeFits(e)
    BY DEF CombineInv, MergeInv
  <2>2. Listed = ToSet(order)
    BY DEF Listed, ToSet, Positions, CombineInv, MergeInv, ListInv
  <2>3. ASSUME e[1] \in visited, e[2] \in visited PROVE At(e[1]) < At(e[2])
    <3>1. PICK k \in Positions : order[k] = e[1]
      BY <2>1, <2>3 DEF EdgeFits, Listed
    <3>2. PICK l \in Positions : order[l] = e[2]
      BY <2>1, <2>3 DEF EdgeFits, Listed
    <3>3. k < l
      BY <2>1, <3>1, <3>2 DEF EdgeFits
    <3>4. At(order[k]) = k /\ At(order[l]) = l
      BY <2>1, AtIs DEF MergeInv
    <3> QED BY <3>1, <3>2, <3>3, <3>4
  <2> QED BY <2>1, <2>2, <2>3 DEF EdgeFits
<1> SUFFICES ASSUME CombineAssumption PROVE Spec => []EdgesFollowList
  OBVIOUS
<1>2. (Init => CombineInv) /\ (CombineInv /\ [Next]_vars => CombineInv')
  BY CombineInitial, CombineStep
<1> QED BY <1>1, <1>2, PTL DEF Spec

-----------------------------------------------------------------------------
(* Where the operations go.                                                *)

\* The operations of the block, and what is where they have been brought: to
\* the slot t[o] of the instruction w[n], for those of the n-th instruction.
Ops == {o \in Instrs \X (1..10) : o[2] \in Used(block[o[1]])}
Was(o) == block[o[1]].ops[o[2]]
Now(w, t, o) == bundle[w[o[1]]].ops[t[o]]

SameOp(a, b) == a.name = b.name /\ a.args = b.args /\ a.writes = b.writes /\ a.temp = b.temp

\* 4 and 5 run in parallel, and so do 6 and 7.
RunsBefore(s, t) == s < t /\ ~ (s = 4 /\ t = 5) /\ ~ (s = 6 /\ t = 7)

\* An instruction of the list consists of the operations that were brought to
\* it, each in a slot of its own that can run it.
Arrived(w, t) ==
  /\ \A x \in Listed : Used(bundle[x]) = {t[o] : o \in {p \in Ops : w[p[1]] = x}}
  /\ \A o, p \in Ops : o # p /\ w[o[1]] = w[p[1]] => t[o] # t[p]
  /\ \A o \in Ops : SameOp(Now(w, t, o), Was(o))
  /\ \A o \in Ops : t[o] = o[2] \/ (o[2] \in Alu /\ t[o] \in Alu \cap Was(o).possible)

\* Of two operations that may not change places, the first one runs first.
InTurn(w, t) ==
  \A o, p \in Ops :
    o[1] < p[1] /\ ~ can_swap(Was(o), Was(p)) =>
      \/ At(w[o[1]]) < At(w[p[1]])
      \/ w[o[1]] = w[p[1]] /\ RunsBefore(t[o], t[p])

OpsKept ==
  pc = "done" =>
    \E w \in [Instrs -> ToSet(order)], t \in [Ops -> 1..10] : Arrived(w, t) /\ InTurn(w, t)

\* While the list is made: those to come are as they were.
Homes(w, t) ==
  /\ w \in [Instrs -> Instrs] /\ t \in [Ops -> 1..10]
  /\ DOMAIN bundle = Instrs /\ \A x \in Instrs : "ops" \in DOMAIN bundle[x]
  /\ \A i \in Instrs \ visited : w[i] = i /\ bundle[i] = block[i]
  /\ \A i \in visited : w[i] \in Listed
  /\ \A x \in Listed : w[x] = x
  /\ \A o \in Ops : o[1] \notin visited => t[o] = o[2]

InTurnSoFar(w, t) ==
  \A o, p \in Ops :
    o[1] \in visited /\ o[1] < p[1] /\ ~ can_swap(Was(o), Was(p)) =>
      /\ p[1] \in visited
      /\ \A k, l \in Positions : order[k] = w[o[1]] /\ order[l] = w[p[1]] =>
           k < l \/ (k = l /\ RunsBefore(t[o], t[p]))

\* Conflicts between instructions are paths between where they are now.
PathsCover(w) ==
  \A a, b \in Instrs :
    a < b /\ Conflict(block[a], block[b]) =>
      /\ a \in visited => b \in visited
      /\ a \notin visited => w[b] \in Reached(deps, a)

History(w, t) == Homes(w, t) /\ Arrived(w, t) /\ InTurnSoFar(w, t) /\ PathsCover(w)

OpsInv == pc \in {"pull", "done"} /\ EndsApart(block) => \E w, t : History(w, t)

-----------------------------------------------------------------------------
(* Operations that may not change places make their instructions conflict  *)
(* (lima_pp_lir_instr_can_swap against the reads and writes of dep_info.c).*)
LEMMA OpsConflict ==
  ASSUME NEW x, NEW y, IsBundle(x), IsBundle(y), NEW s \in Used(x), NEW u \in Used(y),
         ~ can_swap(x.ops[s], y.ops[u])
  PROVE  Conflict(x, y)
<1>1. s \in DOMAIN x.slots /\ u \in DOMAIN y.slots
  BY DEF IsBundle
<1>2. /\ x.ops[s].writes \subseteq WriteRegs(x) /\ ReadsOf(x.ops[s]) \subseteq Reads(x)
      /\ y.ops[u].writes \subseteq WriteRegs(y) /\ ReadsOf(y.ops[u]) \subseteq Reads(y)
  BY <1>1 DEF IsBundle, WriteRegs, Reads
<1>3. CASE x.ops[s].writes \cap (ReadsOf(y.ops[u]) \cup y.ops[u].writes) # {}
  BY <1>2, <1>3 DEF Conflict
<1>4. CASE y.ops[u].writes \cap ReadsOf(x.ops[s]) # {}
  BY <1>2, <1>4 DEF Conflict
<1>5. CASE x.ops[s].temp = "store" /\ y.ops[u].temp # "none"
  BY <1>5 DEF Conflict, IsBundle
<1>6. CASE y.ops[u].temp = "store" /\ x.ops[s].temp # "none"
  BY <1>6 DEF Conflict, IsBundle
<1> QED BY <1>3, <1>4, <1>5, <1>6 DEF can_swap

(* Paths, when i is merged into another instruction: what they join is     *)
(* still joined, under its new name (combine_deps).                        *)
LEMMA RenamedPath ==
  ASSUME NEW E \in SUBSET (Instrs \X Instrs), NEW i, NEW into \in Instrs, NEW a \in Instrs,
         NEW x \in Reached(E, a)
  PROVE  \/ NameOf(i, into, x) = NameOf(i, into, a)
         \/ NameOf(i, into, x) \in Reached(combine_deps(E, i, into), NameOf(i, into, a))
<1> DEFINE F == combine_deps(E, i, into)
           n(y) == NameOf(i, into, y)
           S == {y \in Instrs : n(y) = n(a) \/ n(y) \in Reached(F, n(a))}
<1>1. ASSUME NEW y \in Instrs, NEW z \in Succs(E, y)
      PROVE  z \in Instrs /\ (n(z) = n(y) \/ n(z) \in Succs(F, n(y)))
  <2>1. <<y, z>> \in E /\ z \in Instrs /\ n(z) \in Instrs
    BY DEF Succs, NameOf
  <2>2. <<n(y), n(z)>> # <<into, into>> => <<n(y), n(z)>> \in F
    BY <2>1, CombinedEdges
  <2> QED BY <2>1, <2>2 DEF Succs
<1>2. Succs(F, n(a)) \subseteq Reached(F, n(a)) /\ Closed(F, Reached(F, n(a)))
  BY ReachedClosed
<1>3. Succs(E, a) \subseteq S
  <2> HIDE DEF F, n
  <2> QED BY <1>1, <1>2
<1>4. Closed(E, S)
  <2> SUFFICES ASSUME NEW y \in S, NEW z \in Succs(E, y) PROVE z \in S
    BY DEF Closed
  <2>1. z \in Instrs /\ (n(z) = n(y) \/ n(z) \in Succs(F, n(y)))
    BY <1>1
  <2>2. CASE n(z) = n(y)
    BY <2>1, <2>2
  <2>3. CASE n(z) \in Succs(F, n(y))
    <3> HIDE DEF F, n
    <3> QED BY <1>2, <2>1, <2>3 DEF Closed
  <2> QED BY <2>1, <2>2, <2>3
<1>5. Reached(E, a) \subseteq S
  <2> HIDE DEF S
  <2>1. S \in SUBSET Instrs
    BY DEF S
  <2> QED BY <1>3, <1>4, <2>1, ReachedLeast
<1> QED BY <1>5

\* No path leads from an instruction to come back to it.
LEMMA NoWayBack ==
  ASSUME MergeInv, NEW a \in Instrs, a \notin visited
  PROVE  a \notin Reached(deps, a)
<1> DEFINE S == {x \in Instrs : x \in visited \/ a < x}
<1>1. Instrs \subseteq Nat
  BY InstrsFacts DEF MergeInv
<1>2. ASSUME NEW x \in S \cup {a}, NEW y \in Succs(deps, x) PROVE y \in S
  <2>1. <<x, y>> \in deps /\ x \in Instrs /\ y \in Instrs
    BY DEF Succs
  <2>2. EdgeFits(<<x, y>>)
    BY <2>1 DEF MergeInv
  <2>3. CASE y \in visited
    BY <2>1, <2>3
  <2>4. CASE y \notin visited
    <3>1. x < y /\ x \notin visited
      BY <2>2, <2>4 DEF EdgeFits
    <3> QED BY <1>1, <2>1, <3>1
  <2> QED BY <2>3, <2>4
<1>3. Succs(deps, a) \subseteq S /\ Closed(deps, S) /\ S \in SUBSET Instrs
  BY <1>2 DEF Closed
<1>4. Reached(deps, a) \subseteq S
  <2> HIDE DEF S
  <2> QED BY <1>3, ReachedLeast
<1> QED BY <1>1, <1>4

(* All that an instruction that is ready leads to is in the list, and not  *)
(* in front of its first successor.                                        *)
LEMMA AllBehind ==
  ASSUME MergeInv, NEW i \in Waiting
  PROVE  /\ Reached(deps, i) \subseteq visited
         /\ \A k \in Positions : order[k] \in Reached(deps, i) => LatestSucc(i) <= k
<1> DEFINE S == {x \in visited : \A k \in Positions : order[k] = x => LatestSucc(i) <= k}
<1>1. visited \subseteq Instrs /\ Len(order) \in Nat
  BY DEF MergeInv, ListInv
<1>2. /\ LatestSucc(i) \in 1..(Len(order) + 1)
      /\ \A k \in Positions : order[k] \in Succs(deps, i) => LatestSucc(i) <= k
  BY LatestSuccIs
<1>3. Succs(deps, i) \subseteq S
  BY <1>2 DEF Waiting
<1>4. ASSUME NEW x \in S, NEW y \in Succs(deps, x) PROVE y \in S
  <2>1. <<x, y>> \in deps
    BY DEF Succs
  <2>2. EdgeFits(<<x, y>>)
    BY <2>1 DEF MergeInv
  <2>3. y \in visited /\ x \in Listed
    BY <2>2 DEF EdgeFits
  <2>4. PICK k \in Positions : order[k] = x
    BY <2>3 DEF Listed
  <2>5. ASSUME NEW l \in Positions, order[l] = y PROVE LatestSucc(i) <= l
    <3>1. k < l /\ LatestSucc(i) <= k
      BY <2>2, <2>4, <2>5 DEF EdgeFits
    <3> QED BY <1>1, <1>2, <3>1 DEF Positions
  <2> QED BY <2>3, <2>5
<1>5. S \in SUBSET Instrs /\ Closed(deps, S)
  BY <1>1, <1>4 DEF Closed
<1>6. Reached(deps, i) \subseteq S
  <2> HIDE DEF S
  <2> QED BY <1>3, <1>5, ReachedLeast
<1> QED BY <1>6

-----------------------------------------------------------------------------
(* The slots found for the ALU operations of an instruction.               *)

LEMMA MinIs ==
  ASSUME NEW n \in Nat, NEW U \in SUBSET (1..n), U # {}
  PROVE  Min(U) \in U /\ \A k \in U : Min(U) <= k
<1>1. \E m \in U : \A k \in U : m <= k
  BY FirstExists
<1> QED BY <1>1 DEF Min

LEMMA MaxIs ==
  ASSUME NEW n \in Nat, NEW U \in SUBSET (1..n), U # {}
  PROVE  Max(U) \in U /\ \A k \in U : k <= Max(U)
<1>1. \E m \in U : \A k \in U : m >= k
  <2>1. PICK m \in U : \A k \in U : k <= m
    BY LastExists
  <2> QED BY <2>1
<1> QED BY <1>1 DEF Max

\* A map for the operations from a slot on: to free slots, one behind the
\* other, in front of whatever they may not change places with.
FitsFrom(at, old, new, from, limits) ==
  /\ DOMAIN at \subseteq Used(old) \cap (from..8)
  /\ \A s \in DOMAIN at : /\ at[s] \in Alu \ Used(new)
                          /\ at[s] = s \/ at[s] \in old.ops[s].possible
  /\ \A s, u \in DOMAIN at : s < u => at[s] < at[u]
  /\ limits => \A s \in DOMAIN at : \A u \in Used(new) \cap Alu :
                 ~ can_swap(old.ops[s], new.ops[u]) => RunsBefore(at[s], u)

\* The slot that op must be in front of keeps it in front of all conflicts,
\* as the operation that has `end' is in a slot that was free.
LEMMA LimitIs ==
  ASSUME NEW new, NEW op, NEW end \in 4..9, end \notin Used(new) \cap Alu
  PROVE  /\ Limit(new, op, end) \in 4..9 /\ Limit(new, op, end) <= end
         /\ \A p \in Alu : p < Limit(new, op, end) =>
              \A u \in Used(new) \cap Alu : ~ can_swap(op, new.ops[u]) => RunsBefore(p, u)
<1> DEFINE C == {s \in Alu : s < end /\ InConflict(new, s, op)}
           first == Min({end} \cup C)
<1>1. first \in {end} \cup C /\ \A k \in {end} \cup C : first <= k
  <2>1. {end} \cup C \in SUBSET (1..9) /\ {end} \cup C # {}
    BY DEF Alu
  <2> HIDE DEF C
  <2> QED BY <2>1, MinIs
<1>2. Limit(new, op, end) = IF first \in {5, 7} /\ InConflict(new, first, op)
                            THEN first - 1 ELSE first
  BY DEF Limit
<1>3. first \in 4..9 /\ first <= end
  BY <1>1 DEF Alu
<1>4. Limit(new, op, end) \in 4..9 /\ Limit(new, op, end) <= first
  <2> HIDE DEF first
  <2> QED BY <1>2, <1>3
<1>5. ASSUME NEW p \in Alu, p < Limit(new, op, end),
             NEW u \in Used(new) \cap Alu, ~ can_swap(op, new.ops[u])
      PROVE  RunsBefore(p, u)
  <2>1. InConflict(new, u, op) /\ u # end /\ u \in 4..8 /\ p \in 4..8
    BY <1>5 DEF InConflict, Alu
  <2>2. CASE u < end
    <3>1. first <= u /\ first \in C
      BY <1>1, <1>3, <2>1, <2>2 DEF Alu
    <3>2. InConflict(new, first, op)
      BY <3>1
    <3> HIDE DEF first
    <3> QED BY <1>2, <1>3, <1>5, <2>1, <3>1, <3>2 DEF RunsBefore
  <2>3. CASE end < u
    <3> HIDE DEF first
    <3> QED BY <1>3, <1>4, <1>5, <2>1, <2>3 DEF RunsBefore
  <2> QED BY <2>1, <2>2, <2>3
<1>6. Limit(new, op, end) <= end
  <2> HIDE DEF first
  <2> QED BY <1>3, <1>4
<1> QED BY <1>4, <1>5, <1>6

LEMMA PlaceAluFits ==
  ASSUME NEW old, NEW new, NEW limits \in BOOLEAN, NEW slot \in 4..8, NEW later,
         FitsFrom(later, old, new, slot + 1, limits)
  PROVE  FitsFrom(PlaceAlu(old, new, limits, slot, later), old, new, slot, limits)
<1> DEFINE T == {later[s] : s \in DOMAIN later}
           end == LaterEnd(later)
           limit == AluLimit(old, new, limits, slot, later)
           places == Places(old, new, slot, limit)
           at == PlaceAlu(old, new, limits, slot, later)
<1>0. at = IF slot \notin Used(old) \/ places = {} THEN later
           ELSE [s \in {slot} \cup DOMAIN later |-> IF s = slot THEN Max(places) ELSE later[s]]
  BY DEF PlaceAlu
<1>1. T \subseteq Alu /\ T \cap Used(new) = {}
  BY DEF FitsFrom
<1>2. end \in {9} \cup T /\ \A k \in {9} \cup T : end <= k
  <2> SUFFICES Min({9} \cup T) \in {9} \cup T /\ \A k \in {9} \cup T : Min({9} \cup T) <= k
    BY DEF LaterEnd
  <2>1. {9} \cup T \in SUBSET (1..9) /\ {9} \cup T # {}
    BY <1>1 DEF Alu
  <2> HIDE DEF T
  <2> QED BY <2>1, MinIs
<1>3. CASE slot \notin Used(old) \/ places = {}
  <2>1. at = later
    <3> HIDE DEF at, places
    <3> QED BY <1>0, <1>3
  <2>2. DOMAIN later \subseteq Used(old) \cap (slot..8)
    <3>1. DOMAIN later \subseteq Used(old) \cap ((slot + 1)..8)
      BY DEF FitsFrom
    <3>2. (slot + 1)..8 \subseteq slot..8
      OBVIOUS
    <3> QED BY <3>1, <3>2
  <2>3. FitsFrom(later, old, new, slot, limits)
    BY <2>2 DEF FitsFrom
  <2> QED BY <2>1, <2>3
<1>4. CASE slot \in Used(old) /\ places # {}
  <2> DEFINE top == Max(places)
  <2>1. at = [s \in {slot} \cup DOMAIN later |-> IF s = slot THEN top ELSE later[s]]
    <3> HIDE DEF at, places
    <3> QED BY <1>0, <1>4
  <2>2. end \in 4..9 /\ end \notin Used(new) \cap Alu
    <3>1. end = 9 \/ (end \in Alu /\ end \notin Used(new))
      <4> HIDE DEF end, T
      <4> QED BY <1>1, <1>2
    <3> HIDE DEF end
    <3> QED BY <3>1 DEF Alu
  <2>3. /\ limit \in 4..9 /\ limit <= end
        /\ limits => \A p \in Alu : p < limit =>
             \A u \in Used(new) \cap Alu :
               ~ can_swap(old.ops[slot], new.ops[u]) => RunsBefore(p, u)
    <3>1. CASE limits
      <4>1. limit = Limit(new, old.ops[slot], end)
        BY <3>1 DEF AluLimit
      <4> QED BY <2>2, <3>1, <4>1, LimitIs
    <3>2. CASE ~ limits
      <4>1. limit = end
        BY <3>2 DEF AluLimit
      <4> HIDE DEF limit
      <4> QED BY <2>2, <3>2, <4>1
    <3> QED BY <3>1, <3>2
  <2>4. top \in places
    <3>1. places \in SUBSET (1..9)
      BY DEF Places, Alu
    <3> HIDE DEF places
    <3> QED BY <1>4, <3>1, MaxIs
  <2>5. /\ top \in Alu \ Used(new) /\ top < limit
        /\ top = slot \/ top \in old.ops[slot].possible
    <3> HIDE DEF limit, top
    <3> QED BY <2>4 DEF Places
  <2>6. slot \notin DOMAIN later /\ DOMAIN later \subseteq Used(old) \cap ((slot + 1)..8)
    BY DEF FitsFrom
  <2>7. \A s \in DOMAIN later : top < later[s]
    <3> TAKE s \in DOMAIN later
    <3>1. end <= later[s] /\ later[s] \in Alu
      BY <1>1, <1>2
    <3> HIDE DEF end, limit, top
    <3> QED BY <2>2, <2>3, <2>5, <3>1 DEF Alu
  <2> HIDE DEF top, limit, at
  <2>8. DOMAIN at = {slot} \cup DOMAIN later /\ at[slot] = top
        /\ \A s \in DOMAIN later : at[s] = later[s]
    BY <2>1, <2>6
  <2>9. DOMAIN at \subseteq Used(old) \cap (slot..8)
    BY <1>4, <2>6, <2>8
  <2>10. \A s \in DOMAIN at : /\ at[s] \in Alu \ Used(new)
                              /\ at[s] = s \/ at[s] \in old.ops[s].possible
    BY <2>5, <2>8 DEF FitsFrom
  <2>11. \A s, u \in DOMAIN at : s < u => at[s] < at[u]
    BY <2>6, <2>7, <2>8 DEF FitsFrom
  <2>12. limits => \A s \in DOMAIN at : \A u \in Used(new) \cap Alu :
                     ~ can_swap(old.ops[s], new.ops[u]) => RunsBefore(at[s], u)
    BY <2>3, <2>5, <2>8 DEF FitsFrom
  <2> QED BY <2>9, <2>10, <2>11, <2>12 DEF FitsFrom, at
<1> QED BY <1>3, <1>4

(* The whole map (the loop of lima_pp_lir_instr_combine_before and _indep, *)
(* from the last slot to the first).                                       *)
LEMMA AluMapFits ==
  ASSUME NEW old, NEW new, NEW limits \in BOOLEAN
  PROVE  FitsFrom(AluMap(old, new, limits), old, new, 4, limits)
<1> DEFINE place(slot, later) == PlaceAlu(old, new, limits, slot, later)
           a8 == place(8, <<>>)
           a7 == place(7, a8)
           a6 == place(6, a7)
           a5 == place(5, a6)
<1>1. FitsFrom(<<>>, old, new, 9, limits)
  BY DEF FitsFrom
<1>2. \A slot \in 4..8 : \A later :
        FitsFrom(later, old, new, slot + 1, limits)
          => FitsFrom(place(slot, later), old, new, slot, limits)
  BY PlaceAluFits
<1>3. FitsFrom(a8, old, new, 8, limits)
  BY <1>1, <1>2
<1> HIDE DEF a8
<1>4. FitsFrom(a7, old, new, 7, limits)
  BY <1>2, <1>3
<1> HIDE DEF a7
<1>5. FitsFrom(a6, old, new, 6, limits)
  BY <1>2, <1>4
<1> HIDE DEF a6
<1>6. FitsFrom(a5, old, new, 5, limits)
  BY <1>2, <1>5
<1> HIDE DEF a5
<1>7. FitsFrom(place(4, a5), old, new, 4, limits)
  BY <1>2, <1>6
<1> QED BY <1>7 DEF AluMap, a5, a6, a7, a8

-----------------------------------------------------------------------------
(* What a merge does to the two instructions.                              *)

\* Where the operation of slot s goes.
To(at, s) == IF s \in Alu THEN at[s] ELSE s

\* Every operation gets a slot of its own that can run it.
Housed(at, old) ==
  /\ \A s \in Used(old) : /\ To(at, s) \in 1..10
                          /\ To(at, s) = s \/ (s \in Alu /\ To(at, s) \in Alu \cap old.ops[s].possible)
  /\ \A s, u \in Used(old) : s # u => To(at, s) # To(at, u)

LEMMA AluHoused ==
  ASSUME NEW old, IsBundle(old), NEW new, NEW limits \in BOOLEAN, AluFits(old, new, limits)
  PROVE  /\ Housed(AluMap(old, new, limits), old)
         /\ \A s \in Used(old) \cap Alu : To(AluMap(old, new, limits), s) \in Alu \ Used(new)
<1> DEFINE at == AluMap(old, new, limits)
<1>1. FitsFrom(at, old, new, 4, limits)
  BY AluMapFits
<1>2. DOMAIN at = Used(old) \cap Alu
  BY DEF AluFits
<1> HIDE DEF at
<1>3. \A s \in Used(old) : s \in 1..10
  BY DEF IsBundle
<1>4. ASSUME NEW s \in Used(old) \cap Alu
      PROVE  /\ To(at, s) = at[s] /\ at[s] \in Alu \ Used(new) /\ at[s] \in 1..10
             /\ at[s] = s \/ at[s] \in old.ops[s].possible
  <2>1. s \in DOMAIN at
    BY <1>2
  <2>2. at[s] \in Alu \ Used(new) /\ (at[s] = s \/ at[s] \in old.ops[s].possible)
    BY <1>1, <2>1 DEF FitsFrom
  <2> QED BY <2>2 DEF To, Alu
<1>5. ASSUME NEW s \in Used(old) \ Alu PROVE To(at, s) = s
  BY DEF To
<1>6. ASSUME NEW s \in Used(old), NEW u \in Used(old), s < u PROVE To(at, s) # To(at, u)
  <2>1. CASE s \in Alu /\ u \in Alu
    <3>1. at[s] < at[u]
      BY <1>1, <1>2, <1>6, <2>1 DEF FitsFrom
    <3> QED BY <1>4, <2>1, <3>1 DEF Alu
  <2>2. CASE ~ (s \in Alu /\ u \in Alu)
    BY <1>3, <1>4, <1>5, <1>6, <2>2
  <2> QED BY <2>1, <2>2
<1>7. ASSUME NEW s \in Used(old), NEW u \in Used(old), s # u PROVE To(at, s) # To(at, u)
  <2>1. s < u \/ u < s
    BY <1>3, <1>7
  <2> QED BY <1>6, <2>1
<1>8. Housed(at, old)
  BY <1>3, <1>4, <1>5, <1>7 DEF Housed
<1> QED BY <1>4, <1>8 DEF at

(* combine_before leaves every operation in front of what it may not       *)
(* change places with, and takes no slot that is in use.                   *)
LEMMA BeforeIsInFront ==
  ASSUME NEW old, IsBundle(old), NEW new, Used(new) \subseteq 1..10, BeforeFits(old, new)
  PROVE  \A s \in Used(old) :
           LET to == To(AluMap(old, new, TRUE), s)
           IN  /\ to \notin Used(new)
               /\ \A u \in Used(new) : ~ can_swap(old.ops[s], new.ops[u]) => RunsBefore(to, u)
<1> DEFINE at == AluMap(old, new, TRUE)
<1>1. FitsFrom(at, old, new, 4, TRUE) /\ DOMAIN at = Used(old) \cap Alu
  BY AluMapFits DEF BeforeFits, AluFits
<1>2. \A s \in Used(old) \cap Alu : To(at, s) \in Alu \ Used(new)
  BY AluHoused DEF BeforeFits
<1> HIDE DEF at
<1>3. ASSUME NEW s \in Used(old) \cap Alu, NEW u \in Used(new), ~ can_swap(old.ops[s], new.ops[u])
      PROVE  RunsBefore(To(at, s), u)
  <2>1. u \notin 1..3 /\ u \in 1..10
    BY <1>3 DEF BeforeFits
  <2>2. CASE u \in Alu
    BY <1>1, <1>3, <2>2 DEF FitsFrom, To
  <2>3. CASE u \notin Alu
    BY <1>2, <2>1, <2>3 DEF Alu, RunsBefore
  <2> QED BY <2>2, <2>3
<1>4. ASSUME NEW s \in Used(old) \ Alu
      PROVE  /\ To(at, s) = s /\ s \notin Used(new)
             /\ \A u \in Used(new) : ~ can_swap(old.ops[s], new.ops[u]) => RunsBefore(s, u)
  <2>1. To(at, s) = s /\ s \notin Used(new) /\ s \in 1..10
    BY DEF To, BeforeFits, IsBundle
  <2>2. ASSUME NEW u \in Used(new), ~ can_swap(old.ops[s], new.ops[u]) PROVE RunsBefore(s, u)
    <3>1. ~ (u < s) /\ u # s /\ u \in 1..10
      BY <2>1, <2>2 DEF BeforeFits
    <3> QED BY <2>1, <3>1 DEF RunsBefore, Alu
  <2> QED BY <2>1, <2>2
<1> QED BY <1>2, <1>3, <1>4 DEF at

\* combine_indep takes no slot of the ALU that is in use, nor one of a load.
LEMMA IndepIsFree ==
  ASSUME NEW old, IsBundle(old), NEW new, IndepFits(old, new),
         NEW s \in Used(old), s \notin {9, 10}
  PROVE  To(AluMap(old, new, FALSE), s) \notin Used(new)
<1>1. CASE s \in Alu
  BY <1>1, AluHoused DEF IndepFits
<1>2. CASE s \notin Alu
  BY <1>2 DEF IndepFits, IsBundle, To, Alu
<1> QED BY <1>1, <1>2

\* The instruction that is left has the operations of both.
LEMMA MergedOps ==
  ASSUME NEW old, IsBundle(old), NEW new, "ops" \in DOMAIN new, NEW at, NEW m, NEW junk,
         Housed(at, old), \A s \in Used(old) : To(at, s) \notin Used(new)
  PROVE  LET made == Merged(old, new, at, m, junk)
         IN  /\ "ops" \in DOMAIN made
             /\ Used(made) = Used(new) \cup {To(at, s) : s \in Used(old)}
             /\ \A s \in Used(old) : SameOp(made.ops[To(at, s)], old.ops[s])
             /\ \A u \in Used(new) : made.ops[u] = new.ops[u]
<1> DEFINE to == [s \in Used(old) |-> IF s \in Alu THEN at[s] ELSE s]
           came == {to[s] : s \in Used(old)}
           op(t) == [rewrite_consts(old.ops[CHOOSE s \in Used(old) : to[s] = t], new, old, m, junk)
                       EXCEPT !.possible = {}]
           ops == [t \in Used(new) \cup came |-> IF t \in came THEN op(t) ELSE new.ops[t]]
           made == Merged(old, new, at, m, junk)
<1>1. \A s \in Used(old) : to[s] = To(at, s)
  BY DEF To
<1>2. came = {To(at, s) : s \in Used(old)}
  BY <1>1
<1>3. DOMAIN made = DOMAIN new /\ made.ops = ops
  BY DEF Merged
<1>4. ASSUME NEW s \in Used(old) PROVE SameOp(op(to[s]), old.ops[s])
  <2>1. (CHOOSE u \in Used(old) : to[u] = to[s]) = s
    <3> HIDE DEF to
    <3> QED BY <1>1 DEF Housed
  <2>2. PICK x : x = old.ops[s]
    OBVIOUS
  <2>3. {"name", "args", "writes", "temp"} \subseteq DOMAIN x
    BY <2>2 DEF IsBundle
  <2>4. op(to[s]) = [rewrite_consts(x, new, old, m, junk) EXCEPT !.possible = {}]
    <3> HIDE DEF to
    <3> QED BY <2>1, <2>2
  <2>5. PICK c : rewrite_consts(x, new, old, m, junk) = [x EXCEPT !.consts = c]
    BY DEF rewrite_consts
  <2>6. PICK y : y = [x EXCEPT !.consts = c]
    OBVIOUS
  <2>7. SameOp(y, x) /\ DOMAIN y = DOMAIN x
    BY <2>3, <2>6 DEF SameOp
  <2>8. SameOp([y EXCEPT !.possible = {}], y)
    BY <2>3, <2>7 DEF SameOp
  <2> QED BY <2>2, <2>4, <2>5, <2>6, <2>7, <2>8 DEF SameOp
<1> HIDE DEF op, to
<1>5. \A s \in Used(old) : made.ops[to[s]] = op(to[s])
  BY <1>3
<1>6. \A u \in Used(new) : made.ops[u] = new.ops[u]
  BY <1>2, <1>3
<1>7. Used(made) = Used(new) \cup came
  BY <1>3 DEF Used
<1> HIDE DEF made
<1>8. "ops" \in DOMAIN made /\ \A s \in Used(old) : SameOp(made.ops[To(at, s)], old.ops[s])
  BY <1>1, <1>3, <1>4, <1>5
<1> QED BY <1>2, <1>6, <1>7, <1>8 DEF made

-----------------------------------------------------------------------------
(* How a merge carries the history on.                                     *)

\* i joins the m-th instruction of the list, with its operations where `at'
\* says: in slots that are free and, if its first successor is there, in
\* front of those of that one that they must not come behind.
Moved(i, m, at) ==
  LET into == order[m]
  IN  /\ DOMAIN bundle' = Instrs
      /\ \A x \in Instrs : x # into => bundle'[x] = bundle[x]
      /\ "ops" \in DOMAIN bundle'[into]
      /\ Used(bundle'[into]) = Used(bundle[into]) \cup {To(at, s) : s \in Used(block[i])}
      /\ \A s \in Used(block[i]) : SameOp(bundle'[into].ops[To(at, s)], block[i].ops[s])
      /\ \A u \in Used(bundle[into]) : bundle'[into].ops[u] = bundle[into].ops[u]
      /\ Housed(at, block[i])
      /\ \A s \in Used(block[i]) : To(at, s) \notin Used(bundle[into])
      /\ \/ m < LatestSucc(i)
         \/ /\ m = LatestSucc(i)
            /\ \A s \in Used(block[i]) : \A u \in Used(bundle[into]) :
                 ~ can_swap(block[i].ops[s], bundle[into].ops[u]) => RunsBefore(To(at, s), u)

\* The new whereabouts of the operations.
NextWord(w, i, m) == [w EXCEPT ![i] = order[m]]
NextSlot(t, i, at) == [o \in Ops |-> IF o[1] = i THEN To(at, o[2]) ELSE t[o]]

\* All that is known when i joins.
Joining(i, m, at, w, t, w2, t2) ==
  /\ CombineAssumption /\ block \in Blocks /\ MergeInv
  /\ i \in Instrs /\ m \in Positions /\ Joins(i, m) /\ Moved(i, m, at)
  /\ History(w, t) /\ w2 = NextWord(w, i, m) /\ t2 = NextSlot(t, i, at)

LEMMA JoinFacts ==
  ASSUME NEW i, NEW m, NEW at, NEW w, NEW t, NEW w2, NEW t2, Joining(i, m, at, w, t, w2, t2)
  PROVE  /\ i \notin visited /\ visited' = visited \cup {i} /\ i \notin Listed
         /\ order[m] \in Listed /\ order[m] \in visited /\ order[m] \in Instrs /\ order[m] # i
         /\ Instrs' = Instrs /\ Positions' = Positions /\ Listed' = Listed /\ Ops' = Ops
         /\ \A o : Was(o)' = Was(o)
         /\ w2[i] = order[m] /\ w2 \in [Instrs -> Instrs] /\ w[i] = i
         /\ \A j \in Instrs : j # i => w2[j] = w[j] /\ w[j] # i
         /\ \A o \in Ops : o = <<o[1], o[2]>> /\ o[1] \in Instrs /\ o[2] \in Used(block[o[1]])
                           /\ t2[o] = (IF o[1] = i THEN To(at, o[2]) ELSE t[o])
         /\ t2 \in [Ops -> 1..10]
<1>1. i \in Instrs /\ m \in Positions /\ Joins(i, m) /\ MergeInv /\ Homes(w, t)
      /\ Moved(i, m, at)
  BY DEF Joining, History
<1>2. block' = block /\ order' = order /\ i \in Waiting /\ visited' = visited \cup {i}
  BY <1>1 DEF Joins
<1>3. Listed \subseteq visited /\ visited \subseteq Instrs
  BY <1>1 DEF MergeInv, ListInv
<1>4. i \notin visited /\ i \notin Listed /\ order[m] \in Listed
  BY <1>1, <1>2, <1>3 DEF Waiting, Listed
<1>5. Instrs' = Instrs /\ Positions' = Positions
  BY <1>2 DEF Instrs, Positions
<1>6. Listed' = Listed /\ Ops' = Ops /\ \A o : Was(o)' = Was(o)
  BY <1>2, <1>5 DEF Listed, Ops, Was
<1>7. \A j \in Instrs : j # i => w[j] # i
  BY <1>3, <1>4, <1>1 DEF Homes
<1>8. w2 = [w EXCEPT ![i] = order[m]] /\ w \in [Instrs -> Instrs] /\ w[i] = i
  BY <1>1, <1>4 DEF Joining, NextWord, Homes
<1>9. w2[i] = order[m] /\ w2 \in [Instrs -> Instrs] /\ \A j \in Instrs : j # i => w2[j] = w[j]
  BY <1>1, <1>3, <1>4, <1>8
<1>10. \A o \in Ops : o = <<o[1], o[2]>> /\ o[1] \in Instrs /\ o[2] \in Used(block[o[1]])
  BY DEF Ops
<1>11. t2 = [o \in Ops |-> IF o[1] = i THEN To(at, o[2]) ELSE t[o]]
  BY DEF Joining, NextSlot
<1>12. \A o \in Ops : o[1] = i => To(at, o[2]) \in 1..10
  BY <1>1, <1>10 DEF Moved, Housed
<1>13. t2 \in [Ops -> 1..10]
  BY <1>1, <1>11, <1>12 DEF Homes
<1> QED BY <1>2, <1>3, <1>4, <1>5, <1>6, <1>7, <1>8, <1>9, <1>10, <1>11, <1>13

LEMMA JoinHomes ==
  ASSUME NEW i, NEW m, NEW at, NEW w, NEW t, NEW w2, NEW t2, Joining(i, m, at, w, t, w2, t2)
  PROVE  Homes(w2, t2)'
<1>1. Homes(w, t) /\ Moved(i, m, at) /\ block' = block
  BY DEF Joining, History, Joins
<1> DEFINE into == order[m]
<1>2. /\ i \notin visited /\ visited' = visited \cup {i} /\ i \notin Listed
      /\ into \in Listed /\ into \in visited /\ into \in Instrs /\ into # i
      /\ Instrs' = Instrs /\ Listed' = Listed /\ Ops' = Ops
  BY JoinFacts
<1>3. /\ w2[i] = into /\ w2 \in [Instrs -> Instrs]
      /\ \A j \in Instrs : j # i => w2[j] = w[j]
  BY JoinFacts
<1>4. /\ t2 \in [Ops -> 1..10]
      /\ \A o \in Ops : o[1] # i => t2[o] = t[o]
  BY JoinFacts
<1>5. DOMAIN bundle' = Instrs /\ \A x \in Instrs : "ops" \in DOMAIN bundle'[x]
  BY <1>1, <1>2 DEF Moved, Homes
<1>6. \A j \in Instrs \ visited' : w2[j] = j /\ bundle'[j] = block[j]
  BY <1>1, <1>2, <1>3 DEF Moved, Homes
<1>7. \A j \in visited' : w2[j] \in Listed
  <2> TAKE j \in visited'
  <2>1. j \in Instrs
    BY <1>2 DEF Joining, MergeInv, ListInv
  <2> QED BY <1>1, <1>2, <1>3, <2>1 DEF Homes
<1>8. \A x \in Listed : w2[x] = x
  <2> TAKE x \in Listed
  <2>1. x \in Instrs
    BY DEF Joining, MergeInv, ListInv
  <2> QED BY <1>1, <1>2, <1>3, <2>1 DEF Homes
<1>9. \A o \in Ops : o[1] \notin visited' => t2[o] = o[2]
  BY <1>1, <1>2, <1>4 DEF Homes
<1> QED BY <1>1, <1>2, <1>3, <1>4, <1>5, <1>6, <1>7, <1>8, <1>9 DEF Homes

LEMMA JoinArrived ==
  ASSUME NEW i, NEW m, NEW at, NEW w, NEW t, NEW w2, NEW t2, Joining(i, m, at, w, t, w2, t2)
  PROVE  Arrived(w2, t2)'
<1>1. Homes(w, t) /\ Arrived(w, t) /\ Moved(i, m, at)
  BY DEF Joining, History
<1> DEFINE into == order[m]
<1>2. /\ i \notin visited /\ i \notin Listed /\ i \in Instrs
      /\ into \in Listed /\ into \in Instrs /\ into # i
      /\ Instrs' = Instrs /\ Listed' = Listed /\ Ops' = Ops /\ \A o : Was(o)' = Was(o)
  BY JoinFacts DEF Joining
<1>3. /\ w2[i] = into /\ w[i] = i
      /\ \A j \in Instrs : j # i => w2[j] = w[j] /\ w[j] # i
  BY JoinFacts
<1>4. \A o \in Ops : o = <<o[1], o[2]>> /\ o[1] \in Instrs /\ o[2] \in Used(block[o[1]])
                     /\ t2[o] = (IF o[1] = i THEN To(at, o[2]) ELSE t[o])
  BY JoinFacts
<1>5. \A s \in Used(block[i]) : <<i, s>> \in Ops /\ t2[<<i, s>>] = To(at, s)
  <2>1. IsBundle(block[i])
    BY <1>2 DEF Joining, CombineAssumption, Instrs
  <2>2. \A s \in Used(block[i]) : <<i, s>> \in Ops
    BY <1>2, <2>1 DEF IsBundle, Ops
  <2> QED BY <1>4, <2>2
<1>6. \A o \in Ops : o[1] # i /\ w[o[1]] = into => t[o] \in Used(bundle[into])
  BY <1>1, <1>2 DEF Arrived
<1>7. ASSUME NEW x \in Listed
      PROVE  Used(bundle'[x]) = {t2[o] : o \in {p \in Ops : w2[p[1]] = x}}
  <2>1. x \in Instrs /\ Used(bundle[x]) = {t[o] : o \in {p \in Ops : w[p[1]] = x}}
    BY <1>1 DEF Arrived, Joining, MergeInv, ListInv
  <2>2. CASE x # into
    <3>1. bundle'[x] = bundle[x]
      BY <1>1, <2>1, <2>2 DEF Moved
    <3>2. {p \in Ops : w2[p[1]] = x} = {p \in Ops : w[p[1]] = x}
      BY <1>2, <1>3, <1>4, <2>2
    <3>3. \A o \in {p \in Ops : w[p[1]] = x} : t2[o] = t[o]
      BY <1>2, <1>3, <1>4
    <3> QED BY <2>1, <3>1, <3>2, <3>3
  <2>3. CASE x = into
    <3>1. Used(bundle'[into]) = Used(bundle[into]) \cup {To(at, s) : s \in Used(block[i])}
      BY <1>1 DEF Moved
    <3>2. ASSUME NEW u \in Used(bundle[into]) PROVE \E o \in Ops : w2[o[1]] = into /\ t2[o] = u
      <4>1. PICK o \in Ops : w[o[1]] = into /\ t[o] = u
        BY <2>1, <2>3, <3>2
      <4>2. o[1] # i
        BY <1>2, <1>3, <4>1
      <4> QED BY <1>3, <1>4, <4>1, <4>2
    <3>3. ASSUME NEW s \in Used(block[i]) PROVE \E o \in Ops : w2[o[1]] = into /\ t2[o] = To(at, s)
      <4>1. <<i, s>> \in Ops /\ t2[<<i, s>>] = To(at, s) /\ w2[<<i, s>>[1]] = into
        BY <1>3, <1>5
      <4> QED BY <4>1
    <3>4. ASSUME NEW o \in Ops, w2[o[1]] = into PROVE t2[o] \in Used(bundle'[into])
      <4>1. CASE o[1] = i
        BY <1>4, <3>1, <4>1
      <4>2. CASE o[1] # i
        BY <1>3, <1>4, <1>6, <3>1, <3>4, <4>2
      <4> QED BY <4>1, <4>2
    <3> QED BY <2>3, <3>1, <3>2, <3>3, <3>4
  <2> QED BY <2>2, <2>3
<1>8. ASSUME NEW o \in Ops, NEW p \in Ops, o # p, w2[o[1]] = w2[p[1]]
      PROVE  t2[o] # t2[p]
  <2>1. CASE o[1] = i /\ p[1] = i
    <3>1. o[2] # p[2] /\ o[2] \in Used(block[i]) /\ p[2] \in Used(block[i])
      BY <1>4, <1>8, <2>1
    <3>2. To(at, o[2]) # To(at, p[2])
      BY <1>1, <3>1 DEF Moved, Housed
    <3> QED BY <1>4, <2>1, <3>2
  <2>2. ASSUME NEW a \in Ops, NEW b \in Ops, a[1] = i, b[1] # i, w2[a[1]] = w2[b[1]]
        PROVE  t2[a] # t2[b]
    <3>1. t2[b] = t[b] /\ t[b] \in Used(bundle[into])
      BY <1>3, <1>4, <1>6, <2>2
    <3>2. t2[a] = To(at, a[2]) /\ a[2] \in Used(block[i])
      BY <1>4, <2>2
    <3> QED BY <1>1, <3>1, <3>2 DEF Moved
  <2>3. CASE o[1] # i /\ p[1] # i
    <3>1. w[o[1]] = w[p[1]] /\ t2[o] = t[o] /\ t2[p] = t[p]
      BY <1>3, <1>4, <1>8, <2>3
    <3> QED BY <1>1, <1>8, <3>1 DEF Arrived
  <2> QED BY <1>8, <2>1, <2>2, <2>3
<1>9. ASSUME NEW o \in Ops PROVE SameOp(bundle'[w2[o[1]]].ops[t2[o]], Was(o))
  <2>1. CASE o[1] = i
    <3>1. w2[o[1]] = into /\ t2[o] = To(at, o[2]) /\ o[2] \in Used(block[i])
      BY <1>3, <1>4, <2>1
    <3> QED BY <1>1, <2>1, <3>1 DEF Moved, Was
  <2>2. CASE o[1] # i
    <3>1. w2[o[1]] = w[o[1]] /\ t2[o] = t[o] /\ w[o[1]] \in Instrs
      BY <1>1, <1>3, <1>4, <2>2 DEF Homes
    <3>2. SameOp(bundle[w[o[1]]].ops[t[o]], Was(o))
      BY <1>1 DEF Arrived, Now
    <3>3. bundle'[w[o[1]]].ops[t[o]] = bundle[w[o[1]]].ops[t[o]]
      <4>1. CASE w[o[1]] = into
        BY <1>1, <1>6, <2>2, <4>1 DEF Moved
      <4>2. CASE w[o[1]] # into
        BY <1>1, <3>1, <4>2 DEF Moved
      <4> QED BY <4>1, <4>2
    <3> QED BY <3>1, <3>2, <3>3
  <2> QED BY <2>1, <2>2
<1>10. ASSUME NEW o \in Ops
       PROVE  t2[o] = o[2] \/ (o[2] \in Alu /\ t2[o] \in Alu \cap Was(o).possible)
  <2>1. CASE o[1] = i
    BY <1>1, <1>4, <2>1 DEF Moved, Housed, Was
  <2>2. CASE o[1] # i
    BY <1>1, <1>4, <2>2 DEF Arrived
  <2> QED BY <2>1, <2>2
<1> QED BY <1>2, <1>7, <1>8, <1>9, <1>10 DEF Arrived, Now

\* What conflicts with an instruction that is ready, and comes after it, is
\* in the list, not in front of its first successor.
LEMMA ConflictsBehind ==
  ASSUME MergeInv, NEW i \in Waiting, NEW w, NEW t, Homes(w, t), PathsCover(w),
         NEW j \in Instrs, i < j, Conflict(block[i], block[j])
  PROVE  /\ j \in visited /\ j # i
         /\ \A k \in Positions : order[k] = w[j] => LatestSucc(i) <= k
<1>1. i \in Instrs /\ i \notin visited
  BY DEF Waiting
<1>2. w[j] \in Reached(deps, i)
  BY <1>1 DEF PathsCover
<1>3. w[j] \in visited /\ \A k \in Positions : order[k] = w[j] => LatestSucc(i) <= k
  BY <1>2, AllBehind
<1>4. j \in visited
  BY <1>3 DEF Homes
<1> QED BY <1>1, <1>3, <1>4

LEMMA BundlesAre ==
  ASSUME CombineAssumption, block \in Blocks
  PROVE  /\ \A i \in Instrs : IsBundle(block[i])
         /\ DOMAIN block = Instrs
         /\ \A o \in Ops : /\ o[1] \in Instrs /\ o[2] \in Used(block[o[1]])
                           /\ o = <<o[1], o[2]>>
         /\ \A o, p \in Ops : ~ can_swap(Was(o), Was(p)) => Conflict(block[o[1]], block[p[1]])
<1>1. (\A i \in Instrs : IsBundle(block[i])) /\ DOMAIN block = Instrs
  BY DEF CombineAssumption, Instrs
<1>2. \A o \in Ops : o[1] \in Instrs /\ o[2] \in Used(block[o[1]]) /\ o = <<o[1], o[2]>>
  BY DEF Ops
<1>3. ASSUME NEW o \in Ops, NEW p \in Ops, ~ can_swap(Was(o), Was(p))
      PROVE  Conflict(block[o[1]], block[p[1]])
  BY <1>1, <1>2, <1>3, OpsConflict DEF Was
<1> QED BY <1>1, <1>2, <1>3

\* Only what an operation reads and writes says what it may change places with.
LEMMA SameSwaps ==
  ASSUME NEW a, NEW b, NEW c, SameOp(b, c)
  PROVE  can_swap(a, b) <=> can_swap(a, c)
BY DEF SameOp, can_swap, ReadsOf

LEMMA JoinInTurn ==
  ASSUME NEW i, NEW m, NEW at, NEW w, NEW t, NEW w2, NEW t2, Joining(i, m, at, w, t, w2, t2)
  PROVE  InTurnSoFar(w2, t2)'
<1>1. /\ CombineAssumption /\ block \in Blocks /\ MergeInv /\ m \in Positions
      /\ Homes(w, t) /\ Arrived(w, t) /\ InTurnSoFar(w, t) /\ PathsCover(w)
      /\ Moved(i, m, at) /\ order' = order /\ i \in Waiting
  BY DEF Joining, History, Joins
<1> DEFINE into == order[m]
<1>2. /\ i \notin visited /\ visited' = visited \cup {i} /\ i \in Instrs
      /\ Instrs' = Instrs /\ Positions' = Positions /\ Ops' = Ops /\ \A o : Was(o)' = Was(o)
      /\ into \in Listed
  BY JoinFacts DEF Joining
<1>3. /\ w2[i] = into
      /\ \A j \in Instrs : j # i => w2[j] = w[j]
  BY JoinFacts
<1>4. \A o \in Ops : o[1] \in Instrs /\ o[2] \in Used(block[o[1]])
                     /\ t2[o] = (IF o[1] = i THEN To(at, o[2]) ELSE t[o])
  BY JoinFacts
<1>5. ASSUME NEW o \in Ops, NEW p \in Ops, o[1] \in visited', o[1] < p[1],
             ~ can_swap(Was(o), Was(p))
      PROVE  /\ p[1] \in visited'
             /\ \A k, l \in Positions : order[k] = w2[o[1]] /\ order[l] = w2[p[1]] =>
                  k < l \/ (k = l /\ RunsBefore(t2[o], t2[p]))
  <2>1. CASE o[1] # i
    <3>1. o[1] \in visited /\ p[1] \in visited /\ p[1] # i
      BY <1>1, <1>2, <1>5, <2>1 DEF InTurnSoFar
    <3>2. w2[o[1]] = w[o[1]] /\ w2[p[1]] = w[p[1]] /\ t2[o] = t[o] /\ t2[p] = t[p]
      BY <1>3, <1>4, <2>1, <3>1
    <3> QED BY <1>1, <1>2, <1>5, <3>1, <3>2 DEF InTurnSoFar
  <2>2. CASE o[1] = i
    <3>1. Conflict(block[i], block[p[1]]) /\ p[1] \in Instrs
      BY <1>1, <1>4, <1>5, <2>2, BundlesAre
    <3>2. /\ p[1] \in visited /\ p[1] # i
          /\ \A k \in Positions : order[k] = w[p[1]] => LatestSucc(i) <= k
      BY <1>1, <1>5, <2>2, <3>1, ConflictsBehind
    <3>3. w2[p[1]] = w[p[1]] /\ t2[p] = t[p] /\ w2[o[1]] = into /\ t2[o] = To(at, o[2])
      BY <1>3, <1>4, <2>2, <3>1, <3>2
    <3>4. ASSUME NEW k \in Positions, NEW l \in Positions, order[k] = into, order[l] = w[p[1]]
          PROVE  k < l \/ (k = l /\ RunsBefore(To(at, o[2]), t[p]))
      <4>1. k = m /\ LatestSucc(i) <= l /\ k \in Nat /\ l \in Nat
        BY <1>1, <3>2, <3>4 DEF MergeInv, ListInv, Positions
      <4>2. LatestSucc(i) \in Nat
        BY <1>1, LatestSuccIs DEF MergeInv, ListInv
      <4>3. CASE m < LatestSucc(i)
        BY <4>1, <4>2, <4>3
      <4>4. CASE /\ m = LatestSucc(i)
                 /\ \A s \in Used(block[i]) : \A u \in Used(bundle[into]) :
                      ~ can_swap(block[i].ops[s], bundle[into].ops[u]) => RunsBefore(To(at, s), u)
        <5>1. CASE k = l
          <6>1. w[p[1]] = into
            BY <3>4, <5>1
          <6>2. t[p] \in Used(bundle[into])
            BY <1>1, <1>2, <6>1 DEF Arrived
          <6>3. SameOp(bundle[into].ops[t[p]], Was(p))
            BY <1>1, <6>1 DEF Arrived, Now
          <6>4. ~ can_swap(Was(o), bundle[into].ops[t[p]])
            BY <1>5, <6>3, SameSwaps
          <6>5. o[2] \in Used(block[i]) /\ Was(o) = block[i].ops[o[2]]
            BY <1>4, <2>2 DEF Was
          <6> QED BY <4>4, <5>1, <6>2, <6>4, <6>5
        <5>2. CASE k # l
          BY <4>1, <4>4, <5>2
        <5> QED BY <5>1, <5>2
      <4> QED BY <1>1, <4>3, <4>4 DEF Moved
    <3> QED BY <1>2, <3>2, <3>3, <3>4
  <2> QED BY <2>1, <2>2
<1> QED BY <1>1, <1>2, <1>5 DEF InTurnSoFar

LEMMA JoinPaths ==
  ASSUME NEW i, NEW m, NEW at, NEW w, NEW t, NEW w2, NEW t2, Joining(i, m, at, w, t, w2, t2)
  PROVE  PathsCover(w2)'
<1>1. /\ MergeInv /\ Homes(w, t) /\ PathsCover(w) /\ i \in Waiting
      /\ block' = block /\ deps' = combine_deps(deps, i, order[m])
  BY DEF Joining, History, Joins
<1> DEFINE into == order[m]
<1>2. /\ i \notin visited /\ visited' = visited \cup {i} /\ i \in Instrs
      /\ Instrs' = Instrs /\ into \in visited /\ into \in Instrs
  BY JoinFacts DEF Joining
<1>3. /\ w2[i] = into /\ w[i] = i /\ w2 \in [Instrs -> Instrs]
      /\ \A j \in Instrs : j # i => w2[j] = w[j] /\ w[j] # i
  BY JoinFacts
<1>4. ASSUME NEW a PROVE Reached(deps, a)' = Reached(deps', a)
  BY <1>2 DEF Reached, Closed, Succs
<1>5. ASSUME NEW a \in Instrs, NEW b \in Instrs, a < b, Conflict(block[a], block[b])
      PROVE  /\ a \in visited' => b \in visited'
             /\ a \notin visited' => w2[b] \in Reached(deps', a)
  <2>1. CASE a \in visited
    BY <1>1, <1>2, <1>5, <2>1 DEF PathsCover
  <2>2. CASE a = i
    BY <1>1, <1>2, <1>5, <2>2, ConflictsBehind
  <2>3. CASE a \notin visited /\ a # i
    <3>1. w[b] \in Reached(deps, a)
      BY <1>1, <1>5, <2>3 DEF PathsCover
    <3>2. NameOf(i, into, a) = a /\ NameOf(i, into, w[b]) = w2[b]
      BY <1>3, <2>3 DEF NameOf
    <3>3. w2[b] = a \/ w2[b] \in Reached(combine_deps(deps, i, into), a)
      <4>1. deps \in SUBSET (Instrs \X Instrs)
        BY <1>1 DEF MergeInv
      <4> QED BY <1>2, <3>1, <3>2, <4>1, RenamedPath
    <3>4. w2[b] # a
      <4>1. w[b] # a
        BY <1>1, <2>3, <3>1, NoWayBack
      <4> QED BY <1>2, <1>3, <2>3, <4>1
    <3> QED BY <1>1, <1>2, <2>3, <3>3, <3>4
  <2> QED BY <2>1, <2>2, <2>3
<1> QED BY <1>1, <1>2, <1>4, <1>5 DEF PathsCover

LEMMA JoinHistory ==
  ASSUME NEW i, NEW m, NEW at, NEW w, NEW t, CombineAssumption, block \in Blocks, MergeInv,
         i \in Instrs, m \in Positions, Joins(i, m), Moved(i, m, at), History(w, t)
  PROVE  \E w2, t2 : History(w2, t2)'
<1>1. PICK w2 : w2 = NextWord(w, i, m)
  OBVIOUS
<1>2. PICK t2 : t2 = NextSlot(t, i, at)
  OBVIOUS
<1>3. Joining(i, m, at, w, t, w2, t2)
  BY <1>1, <1>2 DEF Joining
<1>4. Homes(w2, t2)' /\ Arrived(w2, t2)' /\ InTurnSoFar(w2, t2)' /\ PathsCover(w2)'
  BY <1>3, JoinHomes, JoinArrived, JoinInTurn, JoinPaths
<1>5. History(w2, t2)'
  BY <1>4 DEF History
<1> QED BY <1>5

\* A merge moves the operations as AluMap says, if their slots are free.
LEMMA MergeMoves ==
  ASSUME CombineAssumption, block \in Blocks, NEW i \in Instrs, i \notin visited, NEW m \in Positions,
         NEW w, NEW t, Homes(w, t), NEW limits \in BOOLEAN, order[m] \in Instrs,
         MergeInto(i, order[m], limits),
         AluFits(block[i], bundle[order[m]], limits),
         NEW at, at = AluMap(block[i], bundle[order[m]], limits),
         \A s \in Used(block[i]) : To(at, s) \notin Used(bundle[order[m]]),
         \/ m < LatestSucc(i)
         \/ /\ m = LatestSucc(i)
            /\ \A s \in Used(block[i]) : \A u \in Used(bundle[order[m]]) :
                 ~ can_swap(block[i].ops[s], bundle[order[m]].ops[u]) => RunsBefore(To(at, s), u)
  PROVE  Moved(i, m, at)
<1> DEFINE into == order[m]
<1>1. bundle[i] = block[i] /\ DOMAIN bundle = Instrs /\ "ops" \in DOMAIN bundle[into]
  BY DEF Homes
<1>2. IsBundle(block[i])
  BY BundlesAre
<1>3. PICK c, junk : bundle' = [bundle EXCEPT ![into] =
                                  Merged(block[i], bundle[into], at, c, junk)]
  BY <1>1 DEF MergeInto
<1>4. DOMAIN bundle' = Instrs /\ \A x \in Instrs : x # into => bundle'[x] = bundle[x]
  BY <1>1, <1>3
<1>5. bundle'[into] = Merged(block[i], bundle[into], at, c, junk)
  BY <1>1, <1>3
<1>6. Housed(at, block[i])
  BY <1>2, AluHoused
<1>7. /\ "ops" \in DOMAIN bundle'[into]
      /\ Used(bundle'[into]) = Used(bundle[into]) \cup {To(at, s) : s \in Used(block[i])}
      /\ \A s \in Used(block[i]) : SameOp(bundle'[into].ops[To(at, s)], block[i].ops[s])
      /\ \A u \in Used(bundle[into]) : bundle'[into].ops[u] = bundle[into].ops[u]
  <2> HIDE DEF into
  <2> QED BY <1>1, <1>2, <1>5, <1>6, MergedOps DEF into
<1> QED BY <1>4, <1>6, <1>7 DEF Moved

(* Two instructions that use the slot of the stores conflict if they are   *)
(* apart at all, so the second one cannot come in where the first one is   *)
(* not a successor (combine_indep does not look at these slots).           *)
LEMMA StoresStayApart ==
  ASSUME CombineAssumption, block \in Blocks, EndsApart(block), MergeInv,
         NEW i \in Waiting, NEW m \in Positions, m < LatestSucc(i),
         NEW w, NEW t, History(w, t), NEW s \in Used(block[i]) \cap {9, 10}
  PROVE  s \notin Used(bundle[order[m]])
<1> SUFFICES ASSUME s \in Used(bundle[order[m]]) PROVE FALSE
  OBVIOUS
<1>1. /\ Homes(w, t) /\ Arrived(w, t) /\ PathsCover(w) /\ i \in Instrs /\ i \notin visited
      /\ order[m] \in Listed /\ Listed \subseteq visited
  BY DEF History, Waiting, Listed, MergeInv, ListInv
<1>2. PICK p \in Ops : w[p[1]] = order[m] /\ t[p] = s
  BY <1>1 DEF Arrived
<1>3. p[1] \in Instrs /\ p[2] = s /\ s \in Used(block[p[1]])
  <2>1. p[1] \in Instrs /\ p[2] \in Used(block[p[1]])
    BY BundlesAre
  <2>2. p[2] = s
    BY <1>1, <1>2 DEF Arrived, Alu
  <2> QED BY <2>1, <2>2
<1>4. p[1] # i
  BY <1>1, <1>2 DEF Homes
<1>5. p[1] \in visited
  BY <1>1, <1>2, <1>3 DEF Homes
<1>6. s = 9 /\ block[i].ops[9].temp = "store" /\ block[p[1]].ops[9].temp = "store"
  BY <1>1, <1>3, <1>4, BundlesAre DEF EndsApart
<1>7. Conflict(block[i], block[p[1]]) /\ Conflict(block[p[1]], block[i])
  BY <1>1, <1>3, <1>6, BundlesAre, OpsConflict DEF can_swap
<1>8. CASE i < p[1]
  <2>1. LatestSucc(i) <= m
    BY <1>1, <1>2, <1>3, <1>7, <1>8, ConflictsBehind
  <2>2. LatestSucc(i) \in Nat /\ m \in Nat
    BY LatestSuccIs DEF MergeInv, ListInv, Positions
  <2> QED BY <2>1, <2>2
<1>9. CASE p[1] < i
  BY <1>1, <1>3, <1>5, <1>7, <1>9 DEF PathsCover
<1>10. Instrs \subseteq Nat
  BY InstrsFacts DEF MergeInv
<1> QED BY <1>1, <1>3, <1>4, <1>8, <1>9, <1>10

\* The slots of an instruction are slots.
LEMMA SlotsUsed ==
  ASSUME NEW w, NEW t, Homes(w, t), Arrived(w, t), NEW x \in Listed
  PROVE  Used(bundle[x]) \subseteq 1..10
<1>1. Used(bundle[x]) = {t[o] : o \in {p \in Ops : w[p[1]] = x}}
  BY DEF Arrived
<1>2. \A o \in Ops : t[o] \in 1..10
  BY DEF Homes
<1> QED BY <1>1, <1>2

LEMMA BeforeHistory ==
  ASSUME CombineAssumption, block \in Blocks, EndsApart(block), MergeInv, queue = Waiting,
         NEW i \in Instrs, CombineBefore(i), NEW w, NEW t, History(w, t)
  PROVE  \E w2, t2 : History(w2, t2)'
<1>1. PICK m : m = LatestSucc(i)
  OBVIOUS
<1>2. m \in Positions /\ Joins(i, m) /\ i \in Waiting
  BY <1>1, BeforeJoins DEF Joins
<1>3. i \notin visited /\ order[m] \in Listed /\ order[m] \in Instrs /\ Homes(w, t) /\ Arrived(w, t)
  BY <1>2 DEF Waiting, Listed, MergeInv, ListInv, History
<1>4. bundle[i] = block[i] /\ IsBundle(block[i])
  BY <1>3, BundlesAre DEF Homes
<1>5. BeforeFits(block[i], bundle[order[m]]) /\ MergeInto(i, order[m], TRUE)
  BY <1>1, <1>4 DEF CombineBefore, CanCombineBefore
<1>6. PICK at : at = AluMap(block[i], bundle[order[m]], TRUE)
  OBVIOUS
<1>7. \A s \in Used(block[i]) :
        /\ To(at, s) \notin Used(bundle[order[m]])
        /\ \A u \in Used(bundle[order[m]]) :
             ~ can_swap(block[i].ops[s], bundle[order[m]].ops[u]) => RunsBefore(To(at, s), u)
  BY <1>3, <1>4, <1>5, <1>6, SlotsUsed, BeforeIsInFront
<1>8. AluFits(block[i], bundle[order[m]], TRUE)
  BY <1>5 DEF BeforeFits
<1>9. Moved(i, m, at)
  BY <1>1, <1>2, <1>3, <1>5, <1>6, <1>7, <1>8, MergeMoves
<1> QED BY <1>2, <1>9, JoinHistory

LEMMA IndepHistory ==
  ASSUME CombineAssumption, block \in Blocks, EndsApart(block), MergeInv, queue = Waiting,
         NEW i \in Instrs, CombineIndep(i), NEW w, NEW t, History(w, t)
  PROVE  \E w2, t2 : History(w2, t2)'
<1>1. PICK m : m = Max(IndepPlaces(i))
  OBVIOUS
<1>2. m \in Positions /\ Joins(i, m) /\ i \in Waiting /\ m \in IndepPlaces(i) /\ m < LatestSucc(i)
  BY <1>1, IndepJoins DEF Joins
<1>3. i \notin visited /\ order[m] \in Listed /\ order[m] \in Instrs /\ Homes(w, t)
  BY <1>2 DEF Waiting, Listed, MergeInv, ListInv, History
<1>4. bundle[i] = block[i] /\ IsBundle(block[i])
  BY <1>3, BundlesAre DEF Homes
<1>5. IndepFits(block[i], bundle[order[m]]) /\ MergeInto(i, order[m], FALSE)
  BY <1>1, <1>2, <1>4 DEF CombineIndep, IndepPlaces
<1>6. PICK at : at = AluMap(block[i], bundle[order[m]], FALSE)
  OBVIOUS
<1>7. \A s \in Used(block[i]) : To(at, s) \notin Used(bundle[order[m]])
  <2> TAKE s \in Used(block[i])
  <2>1. CASE s \in {9, 10}
    <3>1. s \notin Used(bundle[order[m]])
      BY <1>2, <2>1, StoresStayApart
    <3>2. To(at, s) = s
      BY <2>1 DEF To, Alu
    <3> QED BY <3>1, <3>2
  <2>2. CASE s \notin {9, 10}
    BY <1>4, <1>5, <1>6, <2>2, IndepIsFree
  <2> QED BY <2>1, <2>2
<1>8. AluFits(block[i], bundle[order[m]], FALSE)
  BY <1>5 DEF IndepFits
<1>9. Moved(i, m, at)
  BY <1>2, <1>3, <1>5, <1>6, <1>7, <1>8, MergeMoves
<1> QED BY <1>2, <1>9, JoinHistory

\* An instruction that becomes the first of the list keeps its operations.
LEMMA InsertHistory ==
  ASSUME CombineAssumption, block \in Blocks, MergeInv, NEW i \in Instrs, Begins(i),
         bundle' = bundle, NEW w, NEW t, History(w, t)
  PROVE  History(w, t)'
<1>1. /\ Homes(w, t) /\ Arrived(w, t) /\ InTurnSoFar(w, t) /\ PathsCover(w) /\ i \in Waiting
      /\ block' = block /\ deps' = deps /\ visited' = visited \cup {i} /\ i \notin visited
      /\ Listed \subseteq visited /\ visited \subseteq Instrs
  BY DEF History, Begins, Waiting, MergeInv, ListInv
<1>2. /\ order'[1] = i /\ Listed' = Listed \cup {i}
      /\ \A l \in Positions' : l = 1 \/ (l - 1 \in Positions /\ order'[l] = order[l - 1])
  BY BeginsList DEF MergeInv
<1>3. Instrs' = Instrs /\ Ops' = Ops /\ \A o : Was(o)' = Was(o)
  BY <1>1 DEF Instrs, Ops, Was
<1>4. w[i] = i /\ bundle[i] = block[i] /\ i \notin Listed
      /\ \A j \in Instrs : j # i => w[j] # i
  BY <1>1 DEF Homes
<1>5. \A o \in Ops : o[1] \in Instrs /\ o[2] \in Used(block[o[1]]) /\ o = <<o[1], o[2]>>
  BY BundlesAre
<1>6. Homes(w, t)'
  BY <1>1, <1>2, <1>3, <1>4 DEF Homes
<1>7. Arrived(w, t)'
  <2>1. ASSUME NEW x \in Listed'
        PROVE  Used(bundle[x]) = {t[o] : o \in {p \in Ops : w[p[1]] = x}}
    <3>1. CASE x \in Listed
      BY <1>1, <3>1 DEF Arrived
    <3>2. CASE x = i
      <4>1. \A o \in Ops : w[o[1]] = i => o[1] = i /\ t[o] = o[2]
        BY <1>1, <1>4, <1>5 DEF Homes
      <4>2. \A s \in Used(block[i]) : <<i, s>> \in Ops /\ t[<<i, s>>] = s
        <5>1. Used(block[i]) \subseteq 1..10
          BY BundlesAre DEF IsBundle
        <5>2. \A s \in Used(block[i]) : <<i, s>> \in Ops
          BY <5>1 DEF Ops
        <5> QED BY <1>1, <5>2 DEF Homes
      <4>3. \A o \in Ops : w[o[1]] = i => t[o] \in Used(block[i])
        BY <1>5, <4>1
      <4>4. \A s \in Used(block[i]) : \E o \in Ops : w[o[1]] = i /\ t[o] = s
        <5> TAKE s \in Used(block[i])
        <5>1. <<i, s>> \in Ops /\ w[<<i, s>>[1]] = i /\ t[<<i, s>>] = s
          BY <1>4, <4>2
        <5> QED BY <5>1
      <4> QED BY <1>4, <3>2, <4>3, <4>4
    <3> QED BY <1>2, <3>1, <3>2
  <2>2. /\ \A o, p \in Ops : o # p /\ w[o[1]] = w[p[1]] => t[o] # t[p]
        /\ \A o \in Ops : SameOp(bundle[w[o[1]]].ops[t[o]], Was(o))
        /\ \A o \in Ops : t[o] = o[2] \/ (o[2] \in Alu /\ t[o] \in Alu \cap Was(o).possible)
    BY <1>1 DEF Arrived, Now
  <2> QED BY <1>3, <2>1, <2>2 DEF Arrived, Now
<1>8. InTurnSoFar(w, t)'
  <2>1. ASSUME NEW o \in Ops, NEW p \in Ops, o[1] \in visited', o[1] < p[1],
               ~ can_swap(Was(o), Was(p))
        PROVE  /\ p[1] \in visited'
               /\ \A k, l \in Positions' : order'[k] = w[o[1]] /\ order'[l] = w[p[1]] =>
                    k < l \/ (k = l /\ RunsBefore(t[o], t[p]))
    <3>1. p[1] \in visited
      <4>1. CASE o[1] = i
        BY <1>1, <1>5, <2>1, <4>1, BundlesAre, ConflictsBehind
      <4>2. CASE o[1] # i
        BY <1>1, <2>1, <4>2 DEF InTurnSoFar
      <4> QED BY <4>1, <4>2
    <3>2. ASSUME NEW k \in Positions', NEW l \in Positions',
                 order'[k] = w[o[1]], order'[l] = w[p[1]]
          PROVE  k < l \/ (k = l /\ RunsBefore(t[o], t[p]))
      <4>1. k \in Nat /\ l \in Nat /\ 1 <= k /\ 1 <= l
        BY DEF Positions
      <4>2. l # 1 /\ l - 1 \in Positions /\ order[l - 1] = w[p[1]]
        BY <1>1, <1>2, <1>4, <3>1, <3>2
      <4>3. CASE k = 1
        BY <4>1, <4>2, <4>3
      <4>4. CASE k # 1
        <5>1. k - 1 \in Positions /\ order[k - 1] = w[o[1]]
          BY <1>2, <3>2, <4>4
        <5>2. o[1] # i
          BY <1>4, <5>1 DEF Listed
        <5>3. o[1] \in visited
          BY <1>1, <2>1, <5>2
        <5>4. k - 1 < l - 1 \/ (k - 1 = l - 1 /\ RunsBefore(t[o], t[p]))
          BY <1>1, <2>1, <4>2, <5>1, <5>3 DEF InTurnSoFar
        <5> QED BY <4>1, <5>4
      <4> QED BY <4>3, <4>4
    <3> QED BY <1>1, <3>1, <3>2
  <2> QED BY <1>3, <2>1 DEF InTurnSoFar
<1>9. PathsCover(w)'
  <2>1. ASSUME NEW a PROVE Reached(deps, a)' = Reached(deps, a)
    BY <1>1, <1>3 DEF Reached, Closed, Succs
  <2>2. ASSUME NEW a \in Instrs, NEW b \in Instrs, a < b, Conflict(block[a], block[b])
        PROVE  /\ a \in visited' => b \in visited'
               /\ a \notin visited' => w[b] \in Reached(deps, a)
    <3>1. CASE a = i
      BY <1>1, <2>2, <3>1, ConflictsBehind
    <3>2. CASE a # i
      BY <1>1, <2>2, <3>2 DEF PathsCover
    <3> QED BY <3>1, <3>2
  <2> QED BY <1>1, <1>3, <2>1, <2>2 DEF PathsCover
<1> QED BY <1>6, <1>7, <1>8, <1>9 DEF History

-----------------------------------------------------------------------------
(* The history of the operations begins with the graph of dep_info.c and   *)
(* goes on with every instruction that is pulled.                          *)

LEMMA FreshHistory ==
  CombineAssumption /\ block \in Blocks /\ FreshInv /\ pc # "deps" => \E w, t : History(w, t)
<1> SUFFICES ASSUME CombineAssumption, block \in Blocks, FreshInv, pc # "deps"
             PROVE  \E w, t : History(w, t)
  OBVIOUS
<1>1. PICK w : w = [i \in Instrs |-> i]
  OBVIOUS
<1>2. PICK t : t = [o \in Ops |-> o[2]]
  OBVIOUS
<1>3. visited = {} /\ bundle = block /\ Positions = {} /\ Listed = {} /\ EdgesInv
  BY DEF FreshInv, Positions, Listed
<1>4. \A o \in Ops : o[1] \in Instrs /\ o[2] \in 1..10 /\ o = <<o[1], o[2]>>
  BY DEF Ops
<1>5. /\ DOMAIN block = Instrs /\ \A i \in Instrs : "ops" \in DOMAIN block[i]
  BY BundlesAre DEF IsBundle
<1>6. Homes(w, t)
  BY <1>1, <1>2, <1>3, <1>4, <1>5 DEF Homes
<1>7. Arrived(w, t)
  <2>1. \A o, p \in Ops : o # p /\ w[o[1]] = w[p[1]] => t[o] # t[p]
    BY <1>1, <1>2, <1>4
  <2>2. \A o \in Ops : Now(w, t, o) = Was(o) /\ t[o] = o[2]
    BY <1>1, <1>2, <1>3, <1>4 DEF Now, Was
  <2> QED BY <1>3, <2>1, <2>2 DEF Arrived, SameOp
<1>8. InTurnSoFar(w, t)
  BY <1>3 DEF InTurnSoFar
<1>9. PathsCover(w)
  <2>1. DepsCoverConflicts
    BY <1>3, Covered
  <2>2. \A i, j \in Instrs : i < j /\ Conflict(block[i], block[j]) => j \in Reached(deps, i)
    BY <2>1 DEF DepsCoverConflicts, Below
  <2> QED BY <1>1, <1>3, <2>2 DEF PathsCover
<1> QED BY <1>6, <1>7, <1>8, <1>9 DEF History

\* Whoever leaves the list and the graph alone leaves the history alone.
LEMMA HistoryKept ==
  ASSUME UNCHANGED <<block, deps, bundle, visited, order>>, NEW w, NEW t, History(w, t)
  PROVE  History(w, t)'
<1>1. /\ Instrs' = Instrs /\ Ops' = Ops /\ Positions' = Positions /\ Listed' = Listed
      /\ \A o : Was(o)' = Was(o)
  BY DEF Instrs, Ops, Positions, Listed, Was
<1>2. Homes(w, t)'
  BY <1>1 DEF History, Homes
<1>3. Arrived(w, t)'
  BY <1>1 DEF History, Arrived, Now
<1>4. InTurnSoFar(w, t)'
  BY <1>1 DEF History, InTurnSoFar
<1>5. PathsCover(w)'
  <2>1. \A a : Reached(deps, a)' = Reached(deps, a)
    BY <1>1 DEF Reached, Closed, Succs
  <2> QED BY <1>1, <2>1 DEF History, PathsCover
<1> QED BY <1>2, <1>3, <1>4, <1>5 DEF History

LEMMA OpsStep == CombineAssumption /\ CombineInv /\ OpsInv /\ [Next]_vars => OpsInv'
<1> SUFFICES ASSUME CombineAssumption, CombineInv, OpsInv, [Next]_vars,
                    pc' \in {"pull", "done"}, EndsApart(block)'
             PROVE  \E w, t : History(w, t)'
  BY DEF OpsInv
<1>1. block' = block /\ EndsApart(block)
  <2>1. block' = block
    BY DEF Next, Analyse, AddDepInstr, CalcMinDepInfo, CalcMaxDist, CombineBefore,
           CombineIndep, InsertStart, Pulled, Finish, Done, vars, depVars
  <2> QED BY <2>1
<1>2. block \in Blocks /\ CombineInv'
  BY CombineStep DEF CombineInv
<1>3. CASE Analyse
  <2>1. FreshInv /\ cur \in Instrs /\ IsBlock(block)
    BY <1>3 DEF Analyse, AddDepInstr, CalcMinDepInfo, CombineInv, FreshInv, EdgesInv
  <2>2. pc' \in {"deps", "min", "schedule"}
    BY <1>3, <2>1, AdvanceIs DEF Analyse, AddDepInstr, CalcMinDepInfo
  <2> QED BY <2>2
<1>4. CASE CalcMaxDist
  <2>1. FreshInv /\ pc = "schedule"
    BY <1>4 DEF CalcMaxDist, CombineInv
  <2>2. PICK w, t : History(w, t)
    BY <1>2, <2>1, FreshHistory
  <2>3. UNCHANGED <<block, deps, bundle, visited, order>>
    BY <1>4 DEF CalcMaxDist
  <2> QED BY <2>2, <2>3, HistoryKept
<1>5. ASSUME NEW i \in Instrs, CombineBefore(i) \/ CombineIndep(i) \/ InsertStart(i)
      PROVE  \E w, t : History(w, t)'
  <2>1. MergeInv /\ queue = Waiting /\ pc = "pull"
    BY <1>5 DEF CombineBefore, CombineIndep, InsertStart, Ready, CombineInv
  <2>2. PICK w, t : History(w, t)
    BY <1>1, <2>1 DEF OpsInv
  <2>3. CASE CombineBefore(i)
    BY <1>1, <1>2, <2>1, <2>2, <2>3, BeforeHistory
  <2>4. CASE CombineIndep(i)
    BY <1>1, <1>2, <2>1, <2>2, <2>4, IndepHistory
  <2>5. CASE InsertStart(i)
    <3>1. Begins(i) /\ bundle' = bundle
      BY <2>1, <2>5, InsertBegins DEF InsertStart
    <3>2. History(w, t)'
      BY <1>2, <2>1, <2>2, <3>1, InsertHistory
    <3> QED BY <3>2
  <2> QED BY <1>5, <2>3, <2>4, <2>5
<1>6. CASE Finish \/ UNCHANGED vars
  <2>1. UNCHANGED <<block, deps, bundle, visited, order>> /\ pc \in {"pull", "done"}
    BY <1>6 DEF Finish, vars, depVars, combineVars
  <2>2. PICK w, t : History(w, t)
    BY <1>1, <2>1 DEF OpsInv
  <2> QED BY <2>1, <2>2, HistoryKept
<1> QED BY <1>3, <1>4, <1>5, <1>6 DEF Next, Done

(* Every operation of the block is in the list once, in a slot that can    *)
(* run it and that no other operation has, unchanged but for where it      *)
(* finds its constants; and of two operations of different instructions    *)
(* that may not change places, the one that came first runs first          *)
(* (lima_pp_lir_instr_combine_before and _indep, combine_deps).            *)
THEOREM OperationsKept == CombineAssumption /\ Spec => [](EndsApart(block) => OpsKept)
<1> SUFFICES ASSUME CombineAssumption PROVE Spec => [](EndsApart(block) => OpsKept)
  OBVIOUS
<1>1. CombineInv /\ OpsInv => (EndsApart(block) => OpsKept)
  <2> SUFFICES ASSUME CombineInv, OpsInv, EndsApart(block), pc = "done"
               PROVE  \E w \in [Instrs -> ToSet(order)], t \in [Ops -> 1..10] :
                        Arrived(w, t) /\ InTurn(w, t)
    BY DEF OpsKept
  <2>1. MergeInv /\ visited = Instrs
    BY DEF CombineInv
  <2>2. PICK w, t : History(w, t)
    BY DEF OpsInv
  <2>3. Homes(w, t) /\ Arrived(w, t) /\ InTurnSoFar(w, t)
    BY <2>2 DEF History
  <2>4. Listed = ToSet(order)
    BY <2>1 DEF Listed, ToSet, Positions, MergeInv, ListInv
  <2>5. w \in [Instrs -> ToSet(order)] /\ t \in [Ops -> 1..10]
    BY <2>1, <2>3, <2>4 DEF Homes
  <2>6. ASSUME NEW o \in Ops, NEW p \in Ops, o[1] < p[1], ~ can_swap(Was(o), Was(p))
        PROVE  \/ At(w[o[1]]) < At(w[p[1]])
               \/ w[o[1]] = w[p[1]] /\ RunsBefore(t[o], t[p])
    <3>1. o[1] \in Instrs /\ p[1] \in Instrs
      BY DEF Ops
    <3>2. PICK k \in Positions : order[k] = w[o[1]]
      BY <2>1, <2>3, <3>1 DEF Homes, Listed
    <3>3. PICK l \in Positions : order[l] = w[p[1]]
      BY <2>1, <2>3, <3>1 DEF Homes, Listed
    <3>4. k < l \/ (k = l /\ RunsBefore(t[o], t[p]))
      BY <2>1, <2>3, <2>6, <3>1, <3>2, <3>3 DEF InTurnSoFar
    <3>5. At(order[k]) = k /\ At(order[l]) = l
      BY <2>1, AtIs DEF MergeInv
    <3> QED BY <3>2, <3>3, <3>4, <3>5
  <2>7. InTurn(w, t)
    BY <2>6 DEF InTurn
  <2> QED BY <2>3, <2>5, <2>7
<1>2. (Init => CombineInv) /\ (CombineInv /\ [Next]_vars => CombineInv')
  BY CombineInitial, CombineStep
<1>3. Init => OpsInv
  BY DEF Init, DepInit, OpsInv
<1>4. CombineInv /\ OpsInv /\ [Next]_vars => OpsInv'
  BY OpsStep
<1> QED BY <1>1, <1>2, <1>3, <1>4, PTL DEF Spec
=============================================================================
