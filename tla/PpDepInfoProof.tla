---------------------------- MODULE PpDepInfoProof ----------------------------
(***************************************************************************)
(* The dependence graph of dep_info.c, for every block: its edges lead     *)
(* forward, any two instructions that conflict are joined by a path, and   *)
(* taking away what a longer path replaces leaves the paths as they are.   *)
(* The schedulers' proofs build on this.                                   *)
(***************************************************************************)
EXTENDS PpDepInfo, FiniteSetTheorems, TLAPS

-----------------------------------------------------------------------------
(* Numbers.                                                                *)

(* A finite set of numbers has a greatest one ...                          *)
LEMMA GreatestExists ==
  ASSUME NEW U \in SUBSET Nat, IsFiniteSet(U), U # {}
  PROVE  \E m \in U : \A k \in U : k <= m
<1> DEFINE From(i) == {k \in U : k >= i}
           T == {From(i) : i \in U}
<1>1. ASSUME NEW a \in U, NEW b \in U, b > a
      PROVE  From(b) \subseteq From(a) /\ a \in From(a) /\ a \notin From(b)
  <2>1. \A x \in U : x >= b => x >= a
    BY <1>1
  <2>2. a >= a /\ ~ (a >= b)
    BY <1>1
  <2> QED BY <2>1, <2>2
<1>2. IsWellFoundedOn(StrictSubsetOrdering(U), SUBSET U)
  BY FS_StrictSubsetOrderingWellFounded, FS_FiniteSubsetsOfFinite
<1>3. T \subseteq SUBSET U /\ T # {}
  OBVIOUS
<1>4. PICK X \in T : \A Y \in T : <<Y, X>> \notin StrictSubsetOrdering(U)
  <2> HIDE DEF T
  <2> QED BY <1>2, <1>3, WFMin
<1>5. PICK m \in U : X = From(m)
  BY <1>4
<1>6. ASSUME NEW k \in U PROVE k <= m
  <2> SUFFICES ASSUME k > m PROVE FALSE
    OBVIOUS
  <2>1. From(k) \in T /\ From(k) \in SUBSET U /\ X \in SUBSET U
    BY <1>5
  <2>2. From(k) \subseteq X /\ m \in X /\ m \notin From(k)
    <3> HIDE DEF From, T
    <3> QED BY <1>1, <1>5
  <2>3. <<From(k), X>> \in StrictSubsetOrdering(U)
    <3> HIDE DEF From
    <3> QED BY <2>1, <2>2 DEF StrictSubsetOrdering
  <2> QED BY <1>4, <2>1, <2>3
<1> QED BY <1>6

(* ... so a set of instructions has a last one ...                         *)
LEMMA LastExists ==
  ASSUME NEW n \in Nat, NEW U \in SUBSET (1..n), U # {}
  PROVE  \E m \in U : \A k \in U : k <= m
<1>1. IsFiniteSet(U)
  <2>1. IsFiniteSet(1..n)
    BY FS_Interval
  <2> QED BY <2>1, FS_Subset
<1>2. U \in SUBSET Nat
  OBVIOUS
<1> QED BY <1>1, <1>2, GreatestExists

(* ... and a first one.                                                    *)
LEMMA FirstExists ==
  ASSUME NEW n \in Nat, NEW U \in SUBSET (1..n), U # {}
  PROVE  \E m \in U : \A k \in U : m <= k
<1> DEFINE V == {k \in 1..n : n + 1 - k \in U}
<1>1. PICK u \in U : TRUE
  OBVIOUS
<1>2. n + 1 - u \in V
  BY <1>1
<1>3. PICK m \in V : \A k \in V : k <= m
  BY <1>2, LastExists
<1>4. n + 1 - m \in U
  OBVIOUS
<1>5. ASSUME NEW k \in U PROVE n + 1 - m <= k
  <2>1. n + 1 - k \in V
    OBVIOUS
  <2> QED BY <2>1, <1>3
<1> QED BY <1>4, <1>5

-----------------------------------------------------------------------------
(* The edges.                                                              *)

(* What is needed of a block: instructions whose slots are numbered from   *)
(* the first on.                                                           *)
IsBlock(b) ==
  /\ Len(b) \in Nat \ {0}
  /\ \A n \in 1..Len(b) : \A k \in DOMAIN b[n].slots : 1..(k - 1) \subseteq DOMAIN b[n].slots

Direct(i) == TrueDepsOf(i) \cup AntiDepsOf(i) \cup TempDepsOf(i)

\* The instructions done with so far have all the edges add_dep_instr gives.
EdgesInv ==
  /\ IsBlock(block)
  /\ cur \in Instrs
  /\ deps \subseteq Edges
  /\ \A i \in Instrs : \A j \in Direct(i) :
       i < Len(block) /\ (pc = "deps" => i < cur) => <<i, j>> \in deps

LEMMA InstrsFacts ==
  ASSUME IsBlock(block)
  PROVE  Len(block) \in Nat \ {0} /\ 1 \in Instrs /\ Instrs \subseteq Nat
BY DEF IsBlock, Instrs

\* What a step that leaves the graph alone leaves alone.
LEMMA EdgesKept ==
  ASSUME EdgesInv, block' = block, deps' = deps, cur' \in Instrs, pc' # "deps", pc # "deps"
  PROVE  EdgesInv'
<1>1. Instrs' = Instrs /\ Edges' = Edges /\ (IsBlock(block))' = IsBlock(block)
  BY DEF Instrs, Edges
<1>2. \A i : Direct(i)' = Direct(i)
  BY DEF Direct, TrueDepsOf, AntiDepsOf, TempDepsOf, Remaining
<1> QED BY <1>1, <1>2 DEF EdgesInv

(* calc_dep_info: an instruction gets its edges, all of them forward.      *)
LEMMA EdgesGrow ==
  ASSUME EdgesInv, AddDepInstr
  PROVE  EdgesInv'
<1>1. block' = block /\ Instrs' = Instrs /\ Edges' = Edges
  BY DEF AddDepInstr, Instrs, Edges
<1>2. Len(block) \in Nat \ {0} /\ Instrs \subseteq Nat
  BY InstrsFacts DEF EdgesInv
<1>3. Direct(cur) \subseteq (cur + 1)..Len(block)
  BY DEF Direct, TrueDepsOf, AntiDepsOf, TempDepsOf
<1>4. deps \subseteq deps'
  BY DEF AddDepInstr, NewDeps
<1>5. cur # Len(block) => \A j \in Direct(cur) : <<cur, j>> \in deps'
  BY DEF AddDepInstr, NewDeps, Direct
<1>6. deps' \subseteq Edges
  <2>1. {cur} \X Direct(cur) \subseteq Edges
    BY <1>2, <1>3 DEF Edges, EdgesInv, Instrs
  <2>2. ASSUME NEW E PROVE BranchDeps(E, cur) \subseteq Edges
    BY <1>2 DEF BranchDeps, Edges, EdgesInv, Instrs
  <2> QED BY <2>1, <2>2 DEF AddDepInstr, NewDeps, Direct, EdgesInv
<1>7. /\ cur' \in Instrs
      /\ \/ pc' = "deps" /\ cur' = cur + 1
         \/ pc' = "min" /\ cur = Len(block)
  <2>1. pc = "deps" /\ cur \in 1..Len(block)
    BY DEF AddDepInstr, EdgesInv, Instrs
  <2>2. CASE cur < Len(block)
    BY <1>2, <2>1, <2>2 DEF AddDepInstr, Advance, Instrs
  <2>3. CASE ~ (cur < Len(block))
    BY <1>2, <2>1, <2>3 DEF AddDepInstr, Advance, Instrs
  <2> QED BY <2>2, <2>3
<1>8. ASSUME NEW i \in Instrs, NEW j \in Direct(i), i < Len(block), pc' = "deps" => i < cur'
      PROVE  <<i, j>> \in deps'
  <2>1. CASE i = cur
    BY <2>1, <1>5, <1>8, <1>2
  <2>2. CASE i # cur
    <3>1. i < cur
      BY <2>2, <1>2, <1>7, <1>8 DEF EdgesInv, Instrs
    <3> QED BY <3>1, <1>4, <1>8 DEF EdgesInv
  <2> QED BY <2>1, <2>2
<1>9. \A i : Direct(i)' = Direct(i)
  BY <1>1 DEF Direct, TrueDepsOf, AntiDepsOf, TempDepsOf, Remaining
<1> QED BY <1>1, <1>6, <1>7, <1>8, <1>9 DEF EdgesInv
-----------------------------------------------------------------------------
(* What a block conflicts over, and how the edges cover it.                *)

\* A channel that an instruction reads, one of its slots after another, is
\* read from the outside or written by an earlier slot.
LEMMA ReadsSplit ==
  ASSUME NEW x, \A k \in DOMAIN x.slots : 1..(k - 1) \subseteq DOMAIN x.slots
  PROVE  Reads(x) \subseteq ReadRegs(x) \cup WriteRegs(x)
<1> SUFFICES ASSUME NEW c \in Reads(x), c \notin WriteRegs(x) PROVE c \in ReadRegs(x)
  OBVIOUS
<1>1. PICK k \in DOMAIN x.slots : c \in x.slots[k].reads
  BY DEF Reads
<1>2. \A j \in 1..(k - 1) : j \in DOMAIN x.slots
  OBVIOUS
<1>3. c \notin UNION {x.slots[j].writes : j \in 1..(k - 1)}
  BY <1>2 DEF WriteRegs
<1> QED BY <1>1, <1>3 DEF ReadRegs

(* Two instructions that meet in a channel are joined by an edge, or the   *)
(* first instruction in between that kills the channel is joined to the    *)
(* first of them and meets the second (the two scans of add_dep_instr).    *)
LEMMA ChannelStep ==
  ASSUME IsBlock(block),
         NEW i \in Instrs, NEW j \in Instrs, i < j, NEW c,
         \/ c \in WriteRegs(block[i]) /\ c \in ReadRegs(block[j]) \cup WriteRegs(block[j])
         \/ c \in ReadRegs(block[i]) \cup WriteRegs(block[i]) /\ c \in WriteRegs(block[j])
  PROVE  \/ j \in Direct(i)
         \/ \E k \in (i + 1)..(j - 1) :
              /\ k \in Direct(i)
              /\ c \in WriteRegs(block[k])
<1>1. Len(block) \in Nat /\ i \in 1..Len(block) /\ j \in (i + 1)..Len(block)
  BY InstrsFacts DEF Instrs
<1> DEFINE K == {k \in (i + 1)..(j - 1) : c \in WriteRegs(block[k])}
           Left(regs, k) == Remaining(regs, i, k)
<1>2. ASSUME NEW regs, c \in regs, NEW k \in (i + 1)..j, \A l \in K : k <= l
      PROVE  c \in Left(regs, k)
  <2>1. \A l \in (i + 1)..(k - 1) : l \in (i + 1)..(j - 1) /\ ~ (k <= l)
    BY <1>1
  <2>2. \A l \in (i + 1)..(k - 1) : c \notin WriteRegs(block[l])
    BY <2>1, <1>2
  <2> QED BY <2>2, <1>2 DEF Remaining
<1>3. CASE K = {}
  <2>1. c \in WriteRegs(block[i]) => c \in Left(WriteRegs(block[i]), j)
    BY <1>1, <1>2, <1>3
  <2>2. c \in ReadRegs(block[i]) => c \in Left(ReadRegs(block[i]), j)
    BY <1>1, <1>2, <1>3
  <2> QED BY <1>1, <2>1, <2>2 DEF Direct, TrueDepsOf, AntiDepsOf
<1>4. CASE K # {}
  <2>1. K \in SUBSET (1..Len(block))
    BY <1>1
  <2>2. PICK k \in K : \A l \in K : k <= l
    <3> HIDE DEF K
    <3> QED BY <1>1, <1>4, <2>1, FirstExists
  <2>3. k \in (i + 1)..(j - 1) /\ k \in (i + 1)..j /\ k \in (i + 1)..Len(block)
    BY <1>1, <2>2
  <2>4. c \in WriteRegs(block[i]) => c \in Left(WriteRegs(block[i]), k)
    BY <2>2, <2>3, <1>2
  <2>5. c \in ReadRegs(block[i]) => c \in Left(ReadRegs(block[i]), k)
    BY <2>2, <2>3, <1>2
  <2>6. c \in WriteRegs(block[k])
    BY <2>2
  <2>7. k \in AntiDepsOf(i)
    BY <2>3, <2>4, <2>5, <2>6 DEF AntiDepsOf
  <2> QED BY <2>3, <2>6, <2>7 DEF Direct
<1> QED BY <1>3, <1>4

(* The same for two that meet in the temporaries (the third scan).         *)
LEMMA TempStep ==
  ASSUME IsBlock(block),
         NEW i \in Instrs, NEW j \in Instrs, i < j,
         \/ block[i].store /\ (block[j].load \/ block[j].store)
         \/ block[i].load /\ block[j].store
  PROVE  \/ j \in Direct(i)
         \/ \E k \in (i + 1)..(j - 1) : k \in Direct(i) /\ block[k].store
<1>1. Len(block) \in Nat /\ i \in 1..Len(block) /\ j \in (i + 1)..Len(block)
  BY InstrsFacts DEF Instrs
<1> DEFINE K == {k \in (i + 1)..(j - 1) : block[k].store}
<1>2. CASE K = {}
  BY <1>1, <1>2 DEF Direct, TempDepsOf
<1>3. CASE K # {}
  <2>1. K \in SUBSET (1..Len(block))
    BY <1>1
  <2>2. PICK k \in K : \A l \in K : k <= l
    BY <1>1, <1>3, <2>1, FirstExists
  <2>3. k \in (i + 1)..(j - 1) /\ k \in (i + 1)..Len(block) /\ block[k].store
    BY <1>1, <2>2
  <2>4. \A l \in (i + 1)..(k - 1) : l \in (i + 1)..(j - 1) /\ ~ (k <= l)
    BY <1>1, <2>3
  <2>5. \A l \in (i + 1)..(k - 1) : ~ block[l].store
    BY <2>2, <2>4
  <2>6. k \in TempDepsOf(i)
    BY <2>3, <2>5 DEF TempDepsOf
  <2> QED BY <2>3, <2>6 DEF Direct
<1> QED BY <1>2, <1>3

(* Together: what keeps i in front of j is an edge, or an edge from i and  *)
(* a conflict over a shorter distance (add_dep_instr).                     *)
LEMMA ConflictStep ==
  ASSUME IsBlock(block),
         NEW i \in Instrs, NEW j \in Instrs, i < j, Conflict(block[i], block[j])
  PROVE  \/ j \in Direct(i)
         \/ \E k \in (i + 1)..(j - 1) : k \in Direct(i) /\ Conflict(block[k], block[j])
<1>1. /\ Reads(block[i]) \subseteq ReadRegs(block[i]) \cup WriteRegs(block[i])
      /\ Reads(block[j]) \subseteq ReadRegs(block[j]) \cup WriteRegs(block[j])
  BY ReadsSplit DEF Instrs, IsBlock
<1>2. CASE \/ block[i].store /\ (block[j].load \/ block[j].store)
           \/ block[i].load /\ block[j].store
  <2>1. \/ j \in Direct(i)
        \/ \E k \in (i + 1)..(j - 1) : k \in Direct(i) /\ block[k].store
    BY <1>2, TempStep
  <2> QED BY <1>2, <2>1 DEF Conflict
<1>3. ASSUME NEW c,
             \/ c \in WriteRegs(block[i]) /\ c \in Reads(block[j]) \cup WriteRegs(block[j])
             \/ c \in Reads(block[i]) /\ c \in WriteRegs(block[j])
      PROVE  \/ j \in Direct(i)
             \/ \E k \in (i + 1)..(j - 1) : k \in Direct(i) /\ Conflict(block[k], block[j])
  <2>1. \/ c \in WriteRegs(block[i]) /\ c \in ReadRegs(block[j]) \cup WriteRegs(block[j])
        \/ c \in ReadRegs(block[i]) \cup WriteRegs(block[i]) /\ c \in WriteRegs(block[j])
    BY <1>1, <1>3
  <2>2. \/ j \in Direct(i)
        \/ \E k \in (i + 1)..(j - 1) : k \in Direct(i) /\ c \in WriteRegs(block[k])
    BY <2>1, ChannelStep
  <2>3. c \in Reads(block[j]) \cup WriteRegs(block[j])
    BY <1>3
  <2> QED BY <2>2, <2>3 DEF Conflict
<1> QED BY <1>2, <1>3 DEF Conflict
-----------------------------------------------------------------------------
(* What can be reached along the edges: the least closed set.              *)

LEMMA ReachedClosed ==
  ASSUME NEW E, NEW i
  PROVE  /\ Reached(E, i) \subseteq Instrs
         /\ Succs(E, i) \subseteq Reached(E, i)
         /\ Closed(E, Reached(E, i))
<1>1. Reached(E, i) \subseteq Instrs /\ Succs(E, i) \subseteq Reached(E, i)
  BY DEF Reached, Succs
<1>2. ASSUME NEW k \in Reached(E, i), NEW l \in Succs(E, k)
      PROVE  l \in Reached(E, i)
  <2>1. ASSUME NEW S \in SUBSET Instrs, Succs(E, i) \subseteq S, Closed(E, S)
        PROVE  l \in S
    BY <1>2, <2>1 DEF Reached, Closed
  <2> QED BY <2>1 DEF Reached, Succs
<1> QED BY <1>1, <1>2 DEF Closed

LEMMA ReachedLeast ==
  ASSUME NEW E, NEW i, NEW S \in SUBSET Instrs, Succs(E, i) \subseteq S, Closed(E, S)
  PROVE  Reached(E, i) \subseteq S
BY DEF Reached

LEMMA ReachedOnward ==
  ASSUME NEW E, NEW i, NEW s \in Reached(E, i)
  PROVE  Reached(E, s) \subseteq Reached(E, i)
<1>1. Succs(E, s) \subseteq Reached(E, i)
  BY ReachedClosed DEF Closed
<1> QED BY <1>1, ReachedClosed, ReachedLeast

\* A path has a first edge.
LEMMA ReachedByFirst ==
  ASSUME NEW E, NEW i, NEW j \in Reached(E, i)
  PROVE  \E s \in Succs(E, i) : s = j \/ j \in Reached(E, s)
<1> DEFINE S == {k \in Instrs : \E s \in Succs(E, i) : s = k \/ k \in Reached(E, s)}
<1>1. Succs(E, i) \subseteq S
  BY DEF Succs
<1>2. ASSUME NEW k \in S, NEW l \in Succs(E, k) PROVE l \in S
  <2>1. PICK s \in Succs(E, i) : s = k \/ k \in Reached(E, s)
    OBVIOUS
  <2>2. l \in Reached(E, s)
    BY <2>1, ReachedClosed DEF Closed
  <2> QED BY <2>2 DEF Succs
<1>3. Reached(E, i) \subseteq S
  <2>1. S \in SUBSET Instrs /\ Closed(E, S)
    BY <1>2 DEF Closed
  <2> HIDE DEF S
  <2> QED BY <1>1, <2>1, ReachedLeast
<1> QED BY <1>3

LEMMA ReachedMore ==
  ASSUME NEW E, NEW F \in SUBSET E, NEW i
  PROVE  Reached(F, i) \subseteq Reached(E, i)
<1>1. \A k : Succs(F, k) \subseteq Succs(E, k)
  BY DEF Succs
<1>2. Closed(F, Reached(E, i)) /\ Succs(F, i) \subseteq Reached(E, i)
  BY <1>1, ReachedClosed DEF Closed
<1> QED BY <1>2, ReachedClosed, ReachedLeast

\* Edges lead forward, and so do paths.
LEMMA ReachedForward ==
  ASSUME IsBlock(block), NEW E \in SUBSET Edges, NEW i \in Instrs
  PROVE  \A j \in Reached(E, i) : i < j
<1> DEFINE S == {j \in Instrs : i < j}
<1>1. Instrs \subseteq Nat
  BY InstrsFacts
<1>2. \A k, l : l \in Succs(E, k) => k \in Instrs /\ l \in Instrs /\ k < l
  BY DEF Succs, Edges
<1>3. S \in SUBSET Instrs /\ Succs(E, i) \subseteq S
  BY <1>2
<1>4. Closed(E, S)
  <2> SUFFICES ASSUME NEW k \in S, NEW l \in Succs(E, k) PROVE l \in S
    BY DEF Closed
  <2>1. i \in Nat /\ k \in Nat /\ l \in Nat /\ i < k /\ k < l
    BY <1>1, <1>2
  <2> QED BY <2>1, <1>2
<1>5. Reached(E, i) \subseteq S
  <2> HIDE DEF S
  <2> QED BY <1>3, <1>4, ReachedLeast
<1> QED BY <1>5

(* Every conflict is a path (add_dep_instr): the last instruction for which*)
(* one is not would have an edge to what it conflicts with, or to one in   *)
(* between that conflicts with it as well.                                 *)
LEMMA Covered ==
  ASSUME EdgesInv
  PROVE  DepsCoverConflicts
<1> SUFFICES ASSUME pc # "deps", NEW i1 \in Instrs, NEW j1 \in Instrs,
                    i1 < j1, Conflict(block[i1], block[j1])
             PROVE  j1 \in Reached(deps, i1)
  BY DEF DepsCoverConflicts, Below
<1> DEFINE Missed(i, j) == i < j /\ Conflict(block[i], block[j]) /\ j \notin Reached(deps, i)
           Bad == {i \in Instrs : \E j \in Instrs : Missed(i, j)}
<1>1. IsBlock(block) /\ Len(block) \in Nat /\ Instrs \subseteq Nat
  BY InstrsFacts DEF EdgesInv
<1>2. ASSUME NEW i \in Instrs, NEW j \in Direct(i), j \in Instrs, i < j
      PROVE  j \in Succs(deps, i)
  <2>1. i < Len(block)
    BY <1>1, <1>2 DEF Instrs
  <2> QED BY <1>2, <2>1 DEF EdgesInv, Succs
<1>3. Bad = {}
  <2> SUFFICES ASSUME Bad # {} PROVE FALSE
    OBVIOUS
  <2>1. PICK i \in Bad : \A k \in Bad : k <= i
    <3>1. Bad \in SUBSET (1..Len(block))
      BY DEF Instrs
    <3> HIDE DEF Bad
    <3> QED BY <1>1, <3>1, LastExists
  <2>2. PICK j \in Instrs : Missed(i, j)
    OBVIOUS
  <2>3. j \notin Direct(i)
    BY <1>2, <2>2, ReachedClosed
  <2>4. PICK k \in (i + 1)..(j - 1) : k \in Direct(i) /\ Conflict(block[k], block[j])
    BY <1>1, <2>2, <2>3, ConflictStep
  <2>5. k \in Instrs /\ i < k /\ k < j /\ ~ (k <= i)
    BY <1>1, <2>4 DEF Instrs
  <2>6. j \in Reached(deps, k)
    BY <2>1, <2>4, <2>5
  <2>7. k \in Reached(deps, i)
    BY <1>2, <2>4, <2>5, ReachedClosed
  <2> QED BY <2>2, <2>6, <2>7, ReachedOnward
<1> QED BY <1>3
-----------------------------------------------------------------------------
(* The transitive reduction (lima_pp_lir_calc_min_dep_info).               *)

Beyond(E, i) == UNION {Reached(E, s) : s \in Succs(E, i)}

Reduced(E) == {e \in E : e[2] \notin Beyond(E, e[1])}

LEMMA IndirectIs ==
  ASSUME NEW i
  PROVE  Indirect(i) = Beyond(deps, i)
BY DEF Indirect, Beyond, Below, Succs

\* Of the edges that begin a path from i to j, the shortest one is kept.
LEMMA ReducedReaches ==
  ASSUME IsBlock(block), NEW E \in SUBSET Edges, NEW i \in Instrs,
         \A k \in Instrs : i < k => Reached(E, k) \subseteq Reached(Reduced(E), k)
  PROVE  Reached(E, i) \subseteq Reached(Reduced(E), i)
<1> SUFFICES ASSUME NEW j \in Reached(E, i) PROVE j \in Reached(Reduced(E), i)
  OBVIOUS
<1> DEFINE Toward == {s \in Succs(E, i) : s = j \/ j \in Reached(E, s)}
<1>1. Len(block) \in Nat /\ Instrs \subseteq Nat
  BY InstrsFacts
<1>2. PICK s \in Toward : \A t \in Toward : s <= t
  <2>1. Toward \in SUBSET (1..Len(block)) /\ Toward # {}
    BY ReachedByFirst DEF Succs, Instrs
  <2> HIDE DEF Toward
  <2> QED BY <1>1, <2>1, FirstExists
<1>3. s \in Instrs /\ i < s
  BY DEF Succs, Edges
<1>4. s \notin Beyond(E, i)
  <2> SUFFICES ASSUME NEW t \in Succs(E, i), s \in Reached(E, t) PROVE FALSE
    BY DEF Beyond
  <2>1. t \in Instrs /\ t < s
    BY ReachedForward DEF Succs
  <2>2. t \in Toward
    BY ReachedOnward
  <2> QED BY <1>1, <1>2, <1>3, <2>1, <2>2
<1>5. s \in Succs(Reduced(E), i)
  BY <1>4 DEF Reduced, Succs
<1>6. s \in Reached(Reduced(E), i)
  BY <1>5, ReachedClosed
<1>7. CASE s = j
  BY <1>6, <1>7
<1>8. CASE j \in Reached(E, s)
  BY <1>3, <1>6, <1>8, ReachedOnward
<1> QED BY <1>7, <1>8

LEMMA ReducedSame ==
  ASSUME IsBlock(block), NEW E \in SUBSET Edges
  PROVE  Below(Reduced(E)) = Below(E)
<1> DEFINE Bad == {i \in Instrs : ~ (Reached(E, i) \subseteq Reached(Reduced(E), i))}
<1>1. Len(block) \in Nat /\ Instrs \subseteq Nat
  BY InstrsFacts
<1>2. Bad = {}
  <2> SUFFICES ASSUME Bad # {} PROVE FALSE
    OBVIOUS
  <2>1. PICK i \in Bad : \A k \in Bad : k <= i
    <3>1. Bad \in SUBSET (1..Len(block))
      BY DEF Instrs
    <3> HIDE DEF Bad
    <3> QED BY <1>1, <3>1, LastExists
  <2>2. ASSUME NEW k \in Instrs, i < k PROVE Reached(E, k) \subseteq Reached(Reduced(E), k)
    <3>1. ~ (k <= i)
      BY <1>1, <2>2
    <3> QED BY <2>1, <3>1
  <2> QED BY <2>2, ReducedReaches
<1>3. \A i : Reached(Reduced(E), i) \subseteq Reached(E, i)
  <2>1. Reduced(E) \in SUBSET E
    BY DEF Reduced
  <2> QED BY <2>1, ReachedMore
<1>4. ASSUME NEW i \in Instrs PROVE Reached(Reduced(E), i) = Reached(E, i)
  <2>1. Reached(E, i) \subseteq Reached(Reduced(E), i)
    BY <1>2
  <2>2. Reached(Reduced(E), i) \subseteq Reached(E, i)
    BY <1>3
  <2> QED BY <2>1, <2>2
<1> QED BY <1>4 DEF Below

\* A longer path in place of a kept edge would have taken the edge away.
LEMMA ReducedLean ==
  ASSUME IsBlock(block), NEW E \in SUBSET Edges, NEW e \in Reduced(E)
  PROVE  e[2] \notin Below(Reduced(E) \ {e})[e[1]]
<1> DEFINE R == Reduced(E) \ {e}
<1>1. e[1] \in Instrs /\ e = <<e[1], e[2]>> /\ R \subseteq E
  BY DEF Reduced, Edges
<1> SUFFICES ASSUME e[2] \in Reached(R, e[1]) PROVE FALSE
  BY <1>1 DEF Below
<1>2. PICK s \in Succs(R, e[1]) : s = e[2] \/ e[2] \in Reached(R, s)
  <2> HIDE DEF R
  <2> QED BY ReachedByFirst
<1>3. s # e[2] /\ s \in Succs(E, e[1])
  BY <1>1 DEF Succs
<1>4. e[2] \in Reached(E, s)
  <2> HIDE DEF R
  <2> QED BY <1>1, <1>2, <1>3, ReachedMore
<1> QED BY <1>3, <1>4 DEF Reduced, Beyond
=============================================================================
