---------------------------- MODULE PpScheduleProof ----------------------------
(***************************************************************************)
(* For every block and both policies, the list scheduler puts every        *)
(* instruction back once and lets no two conflicting instructions change   *)
(* places, although add_dep_instr only joins an instruction to the first   *)
(* ones that kill what it reads and writes.                                *)
(***************************************************************************)
EXTENDS PpSchedule, PpDepInfoProof, FiniteSetTheorems, TLAPS

(* The greatest of finitely many numbers is one of them.                   *)
LEMMA MaxOfValues ==
  ASSUME NEW n \in Nat, NEW g \in [1..n -> Nat], NEW a \in Nat
  PROVE  Max({a} \cup {g[k] : k \in 1..n}) \in Nat
<1> DEFINE R == {g[k] : k \in 1..n}
           U == {a} \cup R
<1>1. g \in Surjection(1..n, R)
  BY DEF Surjection
<1>2. IsFiniteSet(1..n)
  BY FS_Interval
<1>3. IsFiniteSet(R)
  <2> HIDE DEF R
  <2> QED BY <1>1, <1>2, FS_Surjection
<1>4. IsFiniteSet(U) /\ U \in SUBSET Nat /\ U # {}
  <2>1. IsFiniteSet(U)
    <3> HIDE DEF R
    <3> QED BY <1>3, FS_AddElement
  <2> QED BY <2>1
<1>5. \E m \in U : \A k \in U : m >= k
  <2> HIDE DEF U
  <2>1. PICK m \in U : \A k \in U : k <= m
    BY <1>4, GreatestExists
  <2> QED BY <2>1, <1>4
<1>6. Max(U) \in U
  <2> HIDE DEF U
  <2> QED BY <1>5 DEF Max
<1> QED BY <1>4, <1>6

-----------------------------------------------------------------------------
(* The inductive invariant.                                                *)

GraphInv ==
  /\ block \in Seq(InstrType) \ {<<>>}
  /\ pc \in {"deps", "min", "schedule", "pressure", "dist", "pull", "done"}
  /\ EdgesInv

\* The instructions whose turn it is.
Waiting == {i \in Instrs \ visited : Succs(deps, i) \subseteq visited}

\* The queue holds exactly them: nothing that is ready is forgotten.
QueueInv ==
  /\ visited \subseteq Instrs
  /\ pc \notin {"pull", "done"} => queue = {} /\ visited = {} /\ order = <<>>
  /\ pc = "pull" => queue = Waiting
  /\ pc = "done" => visited = Instrs /\ queue = {}

\* The list holds what was visited, each once, and no edge leads backwards.
OrderInv ==
  /\ order \in Seq(Instrs)
  /\ \A m \in 1..Len(order) : order[m] \in visited
  /\ \A v \in visited : \E m \in 1..Len(order) : order[m] = v
  /\ \A m, n \in 1..Len(order) : order[m] = order[n] => m = n
  /\ \A v \in visited : Succs(deps, v) \subseteq visited
  /\ \A m, n \in 1..Len(order) : <<order[m], order[n]>> \in deps => m < n

SchedInv == GraphInv /\ QueueInv /\ OrderInv

-----------------------------------------------------------------------------
LEMMA SeqIsBlock ==
  ASSUME block \in Seq(InstrType) \ {<<>>}
  PROVE  IsBlock(block)
<1>1. Len(block) \in Nat \ {0}
  OBVIOUS
<1>2. ASSUME NEW n \in 1..Len(block), NEW k \in DOMAIN block[n].slots
      PROVE  1..(k - 1) \subseteq DOMAIN block[n].slots
  <2>1. block[n] \in InstrType
    OBVIOUS
  <2>2. block[n].slots \in Seq(SlotType)
    BY <2>1 DEF InstrType
  <2> QED BY <2>2
<1> QED BY <1>1, <1>2 DEF IsBlock

\* What a step that leaves the graph alone leaves alone.
LEMMA GraphKept ==
  ASSUME GraphInv, block' = block, deps' = deps, cur' \in Instrs,
         pc' \in {"min", "schedule", "pressure", "dist", "pull", "done"}, pc # "deps"
  PROVE  GraphInv'
BY EdgesKept DEF GraphInv

(* calc_dep_info: an instruction gets its edges, all of them forward.      *)
LEMMA GraphGrows ==
  ASSUME GraphInv, AddDepInstr
  PROVE  GraphInv'
<1>1. block' = block /\ pc' \in {"deps", "min"}
  BY DEF AddDepInstr, Advance
<1> QED BY <1>1, EdgesGrow DEF GraphInv

(* Putting an instruction in front of the list (sched_insert_start).       *)
LEMMA Prepended ==
  ASSUME NEW S, NEW s \in Seq(S), NEW i \in S
  PROVE  LET t == <<i>> \o s
         IN  /\ t \in Seq(S)
             /\ Len(t) = Len(s) + 1
             /\ t[1] = i
             /\ \A m \in 2..Len(t) : m - 1 \in 1..Len(s) /\ t[m] = s[m - 1]
             /\ \A m \in 1..Len(s) : m + 1 \in 2..Len(t) /\ t[m + 1] = s[m]
OBVIOUS

(* One turn of lima_pp_lir_schedule_block: what becomes ready is queued.   *)
LEMMA PullKeepsQueue ==
  ASSUME SchedInv, NEW i \in Instrs, Pull(i)
  PROVE  QueueInv'
<1>1. /\ pc = "pull" /\ pc' = "pull" /\ block' = block /\ deps' = deps
      /\ visited' = visited \cup {i}
      /\ queue' = (queue \ {i}) \cup NewlyReady(i)
      /\ i \in queue /\ queue = Waiting
  BY DEF Pull, depVars, SchedInv, QueueInv
<1>2. Instrs' = Instrs /\ visited \subseteq Instrs
  BY <1>1 DEF Instrs, SchedInv, QueueInv
<1>3. \A p : <<p, i>> \in deps => p # i /\ p \in Instrs
  BY InstrsFacts DEF SchedInv, GraphInv, EdgesInv, Edges
<1>4. \A v \in visited : Succs(deps, v) \subseteq visited
  BY DEF SchedInv, OrderInv
<1>5. i \in Instrs \ visited
  BY <1>1 DEF Waiting
<1>6. ASSUME NEW p
      PROVE  p \in Waiting' <=> p \in queue'
  <2>1. p \in Waiting' <=> p \in Instrs \ visited' /\ Succs(deps, p) \subseteq visited'
    BY <1>1, <1>2 DEF Waiting, Succs
  <2>2. p \in queue' <=> (p \in queue /\ p # i) \/ p \in NewlyReady(i)
    BY <1>1
  <2>3. p \in NewlyReady(i) <=> p \in Instrs /\ <<p, i>> \in deps /\ Succs(deps, p) \subseteq visited'
    BY <1>1 DEF NewlyReady, Preds
  <2>4. p \in queue <=> p \in Instrs \ visited /\ Succs(deps, p) \subseteq visited
    BY <1>1 DEF Waiting
  <2>5. CASE <<p, i>> \in deps
    <3>1. p # i /\ p \in Instrs /\ i \in Succs(deps, p)
      BY <2>5, <1>3 DEF Succs
    <3>2. p \notin visited
      BY <3>1, <1>4, <1>5
    <3>3. p \notin queue
      BY <3>1, <2>4, <1>5
    <3> QED BY <3>1, <3>2, <3>3, <2>1, <2>2, <2>3, <2>5, <1>1
  <2>6. CASE <<p, i>> \notin deps
    <3>1. i \notin Succs(deps, p)
      BY <2>6 DEF Succs
    <3> QED BY <3>1, <2>6, <2>1, <2>2, <2>3, <2>4, <1>1
  <2> QED BY <2>5, <2>6
<1> QED BY <1>1, <1>2, <1>6 DEF QueueInv

(* ... and the list stays one of the visited instructions, without an edge *)
(* that leads backwards.                                                   *)
LEMMA PullKeepsOrder ==
  ASSUME SchedInv, NEW i \in Instrs, Pull(i)
  PROVE  OrderInv'
<1>1. /\ deps' = deps /\ Instrs' = Instrs
      /\ visited' = visited \cup {i}
      /\ order' = <<i>> \o order
      /\ i \in Waiting
  BY DEF Pull, depVars, SchedInv, QueueInv, Instrs
<1>2. i \notin visited /\ Succs(deps, i) \subseteq visited
  BY <1>1 DEF Waiting
<1>3. /\ order \in Seq(Instrs)
      /\ \A m \in 1..Len(order) : order[m] \in visited
      /\ \A v \in visited : \E m \in 1..Len(order) : order[m] = v
      /\ \A m, n \in 1..Len(order) : order[m] = order[n] => m = n
      /\ \A v \in visited : Succs(deps, v) \subseteq visited
      /\ \A m, n \in 1..Len(order) : <<order[m], order[n]>> \in deps => m < n
  BY DEF SchedInv, OrderInv
<1>4. /\ order' \in Seq(Instrs)
      /\ Len(order') = Len(order) + 1
      /\ order'[1] = i
      /\ \A m \in 2..Len(order') : m - 1 \in 1..Len(order) /\ order'[m] = order[m - 1]
      /\ \A m \in 1..Len(order) : m + 1 \in 2..Len(order') /\ order'[m + 1] = order[m]
  BY <1>1, <1>3, Prepended
<1>5. Len(order) \in Nat
  BY <1>3
<1>5a. \A m, n \in 1..Len(order) : order[m] = order[n] => m = n
  BY <1>3
<1>6. \A m \in 1..Len(order') : m = 1 \/ m \in 2..Len(order')
  BY <1>4, <1>5
<1>7. \A m \in 1..Len(order') : order'[m] \in visited'
  BY <1>1, <1>3, <1>4, <1>6
<1>8. \A v \in visited' : \E m \in 1..Len(order') : order'[m] = v
  <2>1. 1 \in 1..Len(order') /\ 2..Len(order') \subseteq 1..Len(order')
    BY <1>4, <1>5
  <2>2. ASSUME NEW v \in visited PROVE \E m \in 1..Len(order') : order'[m] = v
    <3>1. PICK m \in 1..Len(order) : order[m] = v
      BY <1>3
    <3> QED BY <3>1, <2>1, <1>4
  <2> QED BY <2>1, <2>2, <1>1, <1>4
<1>9. ASSUME NEW m \in 1..Len(order'), NEW n \in 1..Len(order'), order'[m] = order'[n]
      PROVE  m = n
  <2>. \A k \in 2..Len(order') : order'[k] # i
    BY <1>2, <1>3, <1>4
  <2>1. CASE m = 1
    BY <2>1, <1>4, <1>6, <1>9
  <2>2. CASE n = 1
    BY <2>2, <1>4, <1>6, <1>9
  <2>3. CASE m \in 2..Len(order') /\ n \in 2..Len(order')
    <3>1. /\ m - 1 \in 1..Len(order) /\ n - 1 \in 1..Len(order)
          /\ order[m - 1] = order[n - 1]
      BY <2>3, <1>4, <1>9
    <3>2. m - 1 = n - 1
      BY <3>1, <1>5a
    <3> QED BY <3>2, <2>3
  <2> QED BY <2>1, <2>2, <2>3, <1>6
<1>10. \A v \in visited' : Succs(deps, v) \subseteq visited'
  BY <1>1, <1>2, <1>3
<1>11. ASSUME NEW m \in 1..Len(order'), NEW n \in 1..Len(order'),
              <<order'[m], order'[n]>> \in deps
       PROVE  m < n
  <2>1. <<i, i>> \notin deps
    BY InstrsFacts DEF SchedInv, GraphInv, EdgesInv, Edges
  <2>2. CASE n = 1 /\ m \in 2..Len(order')
    <3>1. order'[m] \in visited /\ order'[n] = i
      BY <2>2, <1>3, <1>4
    <3>2. i \in Succs(deps, order'[m])
      BY <3>1, <1>11 DEF Succs
    <3> QED BY <3>1, <3>2, <1>2, <1>3
  <2>3. CASE m \in 2..Len(order') /\ n \in 2..Len(order')
    <3>1. m - 1 < n - 1
      BY <2>3, <1>3, <1>4, <1>11
    <3> QED BY <3>1, <2>3
  <2>4. CASE m = 1 /\ n = 1
    BY <2>1, <2>4, <1>4, <1>11
  <2>5. CASE m = 1 /\ n \in 2..Len(order')
    BY <2>5
  <2> QED BY <2>2, <2>3, <2>4, <2>5, <1>6
<1>12. \A v \in visited' : Succs(deps, v)' \subseteq visited'
  BY <1>1, <1>10 DEF Succs
<1>13. \A m, n \in 1..Len(order') : order'[m] = order'[n] => m = n
  BY <1>9
<1>14. \A m, n \in 1..Len(order') : <<order'[m], order'[n]>> \in deps' => m < n
  BY <1>1, <1>11
<1>15. order' \in Seq(Instrs')
  BY <1>1, <1>4
<1> QED BY <1>7, <1>8, <1>12, <1>13, <1>14, <1>15 DEF OrderInv
-----------------------------------------------------------------------------
\* The edges that are left when the loop has come to cur.
MinInv ==
  /\ pc = "deps" => min_deps = deps
  /\ pc = "min" => min_deps = {e \in deps : e[1] < cur => e[2] \notin Beyond(deps, e[1])}
  /\ pc \notin {"deps", "min"} => min_deps = Reduced(deps)

LEMMA Minimal ==
  ASSUME GraphInv, MinInv
  PROVE  MinDepsReduced
<1> SUFFICES ASSUME pc \notin {"deps", "min"}
             PROVE  /\ Below(min_deps) = Below(deps)
                    /\ \A e \in min_deps : e[2] \notin Below(min_deps \ {e})[e[1]]
  BY DEF MinDepsReduced
<1>1. min_deps = Reduced(deps) /\ IsBlock(block) /\ deps \in SUBSET Edges
  BY DEF MinInv, GraphInv, EdgesInv
<1> QED BY <1>1, ReducedSame, ReducedLean
-----------------------------------------------------------------------------
LEMMA SchedInit == Init => SchedInv
<1> SUFFICES ASSUME Init PROVE SchedInv
  OBVIOUS
<1>1. block \in Seq(InstrType) \ {<<>>} /\ deps = {} /\ pc = "deps" /\ cur = 1
  BY BlocksAssumption DEF Init, DepInit
<1>2. GraphInv
  BY <1>1, SeqIsBlock, InstrsFacts DEF GraphInv, EdgesInv, Instrs
<1>3. QueueInv /\ OrderInv
  BY <1>1 DEF Init, QueueInv, OrderInv
<1> QED BY <1>2, <1>3 DEF SchedInv

\* The steps before the first instruction is pulled.
LEMMA NothingScheduledYet ==
  ASSUME SchedInv, block' = block,
         pc' \in {"deps", "min", "schedule", "pressure", "dist", "pull"},
         visited = {}, visited' = visited, order = <<>>, order' = order,
         queue' = IF pc' = "pull" THEN {i \in Instrs : Succs(deps', i) = {}} ELSE {}
  PROVE  QueueInv' /\ OrderInv'
<1>1. Instrs' = Instrs
  BY DEF Instrs
<1>2. Waiting' = {i \in Instrs : Succs(deps', i) = {}}
  BY <1>1 DEF Waiting, Succs
<1>3. QueueInv'
  BY <1>2 DEF QueueInv
<1>4. OrderInv'
  BY DEF OrderInv
<1> QED BY <1>3, <1>4

(* Every step of the analysis and of the schedule keeps the invariant      *)
(* (lima_pp_lir_calc_dep_info to lima_pp_lir_schedule_block).              *)
LEMMA SchedStep == SchedInv /\ [Next]_vars => SchedInv'
<1> SUFFICES ASSUME SchedInv, [Next]_vars PROVE SchedInv'
  OBVIOUS
<1>1. Len(block) \in Nat \ {0} /\ 1 \in Instrs /\ cur \in Instrs
  BY InstrsFacts DEF SchedInv, GraphInv, EdgesInv
<1>2. ASSUME NEW phase, Advance(phase), block' = block
      PROVE  cur' \in Instrs /\ pc' \in {pc, phase}
  <2>1. CASE cur < Len(block)
    BY <1>1, <1>2, <2>1 DEF Advance, Instrs
  <2>2. CASE ~ (cur < Len(block))
    BY <1>1, <1>2, <2>2 DEF Advance, Instrs
  <2> QED BY <2>1, <2>2
<1>3. CASE AddDepInstr /\ UNCHANGED schedVars
  <2>1. GraphInv'
    BY <1>3, GraphGrows DEF SchedInv
  <2>2. pc = "deps" /\ block' = block /\ pc' \in {"deps", "min"}
    BY <1>2, <1>3 DEF AddDepInstr
  <2>3. QueueInv' /\ OrderInv'
    BY <1>3, <2>2, NothingScheduledYet DEF SchedInv, QueueInv, schedVars
  <2> QED BY <2>1, <2>3 DEF SchedInv
<1>4. CASE CalcMinDepInfo /\ UNCHANGED schedVars
  <2>1. pc = "min" /\ block' = block /\ deps' = deps /\ cur' \in Instrs /\ pc' \in {"min", "schedule"}
    BY <1>2, <1>4 DEF CalcMinDepInfo
  <2>2. GraphInv'
    BY <2>1, GraphKept DEF SchedInv, Instrs
  <2>3. QueueInv' /\ OrderInv'
    BY <1>4, <2>1, NothingScheduledYet DEF SchedInv, QueueInv, schedVars
  <2> QED BY <2>2, <2>3 DEF SchedInv
<1>5. CASE StartSimple
  <2>1. /\ pc = "schedule" /\ pc' = "pull" /\ block' = block /\ deps' = deps /\ cur' = cur
        /\ visited' = visited /\ order' = order /\ queue' = Roots
    BY <1>5 DEF StartSimple
  <2>2. GraphInv'
    BY <1>1, <2>1, GraphKept DEF SchedInv, Instrs
  <2>3. QueueInv' /\ OrderInv'
    BY <2>1, NothingScheduledYet DEF SchedInv, QueueInv, Roots
  <2> QED BY <2>2, <2>3 DEF SchedInv
<1>6. CASE CutFanOutNodes
  <2>1. /\ pc = "schedule" /\ pc' = "pressure" /\ block' = block /\ deps' = deps /\ cur' = cur
        /\ visited' = visited /\ order' = order /\ queue' = queue
    BY <1>6 DEF CutFanOutNodes
  <2>2. GraphInv'
    BY <1>1, <2>1, GraphKept DEF SchedInv, Instrs
  <2>3. QueueInv' /\ OrderInv'
    BY <2>1, NothingScheduledYet DEF SchedInv, QueueInv
  <2> QED BY <2>2, <2>3 DEF SchedInv
<1>7. CASE CalcPressure
  <2>1. /\ pc = "pressure" /\ block' = block /\ deps' = deps
        /\ visited' = visited /\ order' = order /\ queue' = queue
    BY <1>7 DEF CalcPressure
  <2>2. cur' \in Instrs /\ pc' \in {"pressure", "dist"}
    BY <1>2, <1>7, <2>1 DEF CalcPressure
  <2>3. GraphInv'
    BY <2>1, <2>2, GraphKept DEF SchedInv, Instrs
  <2>4. QueueInv' /\ OrderInv'
    BY <2>1, <2>2, NothingScheduledYet DEF SchedInv, QueueInv
  <2> QED BY <2>3, <2>4 DEF SchedInv
<1>8. CASE CalcMaxDist
  <2>1. /\ pc = "dist" /\ block' = block /\ deps' = deps
        /\ visited' = visited /\ order' = order
        /\ queue' = IF pc' = "pull" THEN Roots ELSE queue
    BY <1>8 DEF CalcMaxDist
  <2>2. cur' \in Instrs /\ pc' \in {"dist", "pull"}
    BY <1>2, <1>8, <2>1 DEF CalcMaxDist
  <2>3. GraphInv'
    BY <2>1, <2>2, GraphKept DEF SchedInv, Instrs
  <2>4. QueueInv' /\ OrderInv'
    BY <2>1, <2>2, NothingScheduledYet DEF SchedInv, QueueInv, Roots
  <2> QED BY <2>3, <2>4 DEF SchedInv
<1>9. ASSUME NEW i \in Instrs, Pull(i) PROVE SchedInv'
  <2>1. pc = "pull" /\ pc' = "pull" /\ block' = block /\ deps' = deps /\ cur' = cur
    BY <1>9 DEF Pull, depVars
  <2>2. GraphInv'
    BY <1>1, <2>1, GraphKept DEF SchedInv, Instrs
  <2> QED BY <1>9, <2>2, PullKeepsQueue, PullKeepsOrder DEF SchedInv
<1>10. CASE Finish
  <2>1. /\ pc = "pull" /\ pc' = "done" /\ block' = block /\ deps' = deps /\ cur' = cur
        /\ visited' = visited /\ order' = order /\ Waiting = {} /\ queue' = {}
    BY <1>10 DEF Finish, schedVars, SchedInv, QueueInv
  <2>2. GraphInv'
    BY <1>1, <2>1, GraphKept DEF SchedInv, Instrs
  <2>3. visited = Instrs
    <3> SUFFICES ASSUME Instrs \ visited # {} PROVE FALSE
      BY DEF SchedInv, QueueInv
    <3>1. PICK m \in Instrs \ visited : \A k \in Instrs \ visited : k <= m
      BY <1>1, LastExists DEF Instrs
    <3>2. \A k \in Succs(deps, m) : k \in Instrs /\ m < k /\ ~ (k <= m)
      BY <1>1, InstrsFacts DEF Succs, SchedInv, GraphInv, EdgesInv, Edges
    <3>3. Succs(deps, m) \subseteq visited
      BY <3>1, <3>2
    <3> QED BY <2>1, <3>1, <3>3 DEF Waiting
  <2>4. QueueInv'
    BY <2>1, <2>3 DEF QueueInv, Instrs
  <2>5. OrderInv'
    BY <2>1 DEF SchedInv, OrderInv, Instrs, Succs
  <2> QED BY <2>2, <2>4, <2>5 DEF SchedInv
<1>11. CASE UNCHANGED vars
  <2>1. /\ block' = block /\ pc' = pc /\ cur' = cur /\ deps' = deps
        /\ queue' = queue /\ visited' = visited /\ order' = order
    BY <1>11 DEF vars, depVars, schedVars
  <2>2. Instrs' = Instrs /\ Edges' = Edges
    BY <2>1 DEF Instrs, Edges
  <2>3. \A i : Direct(i)' = Direct(i) /\ Succs(deps, i)' = Succs(deps, i)
    BY <2>1 DEF Direct, TrueDepsOf, AntiDepsOf, TempDepsOf, Remaining, Succs, Instrs
  <2>4. GraphInv'
    BY <2>1, <2>2, <2>3 DEF SchedInv, GraphInv, EdgesInv
  <2>5. QueueInv' /\ OrderInv'
    BY <2>1, <2>2, <2>3 DEF SchedInv, QueueInv, OrderInv, Waiting
  <2> QED BY <2>4, <2>5 DEF SchedInv
<1> QED
  BY <1>3, <1>4, <1>5, <1>6, <1>8, <1>9, <1>10, <1>11, <1>7 DEF Next, Analyse, Done
-----------------------------------------------------------------------------
(* What the analyses compute: numbers for every instruction, and fewer and *)
(* fewer edges (reg_pressure_scheduler.c, dep_info.c).                     *)

Numbers == [Instrs -> Nat]

ValuesInv ==
  /\ policy \in {"simple", "reg_pressure"}
  /\ true_deps \subseteq deps
  /\ pressure \in {<<>>} \cup Numbers
  /\ max_dist \in {<<>>} \cup Numbers
  /\ pc = "pressure" => pressure \in Numbers
  /\ pc = "dist" => max_dist \in Numbers

\* A sequence of some instructions, each with a number.
LEMMA Enumerated ==
  ASSUME block \in Seq(InstrType) \ {<<>>}, NEW P \in SUBSET Instrs, NEW s \in SetToSeqs(P)
  PROVE  /\ Len(s) \in Nat /\ DOMAIN s = 1..Len(s)
         /\ \A k \in 1..Len(s) : s[k] \in Instrs
<1>1. Cardinality(P) \in Nat
  <2>1. IsFiniteSet(Instrs)
    BY InstrsFacts, FS_Interval DEF Instrs
  <2>2. IsFiniteSet(P)
    BY <2>1, FS_Subset
  <2> QED BY <2>2, FS_CardinalityType
<1>2. s \in [1..Cardinality(P) -> P]
  BY DEF SetToSeqs
<1> DEFINE n == Cardinality(P)
<1>3. n \in Nat /\ s \in [1..n -> P]
  BY <1>1, <1>2
<1> HIDE DEF n
<1>4. Len(s) = n /\ DOMAIN s = 1..n
  BY <1>3
<1>5. \A k \in 1..n : s[k] \in P
  BY <1>3
<1> QED BY <1>3, <1>4, <1>5

LEMMA PressureIsNumber ==
  ASSUME block \in Seq(InstrType) \ {<<>>}, pressure \in Numbers,
         NEW P \in SUBSET Instrs, NEW s \in SetToSeqs(P)
  PROVE  RegPressure(s) \in Nat
<1> DEFINE g == [k \in 1..Len(s) |-> pressure[s[k]] + Len(s) - k]
<1>1. Len(s) \in Nat /\ DOMAIN s = 1..Len(s) /\ \A k \in 1..Len(s) : s[k] \in Instrs
  BY Enumerated
<1>2. ASSUME NEW k \in 1..Len(s) PROVE pressure[s[k]] + Len(s) - k \in Nat
  <2>1. pressure[s[k]] \in Nat
    BY <1>1 DEF Numbers
  <2> QED BY <1>1, <2>1
<1>3. g \in [1..Len(s) -> Nat]
  BY <1>2
<1>4. RegPressure(s) = Max({0} \cup {g[k] : k \in 1..Len(s)})
  <2>1. {pressure[s[k]] + Len(s) - k : k \in DOMAIN s} = {g[k] : k \in 1..Len(s)}
    BY <1>1
  <2> QED BY <2>1 DEF RegPressure
<1> QED
  <2> HIDE DEF g
  <2> QED BY <1>1, <1>3, <1>4, MaxOfValues

LEMMA DistIsNumber ==
  ASSUME block \in Seq(InstrType) \ {<<>>}, max_dist \in Numbers,
         NEW P \in SUBSET Instrs, NEW s \in SetToSeqs(P)
  PROVE  MaxDist(s) \in Nat
<1> DEFINE g == [k \in 1..Len(s) |-> max_dist[s[k]] + Len(s) + 1 - k]
<1>1. Len(s) \in Nat /\ DOMAIN s = 1..Len(s) /\ \A k \in 1..Len(s) : s[k] \in Instrs
  BY Enumerated
<1>2. ASSUME NEW k \in 1..Len(s) PROVE max_dist[s[k]] + Len(s) + 1 - k \in Nat
  <2>1. max_dist[s[k]] \in Nat
    BY <1>1 DEF Numbers
  <2> QED BY <1>1, <2>1
<1>3. g \in [1..Len(s) -> Nat]
  BY <1>2
<1>4. MaxDist(s) = Max({Len(s)} \cup {g[k] : k \in 1..Len(s)})
  <2>1. {max_dist[s[k]] + Len(s) + 1 - k : k \in DOMAIN s} = {g[k] : k \in 1..Len(s)}
    BY <1>1
  <2> QED BY <2>1 DEF MaxDist
<1> QED
  <2> HIDE DEF g
  <2> QED BY <1>1, <1>3, <1>4, MaxOfValues

LEMMA PredsAreInstrs ==
  ASSUME NEW E, NEW i
  PROVE  Preds(E, i) \in SUBSET Instrs
BY DEF Preds

LEMMA ValuesInit == Init => ValuesInv /\ MinInv
BY PoliciesAssumption DEF Init, DepInit, ValuesInv, MinInv

(* Every step keeps them; calc_min_dep_info takes from an instruction the  *)
(* edges it has a longer path for.                                         *)
LEMMA ValuesStep ==
  ASSUME SchedInv, ValuesInv, MinInv, [Next]_vars
  PROVE  ValuesInv' /\ MinInv'
<1>1. /\ block \in Seq(InstrType) \ {<<>>} /\ Len(block) \in Nat \ {0}
      /\ cur \in 1..Len(block) /\ deps \subseteq Edges
      /\ pc \in {"deps", "min", "schedule", "pressure", "dist", "pull", "done"}
  BY InstrsFacts DEF SchedInv, GraphInv, EdgesInv, Instrs
<1>2. ASSUME NEW phase, Advance(phase)
      PROVE  \/ cur < Len(block) /\ cur' = cur + 1 /\ pc' = pc
             \/ cur = Len(block) /\ cur' = 1 /\ pc' = phase
  <2>1. CASE cur < Len(block)
    BY <1>2, <2>1 DEF Advance
  <2>2. CASE ~ (cur < Len(block))
    BY <1>1, <1>2, <2>2 DEF Advance
  <2> QED BY <2>1, <2>2
<1>3. CASE AddDepInstr /\ UNCHANGED schedVars
  <2>1. /\ pc = "deps" /\ pc' \in {"deps", "min"} /\ (pc' = "min" => cur' = 1)
        /\ block' = block /\ min_deps' = deps'
        /\ policy' = policy /\ pressure' = pressure /\ max_dist' = max_dist
    BY <1>2, <1>3 DEF AddDepInstr, schedVars
  <2>2. true_deps' \subseteq deps'
    BY <1>3 DEF AddDepInstr, NewTrueDeps, NewDeps, ValuesInv
  <2>3. deps' \subseteq Edges'
    BY <1>3, GraphGrows DEF SchedInv, GraphInv, EdgesInv
  <2>4. \A e \in deps' : ~ (e[1] < 1)
    BY <1>1, <2>1, <2>3 DEF Edges, Instrs
  <2>5. MinInv'
    BY <2>1, <2>4 DEF MinInv
  <2> QED BY <2>1, <2>2, <2>5 DEF ValuesInv, Numbers, Instrs
<1>4. CASE CalcMinDepInfo /\ UNCHANGED schedVars
  <2>1. /\ pc = "min" /\ pc' \in {"min", "schedule"}
        /\ \/ cur < Len(block) /\ cur' = cur + 1 /\ pc' = "min"
           \/ cur = Len(block) /\ pc' = "schedule"
        /\ block' = block /\ deps' = deps /\ true_deps' = true_deps
        /\ min_deps' = min_deps \ ({cur} \X Beyond(deps, cur))
        /\ policy' = policy /\ pressure' = pressure /\ max_dist' = max_dist
    BY <1>2, <1>4, IndirectIs DEF CalcMinDepInfo, schedVars
  <2>2. \A i : Beyond(deps, i)' = Beyond(deps, i)
    BY <2>1 DEF Beyond, Reached, Closed, Succs, Instrs
  <2>3. ASSUME NEW e \in deps
        PROVE  e \in min_deps' <=> (e[1] < cur + 1 => e[2] \notin Beyond(deps, e[1]))
    <3>1. e = <<e[1], e[2]>> /\ e[1] \in 1..Len(block)
      BY <1>1 DEF Edges, Instrs
    <3>2. e[1] < cur + 1 <=> e[1] < cur \/ e[1] = cur
      BY <1>1, <3>1
    <3>3. e \in min_deps <=> (e[1] < cur => e[2] \notin Beyond(deps, e[1]))
      BY <2>1 DEF MinInv
    <3>4. e \in {cur} \X Beyond(deps, cur) <=> e[1] = cur /\ e[2] \in Beyond(deps, cur)
      BY <3>1
    <3> QED BY <2>1, <3>2, <3>3, <3>4
  <2>4. min_deps' \subseteq deps
    BY <2>1 DEF MinInv
  <2>5. CASE pc' = "min"
    <3>1. cur' = cur + 1
      BY <2>1, <2>5
    <3>2. min_deps' = {e \in deps : e[1] < cur + 1 => e[2] \notin Beyond(deps, e[1])}
      BY <2>3, <2>4
    <3>3. MinInv'
      BY <2>1, <2>2, <2>5, <3>1, <3>2 DEF MinInv
    <3> QED BY <2>1, <2>5, <3>3 DEF ValuesInv, Numbers, Instrs
  <2>6. CASE pc' = "schedule"
    <3>1. \A e \in deps : e[1] < cur + 1
      BY <1>1, <2>1, <2>6 DEF Edges, Instrs
    <3>2. min_deps' = {e \in deps : e[2] \notin Beyond(deps, e[1])}
      BY <2>3, <2>4, <3>1
    <3>3. MinInv'
      BY <2>1, <2>2, <2>6, <3>2 DEF MinInv, Reduced
    <3> QED BY <2>1, <2>6, <3>3 DEF ValuesInv, Numbers, Instrs
  <2> QED BY <2>1, <2>5, <2>6
\* The steps behind leave the graph alone.
<1> DEFINE Kept == block' = block /\ deps' = deps /\ min_deps' = min_deps /\ policy' = policy
<1>5. ASSUME Kept, pc \notin {"deps", "min"}, pc' \notin {"deps", "min"}
      PROVE  MinInv' /\ Numbers' = Numbers /\ Instrs' = Instrs
  <2>1. Instrs' = Instrs /\ Numbers' = Numbers
    BY <1>5 DEF Instrs, Numbers
  <2>2. Reduced(deps)' = Reduced(deps)
    BY <1>5, <2>1 DEF Reduced, Beyond, Reached, Closed, Succs
  <2>3. min_deps = Reduced(deps)
    BY <1>1, <1>5 DEF MinInv
  <2>4. MinInv'
    BY <1>5, <2>2, <2>3 DEF MinInv
  <2> QED BY <2>1, <2>4
<1>6. CASE StartSimple
  <2>1. /\ Kept /\ pc = "schedule" /\ pc' = "pull"
        /\ true_deps' = true_deps /\ pressure' = pressure /\ max_dist' = max_dist
    BY <1>6 DEF StartSimple
  <2> QED BY <1>5, <2>1 DEF ValuesInv
<1>7. CASE CutFanOutNodes
  <2>1. /\ Kept /\ pc = "schedule" /\ pc' = "pressure" /\ true_deps' \subseteq true_deps
        /\ pressure' \in Numbers /\ max_dist' = max_dist
    BY <1>7 DEF CutFanOutNodes, CutFanOut, Numbers
  <2> QED BY <1>5, <2>1 DEF ValuesInv
<1>8. CASE CalcPressure
  <2>1. PICK s \in SetToSeqs(Preds(true_deps, cur)) :
          pressure' = [pressure EXCEPT ![cur] = RegPressure(s)]
    BY <1>8 DEF CalcPressure, ByOwnPressure
  <2>2. /\ Kept /\ pc = "pressure" /\ pc' \in {"pressure", "dist"} /\ true_deps' = true_deps
        /\ max_dist' = IF pc' = "dist" THEN [i \in Instrs |-> 0] ELSE max_dist
    BY <1>2, <1>8 DEF CalcPressure
  <2>3. pressure \in Numbers
    BY <2>2 DEF ValuesInv
  <2>4. RegPressure(s) \in Nat
    BY <1>1, <2>3, PredsAreInstrs, PressureIsNumber
  <2>5. pressure' \in Numbers
    BY <2>1, <2>3, <2>4 DEF Numbers
  <2>6. pc' = "dist" => max_dist' \in Numbers
    BY <2>2 DEF Numbers
  <2> QED BY <1>5, <2>2, <2>5, <2>6 DEF ValuesInv
<1>9. CASE CalcMaxDist
  <2>1. PICK s \in SetToSeqs(Preds(deps, cur)) :
          max_dist' = [max_dist EXCEPT ![cur] = MaxDist(s)]
    BY <1>9 DEF CalcMaxDist
  <2>2. /\ Kept /\ pc = "dist" /\ pc' \in {"dist", "pull"} /\ true_deps' = true_deps
        /\ pressure' = pressure
    BY <1>2, <1>9 DEF CalcMaxDist
  <2>3. max_dist \in Numbers
    BY <2>2 DEF ValuesInv
  <2>4. MaxDist(s) \in Nat
    BY <1>1, <2>3, PredsAreInstrs, DistIsNumber
  <2>5. max_dist' \in Numbers
    BY <2>1, <2>3, <2>4 DEF Numbers
  <2> QED BY <1>5, <2>2, <2>5 DEF ValuesInv
<1>10. ASSUME NEW i \in Instrs, Pull(i) PROVE ValuesInv' /\ MinInv'
  <2>1. /\ Kept /\ pc = "pull" /\ pc' = "pull" /\ true_deps' = true_deps
        /\ pressure' = pressure /\ max_dist' = max_dist
    BY <1>10 DEF Pull, depVars
  <2> QED BY <1>5, <2>1 DEF ValuesInv
<1>11. CASE Finish
  <2>1. /\ Kept /\ pc = "pull" /\ pc' = "done" /\ true_deps' = true_deps
        /\ pressure' = pressure /\ max_dist' = max_dist
    BY <1>11 DEF Finish, schedVars
  <2> QED BY <1>5, <2>1 DEF ValuesInv
<1>12. CASE UNCHANGED vars
  <2>1. UNCHANGED <<block, pc, cur, deps, true_deps, min_deps, policy, pressure, max_dist>>
    BY <1>12 DEF vars, depVars, schedVars
  <2>2. Instrs' = Instrs /\ Numbers' = Numbers
    BY <2>1 DEF Instrs, Numbers
  <2>3. \A i : Beyond(deps, i)' = Beyond(deps, i)
    BY <2>1, <2>2 DEF Beyond, Reached, Closed, Succs
  <2>4. Reduced(deps)' = Reduced(deps)
    BY <2>1, <2>3 DEF Reduced
  <2>5. ValuesInv'
    BY <2>1, <2>2 DEF ValuesInv
  <2>6. MinInv'
    BY <2>1, <2>3, <2>4 DEF MinInv
  <2> QED BY <2>5, <2>6
<1> QED
  BY <1>3, <1>4, <1>6, <1>7, <1>8, <1>9, <1>10, <1>11, <1>12 DEF Next, Analyse, Done

LEMMA Typed ==
  ASSUME SchedInv, ValuesInv, MinInv
  PROVE  TypeOK
<1>1. /\ block \in Seq(InstrType) /\ cur \in Instrs /\ deps \subseteq Edges
      /\ pc \in {"deps", "min", "schedule", "pressure", "dist", "pull", "done"}
      /\ visited \subseteq Instrs /\ order \in Seq(Instrs)
  BY DEF SchedInv, GraphInv, EdgesInv, QueueInv, OrderInv
<1>2. queue \subseteq Instrs \ visited
  BY <1>1 DEF SchedInv, QueueInv, Waiting
<1>3. min_deps \subseteq deps
  BY <1>1 DEF MinInv, Reduced
<1> QED BY <1>1, <1>2, <1>3 DEF TypeOK, ValuesInv, Numbers
-----------------------------------------------------------------------------
\* The place of an instruction of the finished list.
LEMMA PlaceIs ==
  ASSUME SchedInv, pc = "done", NEW i \in Instrs
  PROVE  Place(i) \in 1..Len(order) /\ order[Place(i)] = i
<1>1. PICK m \in 1..Len(order) : order[m] = i
  BY DEF SchedInv, QueueInv, OrderInv
<1>2. Len(order) \in Nat
  BY DEF SchedInv, OrderInv
<1> DEFINE I == {n \in 1..Len(order) : order[n] = i}
<1>3. I = {m}
  BY <1>1 DEF SchedInv, OrderInv
<1>4. Min(I) = m
  BY <1>1, <1>2, <1>3 DEF Min
<1>5. Place(i) = Min(I)
  BY <1>3 DEF Place, SelectInSeq
<1> QED BY <1>1, <1>4, <1>5

LEMMA EdgesOrdered ==
  ASSUME SchedInv, pc = "done", NEW i \in Instrs, NEW j \in Direct(i)
  PROVE  j \in Instrs => Place(i) < Place(j)
<1> SUFFICES ASSUME j \in Instrs PROVE Place(i) < Place(j)
  OBVIOUS
<1>1. i < j /\ i < Len(block)
  BY InstrsFacts DEF Direct, TrueDepsOf, AntiDepsOf, TempDepsOf, SchedInv, GraphInv, Instrs
<1>2. <<i, j>> \in deps
  BY <1>1 DEF SchedInv, GraphInv, EdgesInv
<1> QED BY <1>2, PlaceIs DEF SchedInv, OrderInv

(* The last instruction that had changed places with one it conflicts with *)
(* would have an edge to that one, or to one in between that did.          *)
LEMMA InOrder ==
  ASSUME SchedInv
  PROVE  ConflictsKeepOrder
<1> SUFFICES ASSUME pc = "done"
             PROVE  \A i, j \in Instrs :
                      i < j /\ Conflict(block[i], block[j]) => Place(i) < Place(j)
  BY DEF ConflictsKeepOrder
<1> DEFINE Wrong(i, j) == i < j /\ Conflict(block[i], block[j]) /\ ~ (Place(i) < Place(j))
           Bad == {i \in Instrs : \E j \in Instrs : Wrong(i, j)}
<1>1. IsBlock(block) /\ Len(block) \in Nat /\ Instrs \subseteq Nat
  BY InstrsFacts DEF SchedInv, GraphInv, EdgesInv
<1>2. Bad = {}
  <2> SUFFICES ASSUME Bad # {} PROVE FALSE
    OBVIOUS
  <2>1. PICK i \in Bad : \A k \in Bad : k <= i
    <3>1. Bad \in SUBSET (1..Len(block))
      BY DEF Instrs
    <3> HIDE DEF Bad
    <3> QED BY <1>1, <3>1, LastExists
  <2>2. PICK j \in Instrs : Wrong(i, j)
    OBVIOUS
  <2>3. i \in Instrs /\ Len(order) \in Nat
    BY DEF SchedInv, OrderInv
  <2>4. j \notin Direct(i)
    BY <2>2, <2>3, EdgesOrdered
  <2>5. PICK k \in (i + 1)..(j - 1) : k \in Direct(i) /\ Conflict(block[k], block[j])
    BY <1>1, <2>2, <2>3, <2>4, ConflictStep
  <2>6. k \in Instrs /\ i < k /\ k < j
    BY <1>1, <2>3, <2>5 DEF Instrs
  <2>7. Place(i) < Place(k)
    BY <2>3, <2>5, <2>6, EdgesOrdered
  <2>8. k \notin Bad
    <3>1. ~ (k <= i)
      BY <1>1, <2>3, <2>6
    <3> QED BY <2>1, <3>1
  <2>9. Place(k) < Place(j)
    BY <2>5, <2>6, <2>8
  <2>10. Place(i) \in Nat /\ Place(j) \in Nat /\ Place(k) \in Nat
    BY <2>3, <2>6, PlaceIs
  <2> QED BY <2>2, <2>7, <2>9, <2>10
<1> QED BY <1>2

(* lima_pp_lir_schedule_block puts back every instruction once, for every  *)
(* block and both policies.                                                *)
LEMMA OnceEach ==
  ASSUME SchedInv
  PROVE  EveryInstrScheduledOnce
<1> SUFFICES ASSUME pc = "done"
             PROVE  Len(order) = Len(block) /\ ToSet(order) = Instrs
  BY DEF EveryInstrScheduledOnce
<1>1. Len(order) \in Nat /\ DOMAIN order = 1..Len(order) /\ Len(block) \in Nat
  BY InstrsFacts DEF SchedInv, OrderInv, GraphInv
<1>2. ToSet(order) = Instrs
  BY <1>1 DEF ToSet, SchedInv, QueueInv, OrderInv
<1>3. order \in Bijection(1..Len(order), 1..Len(block))
  BY <1>1 DEF Bijection, Injection, Surjection, IsInjective, SchedInv, QueueInv, OrderInv, Instrs
<1>4. Cardinality(1..Len(order)) = Cardinality(1..Len(block))
  BY <1>1, <1>3, FS_Interval, FS_Bijection DEF ExistsBijection
<1>5. Len(order) = Len(block)
  <2>1. \A n \in Nat : Cardinality(1..n) = n
    <3> TAKE n \in Nat
    <3>1. Cardinality(1..n) = IF 1 > n THEN 0 ELSE n - 1 + 1
      BY FS_Interval
    <3> QED BY <3>1
  <2> QED BY <1>1, <1>4, <2>1
<1> QED BY <1>2, <1>5

LEMMA ScheduleInvariant == Spec => [](SchedInv /\ ValuesInv /\ MinInv)
<1>1. Init => SchedInv /\ ValuesInv /\ MinInv
  BY SchedInit, ValuesInit
<1>2. SchedInv /\ ValuesInv /\ MinInv /\ [Next]_vars => SchedInv' /\ ValuesInv' /\ MinInv'
  BY SchedStep, ValuesStep
<1> QED BY <1>1, <1>2, PTL DEF Spec

(* The types; and all edges lead forward, so that no two instructions wait *)
(* for each other, and nothing is queued that was visited (dep_info.c,     *)
(* abstract_scheduler.c, reg_pressure_scheduler.c).                        *)
THEOREM ScheduleTyping == Spec => []TypeOK
<1> QED BY ScheduleInvariant, Typed, PTL

(* Any two instructions that conflict are joined by a path of the graph,   *)
(* although every scan stops at the first instruction that kills what it   *)
(* looks for (add_dep_instr).                                              *)
THEOREM GraphCoversConflicts == Spec => []DepsCoverConflicts
<1>1. SchedInv => DepsCoverConflicts
  BY Covered DEF SchedInv, GraphInv
<1> QED BY <1>1, ScheduleInvariant, PTL

(* The reduced graph orders what the full one does, and "there is no other *)
(* way to get from A to B" (lima_pp_lir_calc_min_dep_info).                *)
THEOREM GraphIsReduced == Spec => []MinDepsReduced
<1>1. SchedInv /\ MinInv => MinDepsReduced
  BY Minimal DEF SchedInv
<1> QED BY <1>1, ScheduleInvariant, PTL

(* No instruction is lost or duplicated (lima_pp_lir_schedule_block).      *)
THEOREM AllScheduledOnce == Spec => []EveryInstrScheduledOnce
<1> QED BY SchedInit, SchedStep, OnceEach, PTL DEF Spec

(* No two conflicting instructions change places, whatever priorities the  *)
(* scheduler works with (add_dep_instr and lima_pp_lir_schedule_block).    *)
THEOREM ScheduleKeepsConflicts == Spec => []ConflictsKeepOrder
<1> QED BY SchedInit, SchedStep, InOrder, PTL DEF Spec
=============================================================================
