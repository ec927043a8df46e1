--------------------------- MODULE PpLivenessProof ---------------------------
(***************************************************************************)
(* For every program and every control-flow graph, the liveness analysis   *)
(* of pp_lir/liveness.c stays below every solution of the dataflow         *)
(* equations, whatever its work list does; and as long as no push finds    *)
(* the ring full it reaches the least one.                                 *)
(***************************************************************************)
EXTENDS PpLiveness, TLAPS

(* The slots of a scheduled instruction, visited backwards, need what the  *)
(* hardware's order of execution needs                                     *)
(* (lima_pp_lir_liveness_calc_scheduled_instr).                            *)
LEMMA SchedLiveIsNeeded ==
  ASSUME NEW x, IsSchedInstr(x), NEW L \in SUBSET Comp
  PROVE  SchedLive(x, L) = Needed(x, L)
<1>1. /\ DOMAIN x \subseteq Slots
      /\ \A s \in DOMAIN x : x[s].read \subseteq Comp /\ x[s].write \subseteq Comp
  BY DEF IsSchedInstr, Instr
<1> DEFINE W(s, c) == s \in DOMAIN x /\ c \in x[s].write
           R(s, c) == s \in DOMAIN x /\ c \in x[s].read
<1>2. ASSUME NEW S, NEW M, NEW c
      PROVE  c \in GroupLive(x, S, M) <=>
               \/ \E s \in S : R(s, c)
               \/ c \in M /\ \A s \in S : ~ W(s, c)
  BY DEF GroupLive
<1>3. ASSUME NEW c
      PROVE  c \in SchedLive(x, L) <=>
               LET a == R("branch", c) \/ (c \in L /\ ~ W("branch", c))
                   b == R("temp_store", c) \/ (a /\ ~ W("temp_store", c))
                   d == R("combine", c) \/ (b /\ ~ W("combine", c))
                   e == \/ R("vector_add", c) \/ R("scalar_add", c)
                        \/ d /\ ~ W("vector_add", c) /\ ~ W("scalar_add", c)
                   f == \/ R("vector_mul", c) \/ R("scalar_mul", c)
                        \/ e /\ ~ W("vector_mul", c) /\ ~ W("scalar_mul", c)
                   g == R("uniform", c) \/ (f /\ ~ W("uniform", c))
                   h == R("texld", c) \/ (g /\ ~ W("texld", c))
               IN  R("varying", c) \/ (h /\ ~ W("varying", c))
  <2> HIDE DEF R, W
  <2> QED BY <1>2 DEF SchedLive
<1>4. ASSUME NEW c \in Comp
      PROVE  c \in Needed(x, L) <=>
               \/ \E s \in Slots : R(s, c) /\ \A t \in Slots :
                                       Stage[t] < Stage[s] => ~ W(t, c)
               \/ c \in L /\ \A t \in Slots : ~ W(t, c)
  BY <1>1 DEF Needed
<1>5. \A c : c \in SchedLive(x, L) => c \in Comp
  <2>1. \A s, c : R(s, c) => c \in Comp
    BY <1>1
  <2> HIDE DEF R, W
  <2> QED BY <1>3, <2>1
<1>6. \A c : c \in Needed(x, L) => c \in Comp
  BY DEF Needed
<1>7. ASSUME NEW c \in Comp
      PROVE  c \in SchedLive(x, L) <=> c \in Needed(x, L)
  <2> HIDE DEF R, W
  <2> QED BY <1>3, <1>4 DEF Slots, Stage
<1> QED BY <1>5, <1>6, <1>7

(* More live behind an instruction means more live before it.              *)
LEMMA NeededMonotone ==
  ASSUME NEW x, NEW L, NEW M, L \subseteq M
  PROVE  Needed(x, L) \subseteq Needed(x, M)
BY DEF Needed

(* A queue of block numbers stays one (fixed_queue_push, fixed_queue_pop:  *)
(* the indices wrap inside the array whether or not the ring is full).     *)
QueueType(p) == [ size        : {p.num_blocks + 1},
                  elems       : [0..p.num_blocks -> Blocks(p)],
                  front_index : 0..p.num_blocks,
                  back_index  : 0..p.num_blocks ]

LEMMA QueueSteps ==
  ASSUME NEW p, p.num_blocks \in Nat \ {0}, NEW q \in QueueType(p)
  PROVE  /\ fixed_queue_head(q) \in Blocks(p)
         /\ fixed_queue_pop(q) \in QueueType(p)
         /\ \A b \in Blocks(p) : fixed_queue_push(q, b) \in QueueType(p)
<1>1. \A n \in 0..p.num_blocks : NextIndex(q, n) \in 0..p.num_blocks
  BY DEF QueueType, NextIndex
<1>2. fixed_queue_head(q) \in Blocks(p)
  BY DEF QueueType, fixed_queue_head
<1>3. NextIndex(q, q.back_index) \in 0..p.num_blocks
  BY <1>1 DEF QueueType
<1>4. NextIndex(q, q.front_index) \in 0..p.num_blocks
  BY <1>1 DEF QueueType
<1>5. fixed_queue_pop(q) \in QueueType(p)
  BY <1>3 DEF QueueType, fixed_queue_pop
<1>6. ASSUME NEW b \in Blocks(p)
      PROVE  fixed_queue_push(q, b) \in QueueType(p)
  <2>1. [q.elems EXCEPT ![q.front_index] = b] \in [0..p.num_blocks -> Blocks(p)]
    BY DEF QueueType
  <2> QED BY <1>4, <2>1 DEF QueueType, fixed_queue_push
<1> QED BY <1>2, <1>5, <1>6

(* The inductive invariant: the types, and that the program is one of those *)
(* the assumptions are about.                                               *)
LiveInv == prog \in Programs /\ TypeOK /\ NothingDeadIsLive

LEMMA ProgramFacts ==
  ASSUME prog \in Programs
  PROVE  /\ prog.num_blocks \in Nat \ {0}
         /\ 0 \in Blocks(prog)
         /\ \A b \in Blocks(prog) :
                /\ Len(prog.code[b]) \in Nat
                /\ DOMAIN prog.code[b] = 1..Len(prog.code[b])
                /\ \A n \in DOMAIN prog.code[b] : IsSchedInstr(prog.code[b][n])
                /\ \A j \in 1..Len(prog.preds[b]) : prog.preds[b][j] \in Blocks(prog)
                /\ Len(prog.preds[b]) \in Nat
                /\ DOMAIN prog.succs[b] = 1..Len(prog.succs[b])
                /\ Len(prog.succs[b]) \in Nat
                /\ \A j \in DOMAIN prog.succs[b] : prog.succs[b][j] \in Blocks(prog)
         /\ IsSolution(prog, prog.solution)
<1>1. IsProgram(prog) /\ IsSolution(prog, prog.solution)
  BY ProgramsAssumption, SolutionAssumption
<1>2. /\ prog.num_blocks \in Nat \ {0}
      /\ prog.succs \in [Blocks(prog) -> Seq(Blocks(prog))]
      /\ prog.preds \in [Blocks(prog) -> Seq(Blocks(prog))]
      /\ \A b \in Blocks(prog) :
            /\ Len(prog.code[b]) \in Nat
            /\ DOMAIN prog.code[b] = 1..Len(prog.code[b])
            /\ \A n \in DOMAIN prog.code[b] : IsSchedInstr(prog.code[b][n])
  BY <1>1 DEF IsProgram
<1>3. 0 \in Blocks(prog)
  BY <1>2 DEF Blocks
<1>4. ASSUME NEW b \in Blocks(prog)
      PROVE  /\ \A j \in 1..Len(prog.preds[b]) : prog.preds[b][j] \in Blocks(prog)
             /\ Len(prog.preds[b]) \in Nat
             /\ DOMAIN prog.succs[b] = 1..Len(prog.succs[b])
             /\ Len(prog.succs[b]) \in Nat
             /\ \A j \in DOMAIN prog.succs[b] : prog.succs[b][j] \in Blocks(prog)
  <2>1. prog.preds[b] \in Seq(Blocks(prog)) /\ prog.succs[b] \in Seq(Blocks(prog))
    BY <1>2
  <2> QED BY <2>1
<1> QED BY <1>1, <1>2, <1>3, <1>4

LEMMA LiveInit == Init => LiveInv
<1> SUFFICES ASSUME Init PROVE LiveInv
  OBVIOUS
<1>1. prog \in Programs
  BY DEF Init
<1>2. fixed_queue_create(prog.num_blocks, 0) \in QueueType(prog)
  BY <1>1, ProgramFacts DEF QueueType, fixed_queue_create
<1>3. TypeOK
  BY <1>1, <1>2, ProgramFacts, OutputAssumption DEF Init, TypeOK, QueueType
<1>4. ASSUME NEW b \in Blocks(prog)
      PROVE  live_out[b] \subseteq prog.solution[b][Len(prog.code[b]) + 1]
  BY <1>1, ProgramFacts DEF Init, IsSolution, ExitLive
<1>5. NothingDeadIsLive
  BY <1>1, <1>4 DEF Init, NothingDeadIsLive
<1> QED BY <1>1, <1>3, <1>5 DEF LiveInv

(* Merging the successors' live-in sets stays inside a solution (392-394). *)
LEMMA MergeWithin ==
  ASSUME LiveInv, NEW b \in Blocks(prog)
  PROVE  /\ MergeSuccs(b) \subseteq prog.solution[b][Len(prog.code[b]) + 1]
         /\ MergeSuccs(b) \subseteq Comp
<1>1. prog \in Programs
  BY DEF LiveInv
<1>2. \A j \in DOMAIN prog.succs[b] :
         /\ live_in[prog.succs[b][j]] \subseteq prog.solution[prog.succs[b][j]][1]
         /\ live_in[prog.succs[b][j]] \subseteq Comp
  BY <1>1, ProgramFacts DEF LiveInv, NothingDeadIsLive, TypeOK
<1>3. /\ live_out[b] \subseteq prog.solution[b][Len(prog.code[b]) + 1]
      /\ live_out[b] \subseteq Comp
  BY DEF LiveInv, NothingDeadIsLive, TypeOK
<1>4. prog.solution[b][Len(prog.code[b]) + 1] = ExitLive(prog, prog.solution, b)
  BY <1>1, ProgramFacts DEF IsSolution
<1> QED BY <1>2, <1>3, <1>4 DEF MergeSuccs, ExitLive

LEMMA LiveStep == LiveInv /\ [Next]_vars => LiveInv'
<1> SUFFICES ASSUME LiveInv, [Next]_vars PROVE LiveInv'
  OBVIOUS
<1>0. prog \in Programs /\ TypeOK /\ NothingDeadIsLive
  BY DEF LiveInv
<1>a. prog' = prog
  BY DEF Next, vars, ScanBlock, ScanDone, CalcInstr, BlockSame, BlockChanged,
         PushPred, PushDone, PopBlock, Finish, StartBlock
<1>1. CASE ScanBlock
  <2>1. i \in Blocks(prog)
    BY <1>0, <1>1, ProgramFacts DEF ScanBlock, TypeOK, Blocks
  <2>2. TypeOK'
    BY <1>0, <1>1, <2>1, ProgramFacts DEF ScanBlock, StartBlock, TypeOK
  <2>3. NothingDeadIsLive'
    BY <1>0, <1>1, <2>1 DEF ScanBlock, StartBlock, NothingDeadIsLive
  <2> QED BY <1>0, <1>a, <2>2, <2>3 DEF LiveInv
<1>2. CASE ScanDone
  BY <1>0, <1>2 DEF ScanDone, TypeOK, NothingDeadIsLive, LiveInv
<1>3. CASE CalcInstr
  <2>1. /\ block \in Blocks(prog) /\ k \in DOMAIN prog.code[block]
        /\ k \in Nat \ {0} /\ k - 1 \in 0..Len(prog.code[block])
        /\ IsSchedInstr(prog.code[block][k])
        /\ cur_live \in SUBSET Comp
    BY <1>0, <1>3, ProgramFacts DEF CalcInstr, TypeOK
  <2>2. cur_live' = Needed(prog.code[block][k], cur_live)
    BY <1>3, <2>1, SchedLiveIsNeeded DEF CalcInstr
  <2>3. cur_live \subseteq prog.solution[block][k + 1]
    BY <1>0, <1>3 DEF CalcInstr, NothingDeadIsLive
  <2>4. prog.solution[block][k]
           = Needed(prog.code[block][k], prog.solution[block][k + 1])
    BY <1>0, <2>1, ProgramFacts DEF IsSolution
  <2>5. cur_live' \subseteq prog.solution[block][k]
    BY <2>2, <2>3, <2>4, NeededMonotone
  <2>6. cur_live' \in SUBSET Comp
    BY <2>2 DEF Needed
  <2>7. \A b \in Blocks(prog) : instr_live_out'[b] \in [DOMAIN prog.code[b] -> SUBSET Comp]
    BY <1>0, <1>3, <2>1 DEF CalcInstr, TypeOK
  <2>8. \A b \in Blocks(prog) : \A n \in DOMAIN prog.code[b] :
            instr_live_out'[b][n] \subseteq prog.solution[b][n + 1]
    <3> SUFFICES ASSUME NEW b \in Blocks(prog), NEW n \in DOMAIN prog.code[b]
                 PROVE  instr_live_out'[b][n] \subseteq prog.solution[b][n + 1]
      OBVIOUS
    <3>1. /\ instr_live_out[b] \in [DOMAIN prog.code[b] -> SUBSET Comp]
          /\ instr_live_out[block] \in [DOMAIN prog.code[block] -> SUBSET Comp]
          /\ instr_live_out[b][n] \subseteq prog.solution[b][n + 1]
      BY <1>0, <2>1 DEF TypeOK, NothingDeadIsLive
    <3>2. CASE b = block /\ n = k
      <4>1. instr_live_out'[b][n] = cur_live \/ instr_live_out'[b][n] = instr_live_out[b][n]
        BY <1>3, <2>1, <3>1, <3>2 DEF CalcInstr
      <4> QED BY <2>3, <3>1, <3>2, <4>1
    <3>3. CASE ~(b = block /\ n = k)
      <4>1. instr_live_out'[b][n] = instr_live_out[b][n]
        BY <1>3, <2>1, <3>1, <3>3 DEF CalcInstr
      <4> QED BY <3>1, <4>1
    <3> QED BY <3>2, <3>3
  <2>9. TypeOK'
    BY <1>0, <1>3, <1>a, <2>1, <2>6, <2>7 DEF CalcInstr, TypeOK
  <2>10. NothingDeadIsLive'
    BY <1>0, <1>3, <1>a, <2>1, <2>5, <2>8 DEF CalcInstr, NothingDeadIsLive
  <2> QED BY <1>0, <1>a, <2>9, <2>10 DEF LiveInv
<1>4. CASE BlockSame
  BY <1>0, <1>4 DEF BlockSame, TypeOK, NothingDeadIsLive, LiveInv
<1>5. CASE BlockChanged
  <2>1. block \in Blocks(prog) /\ cur_live \subseteq prog.solution[block][1]
    BY <1>0, <1>5 DEF BlockChanged, TypeOK, NothingDeadIsLive
  <2>2. TypeOK'
    BY <1>0, <1>5 DEF BlockChanged, TypeOK
  <2>3. NothingDeadIsLive'
    BY <1>0, <1>5, <2>1 DEF BlockChanged, TypeOK, NothingDeadIsLive
  <2> QED BY <1>0, <1>a, <2>2, <2>3 DEF LiveInv
<1>6. CASE PushPred
  <2>1. /\ prog.num_blocks \in Nat \ {0}
        /\ work_queue \in QueueType(prog)
        /\ prog.preds[block][i + 1] \in Blocks(prog)
    BY <1>0, <1>6, ProgramFacts DEF PushPred, TypeOK, QueueType
  <2>2. work_queue' \in QueueType(prog)
    BY <1>6, <2>1, QueueSteps DEF PushPred
  <2>3. TypeOK'
    BY <1>0, <1>6, <2>2 DEF PushPred, TypeOK, QueueType
  <2>4. NothingDeadIsLive'
    BY <1>0, <1>6 DEF PushPred, NothingDeadIsLive
  <2> QED BY <1>0, <1>a, <2>3, <2>4 DEF LiveInv
<1>7. CASE PushDone
  BY <1>0, <1>7 DEF PushDone, TypeOK, NothingDeadIsLive, LiveInv
<1>8. CASE PopBlock
  <2> DEFINE b == fixed_queue_head(work_queue)
  <2>1. prog.num_blocks \in Nat \ {0} /\ work_queue \in QueueType(prog)
    BY <1>0, ProgramFacts DEF TypeOK, QueueType
  <2>2. b \in Blocks(prog) /\ work_queue' \in QueueType(prog)
    BY <1>8, <2>1, QueueSteps DEF PopBlock
  <2>3. /\ MergeSuccs(b) \subseteq prog.solution[b][Len(prog.code[b]) + 1]
        /\ MergeSuccs(b) \subseteq Comp
    BY <2>2, MergeWithin
  <2>4. Len(prog.succs[b]) \in Nat /\ Len(prog.code[b]) \in Nat
    BY <1>0, <2>2, ProgramFacts
  <2> HIDE DEF b
  <2>5. /\ block' = b /\ k' = Len(prog.code[b]) /\ cur_live' = MergeSuccs(b)
        /\ live_out' = [live_out EXCEPT ![b] = MergeSuccs(b)]
        /\ i' = Len(prog.succs[b]) /\ pc' = "calc" /\ loop' = "work"
        /\ UNCHANGED <<live_in, instr_live_out>>
    BY <1>8 DEF PopBlock, StartBlock, b
  <2>6. TypeOK'
    BY <1>0, <1>a, <2>2, <2>3, <2>4, <2>5 DEF TypeOK, QueueType
  <2>7. NothingDeadIsLive'
    BY <1>0, <1>a, <2>2, <2>3, <2>5 DEF TypeOK, NothingDeadIsLive
  <2> QED BY <1>0, <1>a, <2>6, <2>7 DEF LiveInv
<1>9. CASE Finish
  BY <1>0, <1>9 DEF Finish, TypeOK, NothingDeadIsLive, LiveInv
<1>10. CASE UNCHANGED vars
  BY <1>0, <1>10 DEF vars, TypeOK, NothingDeadIsLive, LiveInv
<1> QED BY <1>1, <1>2, <1>3, <1>4, <1>5, <1>6, <1>7, <1>8, <1>9, <1>10 DEF Next

(* The state of the analysis keeps its types, the ring's indices included  *)
(* (lima_pp_lir_liveness_calc_prog).                                       *)
THEOREM LivenessTyping == Spec => []TypeOK
<1>1. LiveInv => TypeOK
  BY DEF LiveInv
<1> QED BY <1>1, LiveInit, LiveStep, PTL DEF Spec

(* Nothing dead is ever called live: all the analysis computes stays       *)
(* inside every solution of the dataflow equations, for every program,     *)
(* graph and order of visits (lima_pp_lir_liveness_calc_prog).             *)
THEOREM LivenessWithinSolutions == Spec => []NothingDeadIsLive
<1>1. LiveInv => NothingDeadIsLive
  BY DEF LiveInv
<1> QED BY <1>1, LiveInit, LiveStep, PTL DEF Spec
-----------------------------------------------------------------------------
(* What the analysis has at the n-th point of a block, and what the point  *)
(* before it should have: point 0 is the block's live_in, point n its n-th *)
(* instruction's live_out, and the last one gets the block's live_out.     *)
AfterAt(b, n)  == IF n = 0 THEN live_in[b] ELSE instr_live_out[b][n]
BeforeAt(b, n) == IF n = Len(prog.code[b]) + 1 THEN live_out[b]
                  ELSE Needed(prog.code[b][n], instr_live_out[b][n])
Points(b)      == 0..Len(prog.code[b])

\* A block the analysis has not computed yet, and one that is consistent.
Untouched(b) == live_in[b] = {} /\ \A n \in DOMAIN prog.code[b] : instr_live_out[b][n] = {}
Solved(b)    == \A n \in Points(b) : AfterAt(b, n) = BeforeAt(b, n + 1)

ExitNow(b) == (IF b \in prog.end THEN Output ELSE {})
                  \cup UNION {live_in[prog.succs[b][j]] : j \in DOMAIN prog.succs[b]}

\* The slots of the ring between the two indices, and who is in them.
InRing(q, s) == IF q.back_index <= q.front_index
                THEN q.back_index <= s /\ s < q.front_index
                ELSE q.back_index <= s \/ s < q.front_index
Queued(b)   == \E s \in 0..prog.num_blocks :
                   InRing(work_queue, s) /\ work_queue.elems[s] = b
ToBePushed(b) == pc = "push" /\ \E m \in DOMAIN prog.preds[block] :
                                    i < m /\ prog.preds[block][m] = b

(* The sets only grow, so that a block computed again has at least what it *)
(* had; a block is not computed yet, being computed, or consistent; its    *)
(* live_out holds nothing its successors do not need, and lacks what they  *)
(* need only while it is queued or about to be.                            *)
Grown   == \A b \in Blocks(prog) : \A n \in Points(b) : AfterAt(b, n) \subseteq BeforeAt(b, n + 1)
InCalc  == pc = "calc" =>
               /\ cur_live = BeforeAt(block, k + 1)
               /\ \A n \in Points(block) : n > k => AfterAt(block, n) = BeforeAt(block, n + 1)
Visited == \A b \in Blocks(prog) : (pc = "calc" /\ b = block) \/ Untouched(b) \/ Solved(b)
Merged  == \A b \in Blocks(prog) : /\ live_out[b] \subseteq ExitNow(b)
                                   /\ b \in prog.end => Output \subseteq live_out[b]
Served  == \A b \in Blocks(prog) : \A j \in DOMAIN prog.succs[b] :
               live_in[prog.succs[b][j]] \subseteq live_out[b] \/ Queued(b) \/ ToBePushed(b)

CompleteInv == Grown /\ InCalc /\ Visited /\ Merged /\ Served

(* What is in the ring stays in it when another element is popped and, as  *)
(* long as there is room, when one is pushed.                              *)
LEMMA RingSteps ==
  ASSUME NEW p, p.num_blocks \in Nat \ {0}, NEW q \in QueueType(p)
  PROVE  /\ fixed_queue_is_empty(q) => \A s \in 0..p.num_blocks : ~ InRing(q, s)
         /\ ~ fixed_queue_is_empty(q) =>
              \A s \in 0..p.num_blocks : InRing(q, s) =>
                  \/ q.elems[s] = fixed_queue_head(q)
                  \/ /\ InRing(fixed_queue_pop(q), s)
                     /\ fixed_queue_pop(q).elems[s] = q.elems[s]
         /\ fixed_queue_count(q) < p.num_blocks =>
              \A b \in Blocks(p) :
                 /\ InRing(fixed_queue_push(q, b), q.front_index)
                 /\ fixed_queue_push(q, b).elems[q.front_index] = b
                 /\ q.front_index \in 0..p.num_blocks
                 /\ \A s \in 0..p.num_blocks : InRing(q, s) =>
                       /\ InRing(fixed_queue_push(q, b), s)
                       /\ fixed_queue_push(q, b).elems[s] = q.elems[s]
<1>1. /\ q.front_index \in 0..p.num_blocks /\ q.back_index \in 0..p.num_blocks
      /\ q.size = p.num_blocks + 1 /\ q.elems \in [0..p.num_blocks -> Blocks(p)]
  BY DEF QueueType
<1>2. fixed_queue_is_empty(q) => \A s \in 0..p.num_blocks : ~ InRing(q, s)
  BY <1>1 DEF fixed_queue_is_empty, InRing
<1>3. ASSUME ~ fixed_queue_is_empty(q), NEW s \in 0..p.num_blocks, InRing(q, s)
      PROVE  \/ q.elems[s] = fixed_queue_head(q)
             \/ /\ InRing(fixed_queue_pop(q), s)
                /\ fixed_queue_pop(q).elems[s] = q.elems[s]
  <2> DEFINE r == fixed_queue_pop(q)
  <2>1. /\ r.back_index = NextIndex(q, q.back_index) /\ r.front_index = q.front_index
        /\ r.elems = q.elems
    BY DEF fixed_queue_pop, QueueType
  <2> HIDE DEF r
  <2>2. s # q.back_index => InRing(r, s)
    BY <1>1, <1>3, <2>1 DEF fixed_queue_is_empty, InRing, NextIndex
  <2> QED BY <2>1, <2>2 DEF fixed_queue_head, r
<1>4. ASSUME fixed_queue_count(q) < p.num_blocks, NEW b \in Blocks(p)
      PROVE  /\ InRing(fixed_queue_push(q, b), q.front_index)
             /\ fixed_queue_push(q, b).elems[q.front_index] = b
             /\ \A s \in 0..p.num_blocks : InRing(q, s) =>
                   /\ InRing(fixed_queue_push(q, b), s)
                   /\ fixed_queue_push(q, b).elems[s] = q.elems[s]
  <2> DEFINE r == fixed_queue_push(q, b)
  <2>1. /\ r.front_index = NextIndex(q, q.front_index) /\ r.back_index = q.back_index
        /\ r.elems = [q.elems EXCEPT ![q.front_index] = b]
    BY DEF fixed_queue_push, QueueType
  <2> HIDE DEF r
  <2>2. r.front_index # q.back_index
    BY <1>1, <1>4, <2>1 DEF fixed_queue_count, NextIndex
  <2>3. InRing(r, q.front_index)
    BY <1>1, <2>1, <2>2 DEF InRing, NextIndex
  <2>4. \A s \in 0..p.num_blocks : InRing(q, s) => InRing(r, s) /\ s # q.front_index
    BY <1>1, <2>1, <2>2 DEF InRing, NextIndex
  <2> QED BY <1>1, <2>1, <2>3, <2>4 DEF r
<1> QED BY <1>1, <1>2, <1>3, <1>4

(* Steps that leave the sets alone leave what is said of them alone.       *)
LEMMA SameSets ==
  ASSUME UNCHANGED <<prog, live_in, live_out, instr_live_out>>
  PROVE  /\ \A b, n : AfterAt(b, n)' = AfterAt(b, n) /\ BeforeAt(b, n)' = BeforeAt(b, n)
         /\ \A b : /\ Points(b)' = Points(b)
                   /\ Untouched(b)' <=> Untouched(b)
                   /\ Solved(b)' <=> Solved(b)
         /\ Blocks(prog)' = Blocks(prog)
         /\ Grown => Grown'
         /\ Merged => Merged'
<1>1. /\ \A b, n : AfterAt(b, n)' = AfterAt(b, n) /\ BeforeAt(b, n)' = BeforeAt(b, n)
      /\ \A b : Points(b)' = Points(b)
      /\ Blocks(prog)' = Blocks(prog)
  BY DEF AfterAt, BeforeAt, Points
<1>2. \A b : (Untouched(b)' <=> Untouched(b)) /\ (Solved(b)' <=> Solved(b))
  BY <1>1 DEF Untouched, Solved
<1>3. Grown => Grown'
  BY <1>1 DEF Grown
<1>4. Merged => Merged'
  BY <1>1 DEF Merged, ExitNow
<1> QED BY <1>1, <1>2, <1>3, <1>4

LEMMA CompleteInit == Init => CompleteInv
<1> SUFFICES ASSUME Init PROVE CompleteInv
  OBVIOUS
<1>1. prog \in Programs /\ pc = "scan" /\ live_in = [b \in Blocks(prog) |-> {}]
  BY DEF Init
<1>2. \A b \in Blocks(prog) :
          /\ live_in[b] = {} /\ \A n \in DOMAIN prog.code[b] : instr_live_out[b][n] = {}
          /\ live_out[b] = IF b \in prog.end THEN Output ELSE {}
          /\ Len(prog.code[b]) \in Nat /\ DOMAIN prog.code[b] = 1..Len(prog.code[b])
          /\ \A j \in DOMAIN prog.succs[b] : prog.succs[b][j] \in Blocks(prog)
  BY <1>1, ProgramFacts DEF Init
<1>3. \A b \in Blocks(prog) : \A n \in Points(b) : AfterAt(b, n) = {}
  BY <1>2 DEF Points, AfterAt
<1> QED BY <1>1, <1>2, <1>3 DEF CompleteInv, Grown, InCalc, Visited, Untouched, Merged,
                                ExitNow, Served

(* Steps that touch neither the sets nor the ring, and no push to come.    *)
LEMMA SameServed ==
  ASSUME Served, UNCHANGED <<prog, live_in, live_out, work_queue>>,
         pc = "push" => (pc' = "push" /\ block' = block /\ i' = i)
                        \/ \A m \in DOMAIN prog.preds[block] : ~ (i < m)
  PROVE  Served'
<1> SUFFICES ASSUME NEW b \in Blocks(prog), NEW j \in DOMAIN prog.succs[b],
                    ~ (live_in[prog.succs[b][j]] \subseteq live_out[b]), ~ Queued(b)'
             PROVE  ToBePushed(b)'
  BY DEF Served
<1>1. ~ Queued(b)
  BY DEF Queued
<1>2. ToBePushed(b)
  BY <1>1 DEF Served
<1> QED BY <1>2 DEF ToBePushed

LEMMA CompleteStep ==
  ASSUME LiveInv, CompleteInv, WorkQueueHolds, [Next]_vars
  PROVE  CompleteInv'
<1>0. /\ prog \in Programs /\ TypeOK /\ prog.num_blocks \in Nat \ {0}
      /\ block \in Blocks(prog) /\ work_queue \in QueueType(prog)
      /\ Grown /\ InCalc /\ Visited /\ Merged /\ Served
  BY ProgramFacts DEF LiveInv, CompleteInv, TypeOK, QueueType
<1>a. \A b \in Blocks(prog) :
          /\ Len(prog.code[b]) \in Nat /\ Points(b) = 0..Len(prog.code[b])
          /\ DOMAIN prog.code[b] = 1..Len(prog.code[b])
          /\ DOMAIN prog.preds[b] = 1..Len(prog.preds[b]) /\ Len(prog.preds[b]) \in Nat
          /\ \A j \in DOMAIN prog.succs[b] :
                /\ prog.succs[b][j] \in Blocks(prog)
                /\ \E m \in DOMAIN prog.preds[prog.succs[b][j]] :
                       prog.preds[prog.succs[b][j]][m] = b
  <2>1. IsProgram(prog)
    BY <1>0, ProgramsAssumption
  <2> SUFFICES ASSUME NEW b \in Blocks(prog)
               PROVE  DOMAIN prog.preds[b] = 1..Len(prog.preds[b]) /\ Len(prog.preds[b]) \in Nat
    BY <1>0, <2>1, ProgramFacts DEF IsProgram, Points
  <2>2. prog.preds[b] \in Seq(Blocks(prog))
    BY <2>1 DEF IsProgram
  <2> QED BY <2>2
<1>b. \A b \in Blocks(prog) : prog.preds[b] \in Seq(Blocks(prog))
  BY <1>0, ProgramsAssumption DEF IsProgram
\* A block starts to be computed with what is live behind it.
<1>c. ASSUME NEW b \in Blocks(prog), NEW out, StartBlock(b, out), prog' = prog,
             instr_live_out' = instr_live_out, live_out'[b] = out
      PROVE  InCalc'
  <2>1. block' = b /\ k' = Len(prog.code[b]) /\ cur_live' = out
    BY <1>c DEF StartBlock
  <2>2. cur_live' = BeforeAt(block, k + 1)'
    BY <1>c, <2>1 DEF BeforeAt
  <2>3. \A n \in Points(block)' : ~ (n > k')
    BY <1>a, <1>c, <2>1 DEF Points
  <2> QED BY <2>2, <2>3 DEF InCalc
<1>1. CASE ScanBlock
  <2>1. /\ i \in Blocks(prog) /\ pc' = "calc" /\ block' = i /\ pc = "scan"
        /\ UNCHANGED <<prog, live_in, live_out, instr_live_out, work_queue>>
        /\ StartBlock(i, live_out[i])
    BY <1>0, <1>1 DEF ScanBlock, StartBlock, TypeOK, Blocks
  <2>2. InCalc'
    BY <1>c, <2>1
  <2>3. Visited'
    BY <1>0, <2>1, SameSets DEF Visited
  <2>4. Served'
    BY <1>0, <2>1, SameServed
  <2> QED BY <1>0, <2>1, <2>2, <2>3, <2>4, SameSets DEF CompleteInv
<1>2. CASE ScanDone
  <2>1. /\ pc' = "pop" /\ pc = "scan"
        /\ UNCHANGED <<prog, live_in, live_out, instr_live_out, work_queue>>
    BY <1>2 DEF ScanDone
  <2>2. InCalc' /\ Visited'
    BY <1>0, <2>1, SameSets DEF InCalc, Visited
  <2>3. Served'
    BY <1>0, <2>1, SameServed
  <2> QED BY <1>0, <2>1, <2>2, <2>3, SameSets DEF CompleteInv
<1>4. CASE BlockSame
  <2>1. /\ pc' \in {"scan", "pop"} /\ pc = "calc" /\ k = 0 /\ cur_live = live_in[block]
        /\ UNCHANGED <<prog, live_in, live_out, instr_live_out, work_queue>>
    BY <1>4 DEF BlockSame
  <2>2. Solved(block)
    BY <1>0, <1>a, <2>1 DEF InCalc, Solved, AfterAt
  <2>3. InCalc' /\ Visited'
    BY <1>0, <2>1, <2>2, SameSets DEF InCalc, Visited
  <2>4. Served'
    BY <1>0, <2>1, SameServed
  <2> QED BY <1>0, <2>1, <2>3, <2>4, SameSets DEF CompleteInv
<1>6. CASE PushPred
  <2>1. /\ pc' = "push" /\ pc = "push" /\ block' = block /\ i' = i + 1
        /\ i < Len(prog.preds[block]) /\ i \in Nat
        /\ work_queue' = fixed_queue_push(work_queue, prog.preds[block][i + 1])
        /\ UNCHANGED <<prog, live_in, live_out, instr_live_out>>
    BY <1>0, <1>6 DEF PushPred, TypeOK
  <2>2. InCalc' /\ Visited'
    BY <1>0, <2>1, SameSets DEF InCalc, Visited
  <2> SUFFICES ASSUME NEW c, c = prog.preds[block][i + 1] PROVE CompleteInv'
    OBVIOUS
  <2>3. c \in Blocks(prog) /\ fixed_queue_count(work_queue) < prog.num_blocks
    BY <1>0, <1>a, <1>b, <2>1 DEF WorkQueueHolds
  <2>4. Queued(c)' /\ \A b : Queued(b) => Queued(b)'
    <3>1. work_queue' = fixed_queue_push(work_queue, c) /\ prog' = prog
      BY <2>1
    <3>2. /\ InRing(work_queue', work_queue.front_index)
          /\ work_queue'.elems[work_queue.front_index] = c
          /\ work_queue.front_index \in 0..prog.num_blocks
          /\ \A s \in 0..prog.num_blocks : InRing(work_queue, s) =>
                InRing(work_queue', s) /\ work_queue'.elems[s] = work_queue.elems[s]
      BY <1>0, <2>3, <3>1, RingSteps
    <3>3. \A b : Queued(b) => Queued(b)'
      BY <3>1, <3>2 DEF Queued
    <3>4. Queued(c)'
      BY <3>1, <3>2 DEF Queued
    <3> QED BY <3>3, <3>4
  <2>5. ASSUME NEW b, ToBePushed(b) PROVE ToBePushed(b)' \/ b = c
    <3>1. PICK m \in DOMAIN prog.preds[block] : i < m /\ prog.preds[block][m] = b
      BY <2>5 DEF ToBePushed
    <3>2. i + 1 < m \/ m = i + 1
      BY <1>0, <1>a, <2>1, <3>1
    <3> QED BY <2>1, <3>1, <3>2 DEF ToBePushed
  <2>6. Served'
    BY <1>0, <2>1, <2>4, <2>5 DEF Served
  <2> QED BY <1>0, <2>1, <2>2, <2>6, SameSets DEF CompleteInv
<1>7. CASE PushDone
  <2>1. /\ pc' \in {"scan", "pop"} /\ pc = "push" /\ i \in Nat /\ i >= Len(prog.preds[block])
        /\ UNCHANGED <<prog, live_in, live_out, instr_live_out, work_queue>>
    BY <1>0, <1>7 DEF PushDone, TypeOK
  <2>2. InCalc' /\ Visited'
    BY <1>0, <2>1, SameSets DEF InCalc, Visited
  <2>3. \A m \in DOMAIN prog.preds[block] : ~ (i < m)
    BY <1>0, <1>a, <2>1
  <2>4. Served'
    BY <1>0, <2>1, <2>3, SameServed
  <2> QED BY <1>0, <2>1, <2>2, <2>4, SameSets DEF CompleteInv
<1>9. CASE Finish \/ UNCHANGED vars
  <2>1. /\ pc' # "calc" \/ UNCHANGED <<pc, block, k, cur_live>>
        /\ pc = "calc" => pc' = "calc" /\ block' = block
        /\ pc = "push" => pc' = "push" /\ block' = block /\ i' = i
        /\ UNCHANGED <<prog, live_in, live_out, instr_live_out, work_queue>>
    BY <1>9 DEF Finish, vars
  <2>2. InCalc' /\ Visited'
    BY <1>0, <2>1, SameSets DEF InCalc, Visited
  <2>3. Served'
    BY <1>0, <2>1, SameServed
  <2> QED BY <1>0, <2>1, <2>2, <2>3, SameSets DEF CompleteInv
\* The instruction gets what was found behind it, and hands on what that needs.
<1>3. CASE CalcInstr
  <2> SUFFICES ASSUME NEW b0, b0 = block, NEW k0, k0 = k PROVE CompleteInv'
    OBVIOUS
  <2>1. /\ pc = "calc" /\ pc' = "calc" /\ k \in 1..Len(prog.code[block]) /\ k' = k - 1
        /\ block' = block /\ i' = i
        /\ UNCHANGED <<prog, live_in, live_out, work_queue>>
        /\ IsSchedInstr(prog.code[block][k]) /\ cur_live \in SUBSET Comp
    BY <1>0, <1>3, ProgramFacts DEF CalcInstr, TypeOK
  <2>2. cur_live' = Needed(prog.code[block][k], cur_live)
    BY <1>3, <2>1, SchedLiveIsNeeded DEF CalcInstr
  <2>3. /\ \A b \in Blocks(prog) : \A n \in DOMAIN prog.code[b] :
              ~ (b = b0 /\ n = k0) => instr_live_out'[b][n] = instr_live_out[b][n]
        /\ instr_live_out'[b0][k0] = cur_live
    <3>1. \A b \in Blocks(prog) : instr_live_out[b] \in [DOMAIN prog.code[b] -> SUBSET Comp]
      BY <1>0 DEF TypeOK
    <3>2. instr_live_out' = [instr_live_out EXCEPT ![block] = [@ EXCEPT ![k] = cur_live]]
      BY <1>3 DEF CalcInstr
    <3>3. DOMAIN instr_live_out = Blocks(prog)
      BY <1>0 DEF TypeOK
    <3> QED BY <1>0, <1>a, <2>1, <3>1, <3>2, <3>3
  <2>4. \A b \in Blocks(prog) : \A n \in Points(b) :
          ~ (b = b0 /\ n = k0) => AfterAt(b, n)' = AfterAt(b, n)
    BY <1>a, <2>1, <2>3 DEF AfterAt
  <2>5. \A b \in Blocks(prog) : \A n \in Points(b) :
          ~ (b = b0 /\ n + 1 = k0) => BeforeAt(b, n + 1)' = BeforeAt(b, n + 1)
    <3> SUFFICES ASSUME NEW b \in Blocks(prog), NEW n \in Points(b), ~ (b = b0 /\ n + 1 = k0)
                 PROVE  BeforeAt(b, n + 1)' = BeforeAt(b, n + 1)
      OBVIOUS
    <3>1. n = Len(prog.code[b]) \/ n + 1 \in DOMAIN prog.code[b]
      BY <1>a
    <3> QED BY <1>a, <2>1, <2>3, <3>1 DEF BeforeAt
  <2>6. AfterAt(b0, k0)' = cur_live /\ BeforeAt(b0, k0)' = cur_live'
    BY <1>0, <1>a, <2>1, <2>2, <2>3 DEF AfterAt, BeforeAt
  <2>7. BeforeAt(b0, k0 + 1)' = BeforeAt(b0, k0 + 1) /\ BeforeAt(b0, k0 + 1) = cur_live
    <3>1. k0 \in Points(b0) /\ k0 + 1 # k0
      BY <1>0, <1>a, <2>1
    <3> QED BY <1>0, <2>1, <2>5, <3>1 DEF InCalc
  <2>8. BeforeAt(b0, k0) \subseteq BeforeAt(b0, k0)'
    <3>1. AfterAt(b0, k0) \subseteq cur_live
      BY <1>0, <1>a, <2>1, <2>7 DEF Grown
    <3>2. /\ BeforeAt(b0, k0) = Needed(prog.code[b0][k0], AfterAt(b0, k0))
          /\ BeforeAt(b0, k0)' = Needed(prog.code[b0][k0], cur_live)
      BY <1>0, <1>a, <2>1, <2>2, <2>6 DEF BeforeAt, AfterAt
    <3> QED BY <3>1, <3>2, NeededMonotone
  <2>9. Grown'
    <3> SUFFICES ASSUME NEW b \in Blocks(prog), NEW n \in Points(b)
                 PROVE  AfterAt(b, n)' \subseteq BeforeAt(b, n + 1)'
      BY <2>1 DEF Grown, Points
    <3>1. AfterAt(b, n) \subseteq BeforeAt(b, n + 1)
      BY <1>0 DEF Grown
    <3>2. CASE b = b0 /\ n = k0
      BY <2>6, <2>7, <3>2
    <3>3. CASE b = b0 /\ n + 1 = k0
      BY <1>0, <1>a, <2>1, <2>4, <2>8, <3>1, <3>3
    <3>4. CASE ~ (b = b0 /\ (n = k0 \/ n + 1 = k0))
      BY <2>4, <2>5, <3>1, <3>4
    <3> QED BY <3>2, <3>3, <3>4
  <2>10. InCalc'
    <3>1. \A n \in Points(b0) : n > k0 - 1 => n = k0 \/ n > k0
      BY <1>0, <1>a, <2>1
    <3>2. \A n \in Points(b0) : n > k0 => AfterAt(b0, n)' = BeforeAt(b0, n + 1)'
      <4> SUFFICES ASSUME NEW n \in Points(b0), n > k0
                   PROVE  AfterAt(b0, n)' = BeforeAt(b0, n + 1)'
        OBVIOUS
      <4>1. n # k0 /\ n + 1 # k0
        BY <1>0, <1>a, <2>1
      <4>2. AfterAt(b0, n) = BeforeAt(b0, n + 1)
        BY <1>0, <2>1 DEF InCalc
      <4>3. AfterAt(b0, n)' = AfterAt(b0, n)
        BY <1>0, <2>4, <4>1
      <4>4. BeforeAt(b0, n + 1)' = BeforeAt(b0, n + 1)
        BY <1>0, <2>5, <4>1
      <4> QED BY <4>2, <4>3, <4>4
    <3>3. k' = k0 - 1 /\ k' + 1 = k0 /\ block' = b0
      BY <2>1
    <3>4. \A n \in Points(b0) : n > k0 - 1 => AfterAt(b0, n)' = BeforeAt(b0, n + 1)'
      BY <2>6, <2>7, <3>1, <3>2
    <3>5. BeforeAt(block, k + 1)' = BeforeAt(b0, k0)'
      BY <3>3 DEF BeforeAt
    <3>6. ASSUME NEW n \in Points(block)', n > k'
          PROVE  AfterAt(block, n)' = BeforeAt(block, n + 1)'
      <4>1. n \in Points(b0) /\ n > k0 - 1
        BY <2>1, <3>3, <3>6 DEF Points
      <4>2. AfterAt(block, n)' = AfterAt(b0, n)' /\ BeforeAt(block, n + 1)' = BeforeAt(b0, n + 1)'
        BY <3>3 DEF AfterAt, BeforeAt
      <4> QED BY <3>4, <4>1, <4>2
    <3> QED BY <2>6, <3>5, <3>6 DEF InCalc
  <2>11. Visited'
    <3> SUFFICES ASSUME NEW b \in Blocks(prog), b # b0
                 PROVE  Untouched(b)' \/ Solved(b)'
      BY <2>1 DEF Visited
    <3>1. Untouched(b) => Untouched(b)'
      BY <2>1, <2>3 DEF Untouched
    <3>2. Solved(b) => Solved(b)'
      <4> SUFFICES ASSUME Solved(b), NEW n \in Points(b)
                   PROVE  AfterAt(b, n)' = BeforeAt(b, n + 1)'
        BY <2>1 DEF Solved, Points
      <4>1. AfterAt(b, n)' = AfterAt(b, n) /\ BeforeAt(b, n + 1)' = BeforeAt(b, n + 1)
        BY <2>4, <2>5
      <4> QED BY <4>1 DEF Solved
    <3> QED BY <1>0, <3>1, <3>2 DEF Visited
  <2>12. Merged'
    BY <1>0, <2>1 DEF Merged, ExitNow
  <2>13. Served'
    BY <1>0, <2>1, SameServed
  <2> QED BY <2>9, <2>10, <2>11, <2>12, <2>13 DEF CompleteInv
<1>5. CASE BlockChanged
  <2> SUFFICES ASSUME NEW b0, b0 = block PROVE CompleteInv'
    OBVIOUS
  <2>1. /\ pc = "calc" /\ pc' = "push" /\ k = 0 /\ i' = 0 /\ block' = b0
        /\ live_in' = [live_in EXCEPT ![b0] = cur_live]
        /\ UNCHANGED <<prog, live_out, instr_live_out, work_queue>>
    BY <1>5 DEF BlockChanged
  <2>2. /\ live_in'[b0] = cur_live
        /\ \A b \in Blocks(prog) : b # b0 => live_in'[b] = live_in[b]
    BY <1>0, <2>1 DEF TypeOK
  <2>3. /\ \A b, n : BeforeAt(b, n)' = BeforeAt(b, n)
        /\ \A b \in Blocks(prog) : \A n \in Points(b) :
              ~ (b = b0 /\ n = 0) => AfterAt(b, n)' = AfterAt(b, n)
        /\ AfterAt(b0, 0)' = cur_live
        /\ \A b : Points(b)' = Points(b)
    BY <2>1, <2>2 DEF AfterAt, BeforeAt, Points
  <2>4. cur_live = BeforeAt(b0, 1) /\ live_in[b0] \subseteq cur_live
    <3>1. cur_live = BeforeAt(b0, 0 + 1) /\ 0 \in Points(b0)
      BY <1>0, <1>a, <2>1 DEF InCalc
    <3> QED BY <1>0, <3>1 DEF Grown, AfterAt
  <2>5. \A b \in Blocks(prog) : live_in[b] \subseteq live_in'[b]
    BY <2>2, <2>4
  <2>6. Grown'
    <3> SUFFICES ASSUME NEW b \in Blocks(prog), NEW n \in Points(b)
                 PROVE  AfterAt(b, n)' \subseteq BeforeAt(b, n + 1)'
      BY <2>1, <2>3 DEF Grown
    <3>1. BeforeAt(b, n + 1)' = BeforeAt(b, n + 1)
      BY <2>3
    <3>2. AfterAt(b, n) \subseteq BeforeAt(b, n + 1)
      BY <1>0 DEF Grown
    <3>3. CASE b = b0 /\ n = 0
      BY <2>3, <2>4, <3>1, <3>3
    <3>4. CASE ~ (b = b0 /\ n = 0)
      BY <2>3, <3>1, <3>2, <3>4
    <3> QED BY <3>3, <3>4
  <2>7. InCalc'
    BY <2>1 DEF InCalc
  <2>8. Visited'
    <3> SUFFICES ASSUME NEW b \in Blocks(prog) PROVE Untouched(b)' \/ Solved(b)'
      BY <2>1 DEF Visited
    <3>1. CASE b = b0
      <4>1. ASSUME NEW n \in Points(b0) PROVE AfterAt(b0, n)' = BeforeAt(b0, n + 1)'
        <5>1. BeforeAt(b0, n + 1)' = BeforeAt(b0, n + 1)
          BY <2>3
        <5>2. n = 0 => AfterAt(b0, n)' = BeforeAt(b0, 1)
          BY <2>3, <2>4
        <5>3. n # 0 => n > k /\ AfterAt(b0, n)' = AfterAt(b0, n)
          BY <1>0, <1>a, <2>1, <2>3
        <5>4. n # 0 => AfterAt(b0, n) = BeforeAt(b0, n + 1)
          BY <1>0, <2>1, <5>3 DEF InCalc
        <5> QED BY <5>1, <5>2, <5>3, <5>4
      <4>2. Solved(b0)'
        BY <2>3, <4>1 DEF Solved
      <4> QED BY <3>1, <4>2
    <3>2. CASE b # b0
      <4>1. Untouched(b) => Untouched(b)'
        BY <2>1, <2>2, <3>2 DEF Untouched
      <4>2. Solved(b) => Solved(b)'
        <5> SUFFICES ASSUME Solved(b), NEW n \in Points(b)
                     PROVE  AfterAt(b, n)' = BeforeAt(b, n + 1)'
          BY <2>3 DEF Solved
        <5>1. BeforeAt(b, n + 1)' = BeforeAt(b, n + 1) /\ AfterAt(b, n)' = AfterAt(b, n)
          BY <2>3, <3>2
        <5> QED BY <5>1 DEF Solved
      <4> QED BY <1>0, <3>2, <4>1, <4>2 DEF Visited
    <3> QED BY <3>1, <3>2
  <2>9. Merged'
    <3> SUFFICES ASSUME NEW b \in Blocks(prog) PROVE ExitNow(b) \subseteq ExitNow(b)'
      BY <1>0, <2>1 DEF Merged
    <3>1. \A j \in DOMAIN prog.succs[b] : live_in[prog.succs[b][j]] \subseteq live_in'[prog.succs[b][j]]
      BY <1>a, <2>5
    <3> QED BY <2>1, <3>1 DEF ExitNow
  <2>10. Served'
    <3> SUFFICES ASSUME NEW b \in Blocks(prog), NEW j \in DOMAIN prog.succs[b],
                        ~ ToBePushed(b)', ~ Queued(b)'
                 PROVE  live_in'[prog.succs[b][j]] \subseteq live_out[b]
      BY <2>1 DEF Served
    <3>1. prog.succs[b][j] # b0
      <4> SUFFICES ASSUME prog.succs[b][j] = b0 PROVE FALSE
        OBVIOUS
      <4>1. PICK m \in DOMAIN prog.preds[b0] : prog.preds[b0][m] = b
        BY <1>a
      <4>2. 0 < m
        BY <1>0, <1>a, <4>1
      <4> QED BY <2>1, <4>1, <4>2 DEF ToBePushed
    <3>2. live_in'[prog.succs[b][j]] = live_in[prog.succs[b][j]]
      BY <1>a, <2>2, <3>1
    <3>3. ~ Queued(b) /\ ~ ToBePushed(b)
      BY <2>1 DEF Queued, ToBePushed
    <3> QED BY <1>0, <3>2, <3>3 DEF Served
  <2> QED BY <2>6, <2>7, <2>8, <2>9, <2>10 DEF CompleteInv
<1>8. CASE PopBlock
  <2> SUFFICES ASSUME NEW b0, b0 = fixed_queue_head(work_queue) PROVE CompleteInv'
    OBVIOUS
  <2>1. /\ pc = "pop" /\ pc' = "calc" /\ block' = b0 /\ StartBlock(b0, MergeSuccs(b0))
        /\ live_out' = [live_out EXCEPT ![b0] = MergeSuccs(b0)]
        /\ ~ fixed_queue_is_empty(work_queue)
        /\ work_queue' = fixed_queue_pop(work_queue)
        /\ UNCHANGED <<prog, live_in, instr_live_out>>
    BY <1>8 DEF PopBlock, StartBlock
  <2>2. b0 \in Blocks(prog)
    BY <1>0, QueueSteps
  <2>3. /\ live_out'[b0] = MergeSuccs(b0)
        /\ \A b \in Blocks(prog) : b # b0 => live_out'[b] = live_out[b]
        /\ \A b \in Blocks(prog) : live_out[b] \subseteq live_out'[b]
    BY <1>0, <2>1, <2>2 DEF TypeOK, MergeSuccs
  <2>4. /\ \A b, n : AfterAt(b, n)' = AfterAt(b, n)
        /\ \A b \in Blocks(prog) : \A n \in Points(b) :
              /\ BeforeAt(b, n + 1) \subseteq BeforeAt(b, n + 1)'
              /\ b # b0 => BeforeAt(b, n + 1)' = BeforeAt(b, n + 1)
        /\ \A b : Points(b)' = Points(b)
    BY <2>1, <2>3 DEF AfterAt, BeforeAt, Points
  <2>5. Grown'
    <3> SUFFICES ASSUME NEW b \in Blocks(prog), NEW n \in Points(b)
                 PROVE  AfterAt(b, n)' \subseteq BeforeAt(b, n + 1)'
      BY <2>1, <2>4 DEF Grown
    <3>1. AfterAt(b, n) \subseteq BeforeAt(b, n + 1)
      BY <1>0 DEF Grown
    <3> QED BY <2>4, <3>1
  <2>6. InCalc'
    BY <1>c, <2>1, <2>2, <2>3
  <2>7. Visited'
    <3> SUFFICES ASSUME NEW b \in Blocks(prog), b # b0 PROVE Untouched(b)' \/ Solved(b)'
      BY <2>1 DEF Visited
    <3>1. Untouched(b) => Untouched(b)'
      BY <2>1 DEF Untouched
    <3>2. Solved(b) => Solved(b)'
      BY <2>4 DEF Solved
    <3> QED BY <1>0, <2>1, <3>1, <3>2 DEF Visited
  <2>8. Merged'
    <3>1. \A b : ExitNow(b)' = ExitNow(b)
      BY <2>1 DEF ExitNow
    <3>2. MergeSuccs(b0) \subseteq ExitNow(b0)
      BY <1>0, <2>2 DEF Merged, MergeSuccs, ExitNow
    <3> QED BY <1>0, <2>1, <2>3, <3>1, <3>2 DEF Merged
  <2>9. Served'
    <3> SUFFICES ASSUME NEW b \in Blocks(prog), NEW j \in DOMAIN prog.succs[b], ~ Queued(b)'
                 PROVE  live_in[prog.succs[b][j]] \subseteq live_out'[b]
      BY <2>1 DEF Served
    <3>1. CASE b = b0
      BY <2>3, <3>1 DEF MergeSuccs
    <3>2. CASE b # b0
      <4>1. ~ Queued(b)
        BY <1>0, <2>1, <3>2, RingSteps DEF Queued
      <4> QED BY <1>0, <2>1, <2>3, <4>1 DEF Served, ToBePushed
    <3> QED BY <3>1, <3>2
  <2> QED BY <2>5, <2>6, <2>7, <2>8, <2>9 DEF CompleteInv
<1> QED BY <1>1, <1>2, <1>3, <1>4, <1>5, <1>6, <1>7, <1>8, <1>9 DEF Next

\* The work loop ends with nothing queued.
Drained == pc = "done" => fixed_queue_is_empty(work_queue)

LEMMA DrainedStep == Drained /\ [Next]_vars => Drained'
BY DEF Drained, Next, vars, ScanBlock, ScanDone, CalcInstr, BlockSame, BlockChanged,
       PushPred, PushDone, PopBlock, Finish, StartBlock

LEMMA LiveOutAtEnd ==
  ASSUME LiveInv, CompleteInv, Drained, pc = "done", NEW b \in Blocks(prog)
  PROVE  live_out[b] = ExitNow(b)
<1>1. prog.num_blocks \in Nat \ {0} /\ work_queue \in QueueType(prog)
  BY ProgramFacts DEF LiveInv, TypeOK, QueueType
<1>2. ~ Queued(b)
  BY <1>1, RingSteps DEF Drained, Queued
<1>3. \A j \in DOMAIN prog.succs[b] : live_in[prog.succs[b][j]] \subseteq live_out[b]
  BY <1>2 DEF CompleteInv, Served, ToBePushed
<1>4. live_out[b] \subseteq ExitNow(b) /\ (b \in prog.end => Output \subseteq live_out[b])
  BY DEF CompleteInv, Merged
<1> QED BY <1>3, <1>4 DEF ExitNow

(* An overflow of the ring is the only thing that can go wrong with the    *)
(* work list: as long as every push finds room, the comment of 389-390     *)
(* comes true, although the first loop skips blocks and jumps back         *)
(* (lima_pp_lir_liveness_calc_prog).                                       *)
THEOREM LiveOutCompleteUnlessFull == Spec /\ []WorkQueueHolds => []LiveOutIsUnion
<1>1. LiveInv /\ CompleteInv /\ Drained => LiveOutIsUnion
  BY LiveOutAtEnd DEF LiveOutIsUnion, ExitNow
<1>2. Init => Drained
  BY DEF Init, Drained
<1>3. LiveInv /\ CompleteInv /\ WorkQueueHolds /\ [Next]_vars => CompleteInv'
  BY CompleteStep
<1> QED BY <1>1, <1>2, <1>3, LiveInit, LiveStep, CompleteInit, DrainedStep, PTL DEF Spec
-----------------------------------------------------------------------------
\* The solution a program carries is the least there is.
SolutionIsLeast(p) ==
    \A S : IsSolution(p, S) =>
        \A b \in Blocks(p) : \A n \in 1..(Len(p.code[b]) + 1) :
            p.solution[b][n] \subseteq S[b][n]

\* No block was left out that uses something.
NoneSkipped == pc = "done" => \A b \in Blocks(prog) : Untouched(b) => Solved(b)

\* What the analysis has found, as a solution.
Result == [b \in Blocks(prog) |-> [n \in 1..(Len(prog.code[b]) + 1) |-> AfterAt(b, n - 1)]]

LEMMA ResultSolves ==
  ASSUME LiveInv, CompleteInv, Drained, NoneSkipped, pc = "done"
  PROVE  IsSolution(prog, Result)
<1>1. prog \in Programs
  BY DEF LiveInv
<1> SUFFICES ASSUME NEW b \in Blocks(prog)
             PROVE  /\ Result[b][Len(prog.code[b]) + 1] = ExitLive(prog, Result, b)
                    /\ \A n \in DOMAIN prog.code[b] :
                          Result[b][n] = Needed(prog.code[b][n], Result[b][n + 1])
  BY DEF IsSolution
<1>2. /\ Len(prog.code[b]) \in Nat /\ DOMAIN prog.code[b] = 1..Len(prog.code[b])
      /\ \A j \in DOMAIN prog.succs[b] :
            prog.succs[b][j] \in Blocks(prog) /\ Len(prog.code[prog.succs[b][j]]) \in Nat
  BY <1>1, ProgramFacts
<1>3. \A n \in Points(b) : AfterAt(b, n) = BeforeAt(b, n + 1)
  BY DEF CompleteInv, Visited, NoneSkipped, Solved
<1>4. \A n \in 1..(Len(prog.code[b]) + 1) : Result[b][n] = AfterAt(b, n - 1)
  BY DEF Result
<1>5. Result[b][Len(prog.code[b]) + 1] = ExitNow(b)
  <2>1. Result[b][Len(prog.code[b]) + 1] = AfterAt(b, Len(prog.code[b]))
    BY <1>2, <1>4
  <2>2. AfterAt(b, Len(prog.code[b])) = BeforeAt(b, Len(prog.code[b]) + 1)
    BY <1>2, <1>3 DEF Points
  <2> QED BY <2>1, <2>2, LiveOutAtEnd DEF BeforeAt
<1>6. ExitNow(b) = ExitLive(prog, Result, b)
  <2>1. \A j \in DOMAIN prog.succs[b] : Result[prog.succs[b][j]][1] = live_in[prog.succs[b][j]]
    BY <1>2 DEF Result, AfterAt
  <2> QED BY <2>1 DEF ExitNow, ExitLive
<1>7. ASSUME NEW n \in DOMAIN prog.code[b]
      PROVE  Result[b][n] = Needed(prog.code[b][n], Result[b][n + 1])
  <2>1. /\ n - 1 \in Points(b) /\ n # Len(prog.code[b]) + 1 /\ n # 0
        /\ n \in 1..(Len(prog.code[b]) + 1) /\ n + 1 \in 1..(Len(prog.code[b]) + 1)
        /\ (n - 1) + 1 = n /\ (n + 1) - 1 = n
    BY <1>2 DEF Points
  <2>2. Result[b][n] = BeforeAt(b, n)
    BY <1>3, <1>4, <2>1
  <2>3. Result[b][n + 1] = instr_live_out[b][n]
    BY <1>4, <2>1 DEF AfterAt
  <2> QED BY <2>1, <2>2, <2>3 DEF BeforeAt
<1> QED BY <1>5, <1>6, <1>7

(* What the allocator reads is complete, and with NothingDeadIsLive        *)
(* exactly the least solution, unless the ring overflowed or a block was   *)
(* left out: these are the only two ways in which the work lists can fail  *)
(* (lima_pp_lir_liveness_calc_prog).                                       *)
THEOREM UsesLiveUnlessFullOrSkipped ==
  ASSUME \A p \in Programs : SolutionIsLeast(p)
  PROVE  Spec /\ []WorkQueueHolds /\ []NoneSkipped => []EveryUseIsLive
<1>1. LiveInv /\ CompleteInv /\ Drained /\ NoneSkipped => EveryUseIsLive
  <2> SUFFICES ASSUME LiveInv, CompleteInv, Drained, NoneSkipped, pc = "done",
                      NEW b \in Blocks(prog), NEW n \in DOMAIN prog.code[b]
               PROVE  prog.solution[b][n + 1] \subseteq instr_live_out[b][n]
    BY DEF EveryUseIsLive
  <2>1. IsSolution(prog, Result) /\ prog \in Programs
    BY ResultSolves DEF LiveInv
  <2>2. n \in 1..Len(prog.code[b]) /\ Len(prog.code[b]) \in Nat
    BY <2>1, ProgramFacts
  <2>3. n + 1 \in 1..(Len(prog.code[b]) + 1) /\ (n + 1) - 1 = n /\ n # 0
    BY <2>2
  <2>4. prog.solution[b][n + 1] \subseteq Result[b][n + 1]
    BY <2>1, <2>3 DEF SolutionIsLeast
  <2> QED BY <2>3, <2>4 DEF Result, AfterAt
<1>2. Init => Drained
  BY DEF Init, Drained
<1>3. LiveInv /\ CompleteInv /\ WorkQueueHolds /\ [Next]_vars => CompleteInv'
  BY CompleteStep
<1> QED BY <1>1, <1>2, <1>3, LiveInit, LiveStep, CompleteInit, DrainedStep, PTL DEF Spec
=============================================================================
