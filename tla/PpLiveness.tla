----------------------------- MODULE PpLiveness -----------------------------
(***************************************************************************)
(* Liveness analysis of the fragment-shader LIR, pp_lir/liveness.c: for    *)
(* every block, and every scheduled instruction of it, the register        *)
(* components whose value may still be read.  The register allocator       *)
(* builds its interference matrix from the result, so a component missing  *)
(* from it is a register two values are put in at once.                    *)
(*                                                                         *)
(* The analysis first computes every block once, from the last instruction *)
(* to the first, and queues the predecessors of the blocks that changed;   *)
(* then it recomputes queued blocks until the queue is empty.  The two     *)
(* loops share the index variable i, and the queue is a ring of num_blocks *)
(* slots that are not checked on a push.                                   *)
(*                                                                         *)
(* A register component is a member of Comp.  A scheduled instruction is a *)
(* function from the slots it occupies to the components that the          *)
(* instruction in the slot reads and writes (pipeline registers, which no  *)
(* component stands for, are left out).  Beside what the code has, a       *)
(* program carries `solution', one solution of its dataflow equations, for *)
(* the properties to compare with: solution[b][k] is live before the k-th  *)
(* instruction of block b.                                                 *)
(***************************************************************************)
EXTENDS FixedQueue

CONSTANTS
    Comp,       \* components of the registers
    Output,     \* $0.xyzw, the register a shader's result is taken from
    Programs    \* the programs considered

Slots == { "varying", "texld", "uniform", "vector_mul", "scalar_mul",
           "vector_add", "scalar_add", "combine", "temp_store", "branch" }

Instr == [read : SUBSET Comp, write : SUBSET Comp]
IsSchedInstr(x) == DOMAIN x \subseteq Slots /\ x \in [DOMAIN x -> Instr]

Blocks(p) == 0..(p.num_blocks - 1)
-----------------------------------------------------------------------------
(* One scheduled instruction.                                              *)

\* Instructions that issue together: all of them write, then all of them
\* read, seen from the end of the instruction (245-299).
GroupLive(instr, slots, live) ==
    LET here == slots \cap DOMAIN instr
    IN  (live \ UNION {instr[s].write : s \in here})
            \cup UNION {instr[s].read : s \in here}

\* Slip: the vector units are visited before the scalar/vector adders.
SchedLiveSwapped(instr, live_out) ==
    LET a == GroupLive(instr, {"branch"}, live_out)
        b == GroupLive(instr, {"temp_store"}, a)
        c == GroupLive(instr, {"combine"}, b)
        d == GroupLive(instr, {"vector_mul", "scalar_mul"}, c)
        e == GroupLive(instr, {"vector_add", "scalar_add"}, d)
        f == GroupLive(instr, {"uniform"}, e)
        g == GroupLive(instr, {"texld"}, f)
    IN  GroupLive(instr, {"varying"}, g)

\* lima_pp_lir_liveness_calc_scheduled_instr: the slots in the reverse of
\* the order the hardware runs them in.
SchedLive(instr, live_out) ==
    LET a == GroupLive(instr, {"branch"}, live_out)
        b == GroupLive(instr, {"temp_store"}, a)
        c == GroupLive(instr, {"combine"}, b)
        d == GroupLive(instr, {"vector_add", "scalar_add"}, c)
        e == GroupLive(instr, {"vector_mul", "scalar_mul"}, d)
        f == GroupLive(instr, {"uniform"}, e)
        g == GroupLive(instr, {"texld"}, f)
    IN  GroupLive(instr, {"varying"}, g)

(* The meaning of an instruction, to compare SchedLive with: the order in  *)
(* which the hardware runs the slots, those of one stage in parallel.      *)
Stage == [ varying    |-> 1, texld      |-> 2, uniform    |-> 3,
           vector_mul |-> 4, scalar_mul |-> 4, vector_add |-> 5,
           scalar_add |-> 5, combine    |-> 6, temp_store |-> 7, branch |-> 8 ]

\* Components whose value before the instruction matters, when those in
\* `after' matter behind it: read by a slot before an earlier stage writes
\* them, or passed through unwritten.
Needed(instr, after) ==
    { c \in Comp :
        \/ \E s \in DOMAIN instr :
               /\ c \in instr[s].read
               /\ \A t \in DOMAIN instr : Stage[t] < Stage[s] => c \notin instr[t].write
        \/ c \in after /\ \A t \in DOMAIN instr : c \notin instr[t].write }

\* A solution of a program's dataflow equations.
ExitLive(p, S, b) ==
    (IF b \in p.end THEN Output ELSE {})
        \cup UNION {S[p.succs[b][j]][1] : j \in DOMAIN p.succs[b]}

IsSolution(p, S) ==
    \A b \in Blocks(p) :
        /\ S[b][Len(p.code[b]) + 1] = ExitLive(p, S, b)
        /\ \A n \in DOMAIN p.code[b] : S[b][n] = Needed(p.code[b][n], S[b][n + 1])

IsProgram(p) ==
    /\ p.num_blocks \in Nat \ {0}
    /\ p.end \subseteq Blocks(p)
    /\ p.succs \in [Blocks(p) -> Seq(Blocks(p))]
    /\ p.preds \in [Blocks(p) -> Seq(Blocks(p))]
    /\ \A b \in Blocks(p) : \A j \in DOMAIN p.succs[b] :
           \E m \in DOMAIN p.preds[p.succs[b][j]] : p.preds[p.succs[b][j]][m] = b
    /\ DOMAIN p.code = Blocks(p)
    /\ \A b \in Blocks(p) :
           /\ Len(p.code[b]) \in Nat
           /\ DOMAIN p.code[b] = 1..Len(p.code[b])
           /\ \A n \in DOMAIN p.code[b] : IsSchedInstr(p.code[b][n])

ASSUME OutputAssumption == Output \subseteq Comp
ASSUME ProgramsAssumption == \A p \in Programs : IsProgram(p)
ASSUME SolutionAssumption == \A p \in Programs : IsSolution(p, p.solution)
-----------------------------------------------------------------------------
VARIABLES
    prog,           \* the program
    pc,             \* where lima_pp_lir_liveness_calc_prog is
    loop,           \* the loop that called calc_block: "scan" or "work"
    i,              \* the index variable of all its for loops
    block,          \* the block being computed
    k,              \* instructions of it still to be computed
    cur_live,       \* what is live after them
    live_in,        \* block->live_in
    live_out,       \* block->live_out
    instr_live_out, \* instr->live_out, which the register allocator reads
    work_queue      \* the fixed_queue_t

vars == <<prog, pc, loop, i, block, k, cur_live, live_in, live_out,
          instr_live_out, work_queue>>

\* lima_pp_lir_liveness_init: bitset_create leaves every set empty.
Init ==
    /\ prog \in Programs
    /\ live_in = [b \in Blocks(prog) |-> {}]
    /\ live_out = [b \in Blocks(prog) |-> IF b \in prog.end THEN Output ELSE {}]
    /\ instr_live_out = [b \in Blocks(prog) |-> [n \in DOMAIN prog.code[b] |-> {}]]
    /\ work_queue = fixed_queue_create(prog.num_blocks, 0)
    /\ pc = "scan" /\ loop = "scan" /\ i = 0
    /\ block = 0 /\ k = 0 /\ cur_live = {}

\* Slip: the successors' live-in sets are not merged on a revisit.
ForgetSuccs(b) == live_out[b]

\* The union of 392-394.
MergeSuccs(b) ==
    live_out[b] \cup UNION {live_in[prog.succs[b][j]] : j \in DOMAIN prog.succs[b]}

\* lima_pp_lir_liveness_calc_block on entry: the last instruction's live_out
\* is the block's.
StartBlock(b, out) ==
    /\ block' = b
    /\ k' = Len(prog.code[b])
    /\ cur_live' = out
    /\ pc' = "calc"

\* The first loop, while it has a block to compute ...
ScanBlock ==
    /\ pc = "scan" /\ i < prog.num_blocks
    /\ loop' = "scan"
    /\ StartBlock(i, live_out[i])
    /\ UNCHANGED <<prog, i, live_in, live_out, instr_live_out, work_queue>>

\* ... and when it has none.
ScanDone ==
    /\ pc = "scan" /\ i >= prog.num_blocks
    /\ pc' = "pop"
    /\ UNCHANGED <<prog, loop, i, block, k, cur_live, live_in, live_out,
                   instr_live_out, work_queue>>

\* One instruction, backwards through the block (static liveness_calc_block).
CalcInstr ==
    /\ pc = "calc" /\ k > 0
    /\ instr_live_out' = [instr_live_out EXCEPT ![block] =
                              [@ EXCEPT ![k] = cur_live]]
    /\ cur_live' = SchedLive(prog.code[block][k], cur_live)
    /\ k' = k - 1
    /\ UNCHANGED <<prog, pc, loop, i, block, live_in, live_out, work_queue>>

\* Slip: a block that did not change queues its predecessors all the same.
BlockSameQueues ==
    /\ pc = "calc" /\ k = 0 /\ cur_live = live_in[block]
    /\ pc' = "push" /\ i' = 0
    /\ UNCHANGED <<prog, loop, block, k, cur_live, live_in, live_out,
                   instr_live_out, work_queue>>

\* calc_block returns false: nothing to queue.
BlockSame ==
    /\ pc = "calc" /\ k = 0 /\ cur_live = live_in[block]
    /\ IF loop = "scan"
       THEN pc' = "scan" /\ i' = i + 1
       ELSE pc' = "pop"  /\ i' = i
    /\ UNCHANGED <<prog, loop, block, k, cur_live, live_in, live_out,
                   instr_live_out, work_queue>>

\* calc_block returns true: i = 0 starts the loop over the predecessors.
BlockChanged ==
    /\ pc = "calc" /\ k = 0 /\ cur_live # live_in[block]
    /\ live_in' = [live_in EXCEPT ![block] = cur_live]
    /\ i' = 0
    /\ pc' = "push"
    /\ UNCHANGED <<prog, loop, block, k, cur_live, live_out, instr_live_out,
                   work_queue>>

PushPred ==
    /\ pc = "push" /\ i < Len(prog.preds[block])
    /\ work_queue' = fixed_queue_push(work_queue, prog.preds[block][i + 1])
    /\ i' = i + 1
    /\ UNCHANGED <<prog, pc, loop, block, k, cur_live, live_in, live_out,
                   instr_live_out>>

\* The inner loop leaves num_preds in i; the first loop's i++ comes on top.
PushDone ==
    /\ pc = "push" /\ i >= Len(prog.preds[block])
    /\ IF loop = "scan"
       THEN pc' = "scan" /\ i' = i + 1
       ELSE pc' = "pop"  /\ i' = i
    /\ UNCHANGED <<prog, loop, block, k, cur_live, live_in, live_out,
                   instr_live_out, work_queue>>

PopBlock ==
    /\ pc = "pop" /\ ~ fixed_queue_is_empty(work_queue)
    /\ LET b == fixed_queue_head(work_queue) IN
       /\ live_out' = [live_out EXCEPT ![b] = MergeSuccs(b)]
       /\ i' = Len(prog.succs[b])
       /\ StartBlock(b, MergeSuccs(b))
    /\ work_queue' = fixed_queue_pop(work_queue)
    /\ loop' = "work"
    /\ UNCHANGED <<prog, live_in, instr_live_out>>

Finish ==
    /\ pc = "pop" /\ fixed_queue_is_empty(work_queue)
    /\ pc' = "done"
    /\ UNCHANGED <<prog, loop, i, block, k, cur_live, live_in, live_out,
                   instr_live_out, work_queue>>

Next == \/ ScanBlock \/ ScanDone \/ CalcInstr \/ BlockSame \/ BlockChanged
        \/ PushPred \/ PushDone \/ PopBlock \/ Finish

\* The analysis is one sequential function: it keeps running.
Spec == Init /\ [][Next]_vars /\ WF_vars(Next)
-----------------------------------------------------------------------------
TypeOK ==
    /\ pc \in {"scan", "calc", "push", "pop", "done"}
    /\ loop \in {"scan", "work"}
    /\ i \in Nat
    /\ block \in Blocks(prog)
    /\ k \in 0..Len(prog.code[block])
    /\ cur_live \in SUBSET Comp
    /\ live_in \in [Blocks(prog) -> SUBSET Comp]
    /\ live_out \in [Blocks(prog) -> SUBSET Comp]
    /\ DOMAIN instr_live_out = Blocks(prog)
    /\ \A b \in Blocks(prog) :
           instr_live_out[b] \in [DOMAIN prog.code[b] -> SUBSET Comp]
    /\ work_queue \in [ size        : {prog.num_blocks + 1},
                        elems       : [0..prog.num_blocks -> Blocks(prog)],
                        front_index : 0..prog.num_blocks,
                        back_index  : 0..prog.num_blocks ]

(* At no moment does the analysis call a component live that no execution  *)
(* needs: every set it holds stays inside every solution of the dataflow   *)
(* equations (liveness_calc_write, liveness_calc_read and the union of     *)
(* 392-394), whatever the order of the visits.                             *)
NothingDeadIsLive ==
    LET S == prog.solution IN
    /\ \A b \in Blocks(prog) :
           /\ live_in[b] \subseteq S[b][1]
           /\ live_out[b] \subseteq S[b][Len(prog.code[b]) + 1]
           /\ \A n \in DOMAIN prog.code[b] :
                  instr_live_out[b][n] \subseteq S[b][n + 1]
    /\ pc = "calc" => cur_live \subseteq S[block][k + 1]

(* When the analysis ends, the live_out that the register allocator reads  *)
(* from each instruction is complete: it holds every component a later     *)
(* instruction on some path reads before it is written                     *)
(* (lima_pp_lir_liveness_calc_prog).                                       *)
EveryUseIsLive ==
    pc = "done" =>
        \A b \in Blocks(prog) : \A n \in DOMAIN prog.code[b] :
            prog.solution[b][n + 1] \subseteq instr_live_out[b][n]

(* No push finds the ring of num_blocks elements full: a block may be      *)
(* queued several times at once (378-380, 397-399).                        *)
WorkQueueHolds ==
    (pc = "push" /\ i < Len(prog.preds[block])) =>
        fixed_queue_count(work_queue) < prog.num_blocks

(* "Each block's set of live-out variables is the union of the live-in     *)
(* variables of each of its succesor blocks." (389-390), once the analysis *)
(* is done.                                                                *)
LiveOutIsUnion ==
    pc = "done" =>
        \A b \in Blocks(prog) \ prog.end :
            live_out[b] = UNION {live_in[prog.succs[b][j]] :
                                     j \in DOMAIN prog.succs[b]}

(* The analysis ends: although the first loop may jump back and the second *)
(* revisits blocks, the sets only grow.                                    *)
Terminates == <>(pc = "done")
=============================================================================
