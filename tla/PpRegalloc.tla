----------------------------- MODULE PpRegalloc -----------------------------
(***************************************************************************)
(* The fragment-shader register allocator, pp_lir/regalloc.c: rounds, each *)
(* from the interference matrix to an assignment of physical registers or  *)
(* to a set of registers to spill, which are spilled before the next.      *)
(*                                                                         *)
(* A virtual register waits in one of three queues.  It is simplified -    *)
(* pushed on the select stack - once it is sure to find a place whatever   *)
(* its remaining neighbours get (q_total < p); the moves are coalesced     *)
(* when that is safe, and given up ("frozen") when nothing else can be     *)
(* done; when even that is exhausted, a register is simplified             *)
(* optimistically.  Then the stack is popped and each register takes the   *)
(* first place that none of its coloured neighbours overlaps.              *)
(*                                                                         *)
(* How the state corresponds to the code:                                  *)
(*  - adjacent is both the adjacent lists and the coarse matrix, which the *)
(*    code always changes together; detailed is the detailed matrix.       *)
(*  - alias and alias_swizzle hold what get_alias returns, that is, the    *)
(*    end of the chain of aliases and the composition of their swizzles.   *)
(*  - the iteration order of a ptrset and of an adjacent list is not       *)
(*    determined by anything the allocator states: every choice that       *)
(*    depends on it is nondeterministic.                                   *)
(*                                                                         *)
(* Programs are taken as the allocator sees them: registers with sizes,    *)
(* the components each instruction reads and writes, and which             *)
(* instructions are plain moves.  Register 0 is $0, the precolored         *)
(* register a shader returns its colour in; the others are virtual.  (This *)
(* is the numbering of get_index; the precolored $1 to $5 occur in no      *)
(* program before register allocation.)  Programs are straight-line: what  *)
(* a jump changes for the allocator is only which components are live,     *)
(* which PpLiveness models.                                                *)
(*                                                                         *)
(* A program p has                                                         *)
(*   p.size[r]       number of components, 1 to 4                          *)
(*   p.beginning[r]  must start at component x of a physical register,     *)
(*                   because loads and stores have no swizzle              *)
(*   p.reg_alloc     number of virtual registers, and of those that were   *)
(*                   deleted since they were last counted                  *)
(*   p.temps         number of temporaries (temp_alloc)                    *)
(*   p.code          sequence of instructions.                             *)
(* An instruction x has x.dest (NoReg: none) and x.mask, the components    *)
(* it writes; x.reads, the components it reads, as pairs; and, if it is a  *)
(* move (x.move), its source x.src and the component x.swz[c] of the       *)
(* source that goes to component c.  x.early: in the varying, texture or   *)
(* uniform slot.                                                           *)
(*                                                                         *)
(* Spilling adds to an instruction: x.load, the temporary its uniform slot *)
(* loads into the pipeline register Pipeline (NoReg: none), where x.reads  *)
(* and x.src may then find it; and x.store, the temporary that x.src is    *)
(* stored to (NoReg: none).  Temporaries are numbered down from Temp(1).   *)
(* x.id is the place of x in the program as it came in (0: made by         *)
(* spilling), and x.via[r] where it now finds what it read from r then.    *)
(***************************************************************************)
EXTENDS Integers, Sequences, FiniteSets, SequencesExt

CONSTANT NumPhys        \* number of physical vec4 registers; the GPU has 6

ASSUME NumPhysAssumption == NumPhys \in Nat \ {0}

Precolored == 0         \* $0
NoReg == -1
Component == 0..3

Pipeline == -2          \* lima_pp_lir_pipeline_reg_uniform
Temp(n) == -2 - n

Regs(p) == DOMAIN p.size
VirtualRegs(p) == Regs(p) \ {Precolored}

Reads(x) == { e \in x.reads : e[1] # Pipeline }
Writes(x) == {x.dest} \X x.mask

Defs(p, r) == { n \in DOMAIN p.code : p.code[n].dest = r }
Uses(p, r) == { n \in DOMAIN p.code : \E c \in Component : <<r, c>> \in p.code[n].reads }

Moves(p) == { n \in DOMAIN p.code : p.code[n].move }

Fields == { "dest", "mask", "reads", "move", "src", "swz", "load", "store", "early", "id", "via" }

IsInstr(p, x) ==
    /\ DOMAIN x = Fields
    /\ x.dest \in Regs(p) \cup {NoReg} /\ x.mask \subseteq Component
    /\ x.reads \subseteq (Regs(p) \cup {Pipeline}) \X Component
    /\ x.move =>
        /\ x.dest \in Regs(p) /\ x.src \in Regs(p)
        /\ x.mask # {} /\ x.mask \subseteq 0..(p.size[x.dest] - 1)
        /\ \A c \in x.mask : /\ x.swz[c] \in 0..(p.size[x.src] - 1)
                             /\ <<x.src, x.swz[c]>> \in x.reads

IsProgram(p) ==
    /\ p.size \in [Regs(p) -> 1..4] /\ p.beginning \in [Regs(p) -> BOOLEAN]
    /\ IsFiniteSet(Regs(p)) /\ Regs(p) \subseteq Nat
    /\ Precolored \in Regs(p) /\ p.size[Precolored] = 4
    /\ p.reg_alloc \in Nat /\ p.reg_alloc >= Cardinality(VirtualRegs(p))
    /\ p.temps \in Nat
    /\ Len(p.code) \in Nat /\ DOMAIN p.code = 1..Len(p.code)
    /\ \A n \in DOMAIN p.code : IsInstr(p, p.code[n])
-----------------------------------------------------------------------------
(* The register classes and the p and q tables of the paper (71-87).       *)

get_reg_class(p, r) == IF p.beginning[r] THEN p.size[r] + 3 ELSE p.size[r] - 1

PerVec4 == <<4, 3, 2, 1, 1, 1, 1, 1>>

\* Places of a class; the code has 6 physical registers.
P(class) == NumPhys * PerVec4[class + 1]

QTable == << <<1, 2, 3, 4, 1, 2, 3, 4>>,
             <<2, 3, 3, 3, 1, 2, 3, 3>>,
             <<2, 2, 2, 2, 1, 2, 2, 2>>,
             <<1, 1, 1, 1, 1, 1, 1, 1>>,
             <<1, 1, 1, 1, 1, 1, 1, 1>>,
             <<1, 1, 1, 1, 1, 1, 1, 1>>,
             <<1, 1, 1, 1, 1, 1, 1, 1>>,
             <<1, 1, 1, 1, 1, 1, 1, 1>> >>

\* Places of the first class that a register of the second can take away.
Q(class, other) == QTable[class + 1][other + 1]
-----------------------------------------------------------------------------
(* Interference.                                                           *)

\* LiveAfter(p)[n]: live behind the n-th instruction; $0 is live at the end.
LiveAfter(p) ==
    LET live[n \in 0..Len(p.code)] ==
            IF n = Len(p.code) THEN {Precolored} \X Component
            ELSE LET x == p.code[n + 1]
                 IN  (live[n + 1] \ Writes(x)) \cup Reads(x)
    IN  live

\* Slip: a component that the move copies and a component it does not copy
\* are both taken as not interfering.
InterfereMoveAll(p, n, live) ==
    LET x == p.code[n]
        copied == IF x.move THEN {x.src} \X Component ELSE {}
    IN  Writes(x) \X { c \in live \ copied : c[1] # x.dest }

\* add_edge_instr: what an instruction writes interferes with what is live
\* behind it, except the components that a move has just copied.
Interfere(p, n, live) ==
    LET x == p.code[n]
        copied == IF x.move THEN {<<x.src, x.swz[c]>> : c \in x.mask} ELSE {}
    IN  Writes(x) \X { c \in live \ copied : c[1] # x.dest }

\* calc_detailed_int_matrix: a symmetric relation on components.
DetailedMatrix(p) ==
    LET live == LiveAfter(p)
        half == UNION { Interfere(p, n, live[n]) :
                            n \in {m \in DOMAIN p.code : p.code[m].dest # NoReg} }
    IN  half \cup { <<e[2], e[1]>> : e \in half }

\* calc_coarse_int_matrix, and the adjacent lists of add_edge: two registers
\* interfere when two of their components do.
CoarseMatrix(p, detailed) ==
    [r \in Regs(p) |-> { s \in Regs(p) : \E i, j \in Component :
                                             <<<<r, i>>, <<s, j>>>> \in detailed }]
-----------------------------------------------------------------------------
(* Spilling (1117-1452): a register moves to a temporary.  Every           *)
(* instruction that uses it loads it into the pipeline register, where the *)
(* uniform slot is free; otherwise a new register takes its place in that  *)
(* instruction, loaded in front of it and stored behind it as needed.      *)

ReadsReg(x, reg) == \E c \in Component : <<reg, c>> \in x.reads
Whole(p, reg) == 0..(p.size[reg] - 1)

\* calc_spill_instr and can_pipeline (1120-1150, 1238-1280): the pipeline register
\* is there for the slots behind the uniform one.
CanPipeline(x, reg) == x.dest # reg /\ x.load = NoReg /\ ~ x.early
NeedsLoad(p, x, reg) == ReadsReg(x, reg) \/ x.mask # Whole(p, reg)

\* reg_to_reg_instr files an instruction that reads reg under the definitions
\* of the new register and leaves it in reg->uses (1195-1203), so that the
\* assertion that nothing uses reg any more fails (1447).
LosesUse(p, reg) ==
    \E n \in DOMAIN p.code : ReadsReg(p.code[n], reg) /\ ~ CanPipeline(p.code[n], reg)

\* reg_to_pipeline_reg: a move from there is no move for is_move.
Pipelined(x, reg, temp) ==
    [x EXCEPT !.load = temp,
              !.reads = { IF e[1] = reg THEN <<Pipeline, e[2]>> ELSE e : e \in @ },
              !.src = IF @ = reg THEN Pipeline ELSE @,
              !.move = @ /\ x.src # reg,
              !.via = [r \in DOMAIN @ |-> IF @[r] = reg THEN Pipeline ELSE @[r]]]

LoadTemp(reg, temp) ==
    [ dest |-> reg, mask |-> Component, reads |-> {Pipeline} \X Component, move |-> FALSE,
      src |-> Pipeline, swz |-> [c \in Component |-> c], load |-> temp, store |-> NoReg,
      early |-> FALSE, id |-> 0, via |-> <<>> ]

StoreTemp(reg, temp) ==
    [LoadTemp(NoReg, NoReg) EXCEPT !.mask = {}, !.reads = {reg} \X Component, !.src = reg, !.store = temp]

\* spill_sched_instr: what the instruction becomes.
Spilled(p, x, reg, new, temp) ==
    CASE x.dest # reg /\ ~ ReadsReg(x, reg) -> <<x>>
      [] x.dest # reg /\ ReadsReg(x, reg) -> <<Pipelined(x, reg, temp)>>
      [] x.dest = reg -> (IF NeedsLoad(p, x, reg) THEN <<LoadTemp(new, temp)>> ELSE <<>>)
                             \o <<[x EXCEPT !.dest = new], StoreTemp(new, temp)>>

\* The instructions `new' take the place of the n-th.
Replaced(code, n, new) ==
    [m \in 1..(Len(code) + Len(new) - 1) |->
        IF m < n THEN code[m]
        ELSE IF m < n + Len(new) THEN new[m - n + 1]
        ELSE code[m - Len(new) + 1]]

\* A register of four components, at the beginning of its place (1268-1291).
AppendReg(p, new) ==
    [ size |-> [r \in Regs(p) \cup {new} |-> IF r = new THEN 4 ELSE p.size[r]],
      beginning |-> [r \in Regs(p) \cup {new} |-> IF r = new THEN TRUE ELSE p.beginning[r]],
      reg_alloc |-> p.reg_alloc + 1, temps |-> p.temps, code |-> p.code ]

DeleteReg(p, reg) ==
    [ size |-> [r \in Regs(p) \ {reg} |-> p.size[r]],
      beginning |-> [r \in Regs(p) \ {reg} |-> p.beginning[r]],
      reg_alloc |-> p.reg_alloc, temps |-> p.temps, code |-> p.code ]

WithCode(p, code) ==
    [ size |-> p.size, beginning |-> p.beginning, reg_alloc |-> p.reg_alloc,
      temps |-> p.temps, code |-> code ]

NextReg(p) == 1 + CHOOSE r \in Regs(p) : \A s \in Regs(p) : s <= r
-----------------------------------------------------------------------------
CONSTANTS
    Programs,
    MaxTemps            \* bound: no spilling beyond so many temporaries

ASSUME ProgramsAssumption == \A p \in Programs : IsProgram(p)

\* q_total is an unsigned int; UInt stands in for 2^32.
UInt == 65536

States == { "initial", "to_simplify", "simplified", "to_spill", "spilled",
            "to_freeze", "colored", "coalesced" }

VARIABLES
    source,             \* the program as it came in
    prog,               \* the program
    pc,                 \* "start", "work", "assign", "spill", "rewrite"; "done" or "failed"
    state,              \* reg->state
    q_total,            \* reg->q_total
    adjacent,           \* reg->adjacent
    detailed,           \* pairs of components that interfere
    moves,              \* reg->moves
    alias,              \* get_alias of a register ...
    alias_swizzle,      \* ... and the component each of its own is part of
    move_queue,         \* moves to be tried
    active_moves,       \* moves to be tried again after a simplification
    simplify_queue,
    freeze_queue,
    spill_queue,
    select_stack,
    allocated,          \* reg->allocated_index and allocated_offset
    spilled_regs,       \* registers without a place, until they are spilled
    spilling,           \* the register spill_reg is at work on ...
    at                  \* ... and the instruction it comes to next

spill == <<spilling, at>>
graph == <<q_total, adjacent, detailed, moves, alias, alias_swizzle>>
vars == <<source, prog, pc, state, graph, move_queue, active_moves, simplify_queue,
          freeze_queue, spill_queue, select_stack, allocated, spilled_regs, spill>>

Comps(r) == 0..(prog.size[r] - 1)
Class(r) == get_reg_class(prog, r)
PR(r) == P(Class(r))
QR(r, s) == Q(Class(r), Class(s))

\* The sum of q over a set of neighbours of r.
SumQ(r, S) == Cardinality({ e \in S \X (1..4) : e[2] <= QR(r, e[1]) })

LiveMoves == move_queue \cup active_moves
Gone(st) == { r \in Regs(prog) : st[r] \in {"simplified", "coalesced"} }
-----------------------------------------------------------------------------
(* The start of a round: init_regs, the matrices, init_moves and           *)
(* init_reg_queues.                                                        *)

MovesOf(r) == { m \in Moves(prog) : r \in {prog.code[m].dest, prog.code[m].src} }

InitState(r, q, mv) ==
    IF r = Precolored THEN "initial"
    ELSE IF q >= PR(r) THEN "to_spill"
    ELSE IF mv = {} THEN "to_simplify"
    ELSE "to_freeze"

InitQTotal(r, adj) ==
    IF r = Precolored THEN prog.reg_alloc + NumPhys ELSE SumQ(r, adj[r])

\* Registers in the order of their index.
Ascending(S) == { s \in SetToSeqs(S) : \A a, b \in DOMAIN s : a < b => s[a] < s[b] }

\* Before the first round.
Init ==
    /\ source \in Programs
    /\ prog = source
    /\ pc = "start"
    /\ state = <<>> /\ q_total = <<>> /\ adjacent = <<>> /\ detailed = {} /\ moves = <<>>
    /\ alias = <<>> /\ alias_swizzle = <<>> /\ allocated = <<>>
    /\ move_queue = {} /\ active_moves = {} /\ freeze_queue = {} /\ spill_queue = {}
    /\ simplify_queue = <<>> /\ select_stack = <<>> /\ spilled_regs = {}
    /\ spilling = NoReg /\ at = 0

StartRound ==
    /\ pc = "start"
    /\ pc' = "work"
    /\ detailed' = DetailedMatrix(prog)
    /\ adjacent' = CoarseMatrix(prog, detailed')
    /\ moves' = [r \in Regs(prog) |-> MovesOf(r)]
    /\ q_total' = [r \in Regs(prog) |-> InitQTotal(r, adjacent')]
    /\ alias' = [r \in Regs(prog) |-> r]
    /\ alias_swizzle' = [r \in Regs(prog) |-> [c \in Comps(r) |-> c]]
    /\ move_queue' = Moves(prog)
    /\ active_moves' = {}
    /\ state' = [r \in Regs(prog) |-> InitState(r, q_total'[r], moves'[r])]
    /\ simplify_queue' \in Ascending({r \in Regs(prog) : state'[r] = "to_simplify"})
    /\ freeze_queue' = {r \in Regs(prog) : state'[r] = "to_freeze"}
    /\ spill_queue' = {r \in Regs(prog) : state'[r] = "to_spill"}
    /\ select_stack' = <<>>
    /\ allocated' = [r \in Regs(prog) |-> <<0, 0>>]
    /\ spilled_regs' = {}
    /\ prog' = [ size |-> prog.size, beginning |-> prog.beginning,
                 reg_alloc |-> Cardinality(VirtualRegs(prog)), temps |-> prog.temps,
                 code |-> prog.code ]
    /\ UNCHANGED <<source, spill>>
-----------------------------------------------------------------------------
(* What several steps share.                                               *)

move_related(r, live) == moves[r] \cap live # {}

\* The registers that decrement_q_total finds below their p: neither in the
\* simplify queue nor in the freeze queue until now.
Dropped(others, q, st) ==
    { r \in others : q[r] < PR(r) /\ st[r] \notin {"to_simplify", "to_freeze"} }

\* ... whose moves, and those of their remaining neighbours, are tried again.
Woken(dropped, st, adj) == dropped \cup (UNION {adj[r] : r \in dropped} \ Gone(st))

\* decrement_q_total (418-452) on each of `others', which leaves q in their
\* q_total: a register that drops below its p changes queue.  st, mv and adj are
\* the states, moves and adjacent lists then in force, queued, fq, sq and queue
\* the four queues.  A dropped register without a move is pushed on the simplify
\* queue, in the order of the adjacent list; `full' go back from the freeze queue
\* to the spill queue (635-641).
Requeue(others, q, st, mv, adj, queued, fq, sq, queue, full) ==
    LET dropped == Dropped(others, q, st)
        related == { r \in dropped : mv[r] \cap (queued \cup active_moves) # {} }
        tried   == active_moves \cap UNION {mv[r] : r \in Woken(dropped, st, adj)}
        after   == [r \in Regs(prog) |->
                       IF r \in related THEN "to_freeze"
                       ELSE IF r \in dropped THEN "to_simplify"
                       ELSE st[r]]
        back    == { r \in full : after[r] = "to_freeze" }
    IN  /\ active_moves' = active_moves \ tried
        /\ move_queue' = queued \cup tried
        /\ spill_queue' = (sq \ dropped) \cup back
        /\ freeze_queue' = (fq \cup related) \ back
        /\ \E pushed \in SetToSeqs(dropped \ related) : simplify_queue' = queue \o pushed
        /\ state' = [r \in Regs(prog) |-> IF r \in back THEN "to_spill" ELSE after[r]]

\* add_to_queue (503-512)
Pushable(r) ==
    r # Precolored /\ ~ move_related(r, LiveMoves') /\ q_total[r] < PR(r)

Push(r) == IF Pushable(r) THEN <<r>> ELSE <<>>

\* Slip: the registers stay in the freeze queue as well.
KeepsFrozen(src, dst) ==
    LET ready == { r \in {src, dst} : Pushable(r) }
    IN  /\ simplify_queue' = IF src = dst THEN Push(src) ELSE Push(src) \o Push(dst)
        /\ UNCHANGED freeze_queue
        /\ state' = [r \in Regs(prog) |-> IF r \in ready THEN "to_simplify" ELSE state[r]]

\* add_to_queue on src, then on dst (and once only when they are the same);
\* the simplify queue is empty.
AddBothToQueue(src, dst) ==
    LET ready == { r \in {src, dst} : Pushable(r) }
    IN  /\ simplify_queue' = IF src = dst THEN Push(src) ELSE Push(src) \o Push(dst)
        /\ freeze_queue' = freeze_queue \ ready
        /\ state' = [r \in Regs(prog) |-> IF r \in ready THEN "to_simplify" ELSE state[r]]
-----------------------------------------------------------------------------
Simplify ==
    /\ pc = "work" /\ simplify_queue # <<>>
    /\ LET reg == Head(simplify_queue)
           st  == [state EXCEPT ![reg] = "simplified"]
           others == adjacent[reg] \ Gone(st)
       IN  /\ q_total' = [r \in Regs(prog) |->
                             IF r \in others THEN (q_total[r] - QR(r, reg)) % UInt
                             ELSE q_total[r]]
           /\ select_stack' = Append(select_stack, reg)
           /\ Requeue(others, q_total', st, moves, adjacent, move_queue, freeze_queue,
                      spill_queue, Tail(simplify_queue), {})
    /\ UNCHANGED <<source, prog, pc, adjacent, detailed, moves, alias, alias_swizzle,
                   allocated, spilled_regs, spill>>
-----------------------------------------------------------------------------
(* coalesce (644-790)                                                      *)

Interferes(r, c, s, d) == <<<<r, c>>, <<s, d>>>> \in detailed

\* The pairs of components a move identifies, of the registers that its
\* source and its destination are coalesced with.
Mapping(x) == { <<alias_swizzle[x.src][x.swz[c]], alias_swizzle[x.dest][c]>> :
                    c \in x.mask }

\* The smaller register is merged into the larger one, and $0 is never
\* merged into another register (684-695).
Flipped(x) ==
    LET src == alias[x.src]
        dst == alias[x.dest]
    IN  src = Precolored \/ prog.size[src] > prog.size[dst]

From(x) == IF Flipped(x) THEN alias[x.dest] ELSE alias[x.src]
Into(x) == IF Flipped(x) THEN alias[x.src] ELSE alias[x.dest]
Pairs(x) == IF Flipped(x) THEN { <<e[2], e[1]>> : e \in Mapping(x) } ELSE Mapping(x)

\* What forbids identifying the components in `pairs' (697-732).
Incompatible(src, dst, pairs) ==
    \/ prog.beginning[src] /\ ~ prog.beginning[dst] /\ prog.size[dst] # 4
    \/ \E e \in pairs : Interferes(src, e[1], dst, e[2])
    \/ \E e, f \in pairs : e # f /\ (e[1] = f[1] \/ e[2] = f[2])

\* The components of src that are not in a pair go, in order, to the first
\* component of dst that is still unused and does not interfere (734-757);
\* the set is empty when there is none for one of them.
FreeFor(c, src, dst, pairs, rest) ==
    { d \in Comps(dst) :
        /\ ~ \E e \in pairs : e[2] = d
        /\ ~ \E b \in DOMAIN rest : b < c /\ rest[b] = d
        /\ ~ Interferes(src, c, dst, d) }

Swizzles(src, dst, pairs) ==
    LET others == Comps(src) \ {e[1] : e \in pairs}
        Greedy(rest) ==
            \A c \in others :
                LET free == FreeFor(c, src, dst, pairs, rest)
                IN  rest[c] \in free /\ \A d \in free : rest[c] <= d
    IN  { [c \in Comps(src) |-> IF c \in others THEN rest[c]
                                ELSE CHOOSE d \in Comps(dst) : <<c, d>> \in pairs] :
            rest \in { f \in [others -> Component] : Greedy(f) } }

\* Slip: the swizzle of a load is not looked at.
StraightAlways(src, swizzle) == TRUE

\* Loads and stores have no swizzle (759-768).
Straight(src, swizzle) ==
    prog.beginning[src] => \A c \in Comps(src) : swizzle[c] = c

\* The test of Briggs for the <p, q> graph (538-567).
can_coalesce(src, dst) ==
    LET size  == IF prog.size[src] > prog.size[dst] THEN prog.size[src] ELSE prog.size[dst]
        class == IF prog.beginning[src] \/ prog.beginning[dst] THEN size + 3 ELSE size - 1
        high  == { r \in adjacent[src] \cup adjacent[dst] : q_total[r] >= PR(r) }
    IN  Cardinality({ e \in high \X (1..4) : e[2] <= Q(class, Class(e[1])) }) < P(class)

\* The detailed half of add_move_edge (592-603): dst inherits what src
\* interferes with, as far as the loop over dst->size reaches.
InheritedEdges(src, dst, others, swizzle) ==
    { <<<<dst, swizzle[e[1][2]]>>, e[2]>> :
        e \in { f \in detailed : /\ f[1][1] = src /\ f[1][2] \in Comps(src)
                                 /\ f[2][1] \in others /\ f[2][2] \in Comps(dst) } }

\* Slip: the moves of src are lost.
OwnMoves(src, dst) == moves

UnionMoves(src, dst) == [moves EXCEPT ![dst] = @ \cup moves[src]]

\* The edges of add_move_edge: dst gets the neighbours `seen', and those of `new'
\* get dst.
Linked(dst, new, seen) ==
    [r \in Regs(prog) |-> IF r = dst THEN adjacent[r] \cup seen
                          ELSE IF r \in new THEN adjacent[r] \cup {dst}
                          ELSE adjacent[r]]

\* What the edges from r to the registers in `edges' add to q_total[r].
Raise(r, edges) ==
    IF r = Precolored THEN 0
    ELSE SumQ(r, edges) + (IF r \in edges THEN QR(r, r) ELSE 0)

Degrees(src, dst, others, new, seen) ==
    [r \in Regs(prog) |->
        (q_total[r] + Raise(r, IF r = dst THEN seen ELSE IF r \in new THEN {dst} ELSE {})
                    - (IF r \in others THEN QR(r, src) ELSE 0)) % UInt]

\* combine (606-642): src becomes a part of dst.  When dst is a neighbour of
\* src, its own q_total is decremented when only some of the new edges,
\* `seen', have been added to it.
Combine(src, dst, swizzle, queued) ==
    LET st     == [state EXCEPT ![src] = "coalesced"]
        others == adjacent[src] \ Gone(st)
        new    == others \ adjacent[dst]
        half   == InheritedEdges(src, dst, others, swizzle)
        fq     == freeze_queue \ (IF state[src] = "to_freeze" THEN {src} ELSE {})
        sq     == spill_queue \ (IF state[src] = "to_freeze" THEN {} ELSE {src})
    IN  /\ moves' = UnionMoves(src, dst)
        /\ alias' = [r \in Regs(prog) |-> IF alias[r] = src THEN dst ELSE alias[r]]
        /\ alias_swizzle' = [r \in Regs(prog) |->
               IF alias[r] = src
               THEN [c \in Comps(r) |-> swizzle[alias_swizzle[r][c]]]
               ELSE alias_swizzle[r]]
        /\ adjacent' = Linked(dst, new, new)
        /\ q_total' = Degrees(src, dst, others, new, new)
        /\ detailed' = detailed \cup half \cup { <<e[2], e[1]>> : e \in half }
        /\ \E seen \in IF dst \in others
                       THEN { t \in SUBSET new : dst \in new => dst \in t }
                       ELSE {new} :
               Requeue(others, Degrees(src, dst, others, new, seen), st,
                       UnionMoves(src, dst), Linked(dst, new, seen), queued, fq, sq, <<>>,
                       IF q_total'[dst] >= PR(dst) THEN {dst} ELSE {})

Trying == pc = "work" /\ simplify_queue = <<>>

\* A move within one register: it is done.
CoalesceSame ==
    /\ Trying
    /\ \E m \in move_queue :
           LET src == alias[prog.code[m].src] IN
           /\ src = alias[prog.code[m].dest]
           /\ move_queue' = move_queue \ {m}
           /\ UNCHANGED active_moves
           /\ AddBothToQueue(src, src)
    /\ UNCHANGED <<source, prog, pc, graph, spill_queue, select_stack, allocated,
                   spilled_regs, spill>>

\* A move between components that cannot be identified: it is given up.
CoalesceImpossible ==
    /\ Trying
    /\ \E m \in move_queue :
           LET x   == prog.code[m]
               src == From(x)
               dst == Into(x)
           IN  /\ src # dst
               /\ \/ Incompatible(src, dst, Pairs(x))
                  \/ ~ \E swizzle \in Swizzles(src, dst, Pairs(x)) : Straight(src, swizzle)
               /\ move_queue' = move_queue \ {m}
               /\ UNCHANGED active_moves
               /\ AddBothToQueue(src, dst)
    /\ UNCHANGED <<source, prog, pc, graph, spill_queue, select_stack, allocated,
                   spilled_regs, spill>>

\* Slip: such a move is tried again at once.
CoalesceAgain ==
    /\ Trying
    /\ \E m \in move_queue :
           LET x   == prog.code[m]
               src == From(x)
               dst == Into(x)
           IN  /\ src # dst
               /\ ~ Incompatible(src, dst, Pairs(x))
               /\ \E swizzle \in Swizzles(src, dst, Pairs(x)) : Straight(src, swizzle)
               /\ ~ can_coalesce(src, dst)
    /\ UNCHANGED vars

\* A move that may cause spills now: it waits until a neighbour goes.
CoalesceLater ==
    /\ Trying
    /\ \E m \in move_queue :
           LET x   == prog.code[m]
               src == From(x)
               dst == Into(x)
           IN  /\ src # dst
               /\ ~ Incompatible(src, dst, Pairs(x))
               /\ \E swizzle \in Swizzles(src, dst, Pairs(x)) : Straight(src, swizzle)
               /\ ~ can_coalesce(src, dst)
               /\ move_queue' = move_queue \ {m}
               /\ active_moves' = active_moves \cup {m}
    /\ UNCHANGED <<source, prog, pc, state, graph, simplify_queue, freeze_queue,
                   spill_queue, select_stack, allocated, spilled_regs, spill>>

Coalesce ==
    /\ Trying
    /\ \E m \in move_queue :
           LET x   == prog.code[m]
               src == From(x)
               dst == Into(x)
           IN  /\ src # dst
               /\ ~ Incompatible(src, dst, Pairs(x))
               /\ can_coalesce(src, dst)
               /\ \E swizzle \in Swizzles(src, dst, Pairs(x)) :
                      /\ Straight(src, swizzle)
                      /\ Combine(src, dst, swizzle, move_queue \ {m})
    /\ UNCHANGED <<source, prog, pc, select_stack, allocated, spilled_regs, spill>>
-----------------------------------------------------------------------------
(* freeze_moves, freeze and select_spill (792-881)                         *)

\* The register at the other end of move m (805-811).
Other(reg, m) ==
    LET x == prog.code[m]
    IN  IF x.dest = reg THEN alias[x.src] ELSE alias[x.dest]

\* 813-814; there is no test for a precolored register.
Ready(r, live) == ~ move_related(r, live) /\ q_total[r] < PR(r)

\* reg is simplified and its moves are given up, in some order.  The other
\* register of a move is pushed when it was the last one holding it back.
FreezeMoves(reg, fq) ==
    LET frozen == moves[reg] \cap LiveMoves IN
    \E order \in SetToSeqs(frozen) :
        LET left(n)  == LiveMoves \ {order[m] : m \in 1..n}
            other(n) == Other(reg, order[n])
            pushed   == { n \in DOMAIN order : Ready(other(n), left(n)) }
        IN  /\ \E turn \in Ascending(pushed) :
                   simplify_queue' = <<reg>> \o [n \in DOMAIN turn |-> other(turn[n])]
            /\ freeze_queue' = fq \ {other(n) : n \in pushed}
            /\ state' = [r \in Regs(prog) |->
                            IF r = reg \/ \E n \in pushed : other(n) = r
                            THEN "to_simplify" ELSE state[r]]
            /\ move_queue' = move_queue \ frozen
            /\ active_moves' = active_moves \ frozen

Freeze ==
    /\ Trying /\ move_queue = {}
    /\ \E reg \in freeze_queue : FreezeMoves(reg, freeze_queue \ {reg})
    /\ UNCHANGED <<source, prog, pc, graph, spill_queue, select_stack, allocated,
                   spilled_regs, spill>>

\* calc_spill_cost, as the fraction SpillCost / Benefit (times 12 * NumPhys);
\* reg->spilled is FALSE for every register.
SpillCost(r) == Cardinality(Defs(prog, r)) + Cardinality(Uses(prog, r))

Benefit(r) ==
    Cardinality({ e \in adjacent[r] \X (1..12) :
                     e[2] * PerVec4[Class(e[1]) + 1] <= 12 * QR(e[1], r) })

Cheapest ==
    { r \in spill_queue :
        \A s \in spill_queue : SpillCost(r) * Benefit(s) <= SpillCost(s) * Benefit(r) }

SelectSpill ==
    /\ Trying /\ move_queue = {} /\ freeze_queue = {}
    /\ \E reg \in Cheapest :
           /\ FreezeMoves(reg, freeze_queue)
           /\ spill_queue' = spill_queue \ {reg}
    /\ UNCHANGED <<source, prog, pc, graph, select_stack, allocated, spilled_regs, spill>>

QueuesEmpty ==
    /\ Trying /\ move_queue = {} /\ freeze_queue = {} /\ spill_queue = {}
    /\ pc' = "assign"
    /\ UNCHANGED <<source, prog, state, graph, move_queue, active_moves, simplify_queue,
                   freeze_queue, spill_queue, select_stack, allocated,
                   spilled_regs, spill>>
-----------------------------------------------------------------------------
(* assign_colors (883-955)                                                 *)

Span(offset, r) == offset..(offset + prog.size[r] - 1)

\* Slip: the place of a neighbour that was merged since is looked at.
ConflictsStale(reg, place) ==
    \E s \in adjacent[reg] :
        \/ s = Precolored /\ place[1] = 0
        \/ /\ s # Precolored
           /\ state[s] = "colored" /\ allocated[s][1] = place[1]
           /\ Span(allocated[s][2], s) \cap Span(place[2], reg) # {}

Conflicts(reg, place) ==
    \E s \in {alias[r] : r \in adjacent[reg]} :
        \/ s = Precolored /\ place[1] = 0
        \/ /\ s # Precolored
           /\ state[s] = "colored" /\ allocated[s][1] = place[1]
           /\ Span(allocated[s][2], s) \cap Span(place[2], reg) # {}

Places(reg) ==
    (0..(NumPhys - 1)) \X (IF prog.beginning[reg] THEN {0} ELSE 0..(4 - prog.size[reg]))

Before(a, b) == 4 * a[1] + a[2] <= 4 * b[1] + b[2]

AssignColor ==
    /\ pc = "assign" /\ select_stack # <<>>
    /\ LET reg  == Last(select_stack)
           free == { place \in Places(reg) : ~ Conflicts(reg, place) }
       IN  \/ /\ free = {}
              /\ state' = [state EXCEPT ![reg] = "spilled"]
              /\ spilled_regs' = spilled_regs \cup {reg}
              /\ UNCHANGED allocated
           \/ \E place \in free :
                  /\ \A other \in free : Before(place, other)
                  /\ allocated' = [allocated EXCEPT ![reg] = place]
                  /\ state' = [state EXCEPT ![reg] = "colored"]
                  /\ UNCHANGED spilled_regs
    /\ select_stack' = Front(select_stack)
    /\ UNCHANGED <<source, prog, pc, graph, move_queue, active_moves, simplify_queue,
                   freeze_queue, spill_queue, spill>>

\* The round ends: with an allocation, or with registers to spill before
\* the next round.
Return ==
    /\ pc = "assign" /\ select_stack = <<>>
    /\ pc' = IF spilled_regs = {} THEN "done" ELSE "spill"
    /\ UNCHANGED <<source, prog, state, graph, move_queue, active_moves, simplify_queue,
                   freeze_queue, spill_queue, select_stack, allocated,
                   spilled_regs, spill>>

\* spill_reg is called for the registers one after another, in some order; a
\* failed assertion ends the program.
SpillReg ==
    /\ pc = "spill" /\ prog.temps < MaxTemps
    /\ \E reg \in spilled_regs :
           IF LosesUse(prog, reg)
           THEN pc' = "failed" /\ UNCHANGED <<prog, spilled_regs, spill>>
           ELSE /\ pc' = "rewrite"
                /\ spilling' = reg /\ at' = 1
                /\ spilled_regs' = spilled_regs \ {reg}
                /\ prog' = [ size |-> prog.size, beginning |-> prog.beginning,
                             reg_alloc |-> prog.reg_alloc, temps |-> prog.temps + 1,
                             code |-> prog.code ]
    /\ UNCHANGED <<source, state, graph, move_queue, active_moves, simplify_queue,
                   freeze_queue, spill_queue, select_stack, allocated>>

\* spill_sched_instr on one instruction: a register of its own takes the place
\* of the spilled one where it is computed.
SpillInstr ==
    /\ pc = "rewrite" /\ at \in DOMAIN prog.code
    /\ LET x   == prog.code[at]
           new == NextReg(prog)
           all == Spilled(prog, x, spilling, new, Temp(prog.temps))
           q   == IF x.dest = spilling THEN AppendReg(prog, new) ELSE prog
       IN  /\ prog' = WithCode(q, Replaced(prog.code, at, all))
           /\ at' = at + Len(all)
    /\ UNCHANGED <<source, pc, state, graph, move_queue, active_moves, simplify_queue,
                   freeze_queue, spill_queue, select_stack, allocated, spilled_regs,
                   spilling>>

\* The register is deleted; behind the last, the next round starts.
SpillDone ==
    /\ pc = "rewrite" /\ at \notin DOMAIN prog.code
    /\ prog' = DeleteReg(prog, spilling)
    /\ pc' = IF spilled_regs = {} THEN "start" ELSE "spill"
    /\ spilling' = NoReg /\ at' = 0
    /\ UNCHANGED <<source, state, graph, move_queue, active_moves, simplify_queue,
                   freeze_queue, spill_queue, select_stack, allocated, spilled_regs>>

Next == \/ StartRound
        \/ Simplify
        \/ CoalesceSame \/ CoalesceImpossible \/ CoalesceLater \/ Coalesce
        \/ Freeze \/ SelectSpill \/ QueuesEmpty
        \/ AssignColor \/ Return
        \/ SpillReg \/ SpillInstr \/ SpillDone

\* The allocator is one sequential function: it keeps running.
Spec == Init /\ [][Next]_vars /\ WF_vars(Next)
-----------------------------------------------------------------------------
(* No register is lost between the queues: each waits in the queue its     *)
(* state names or is on the select stack, a register in the spill queue is *)
(* one that the <p, q> test does not clear, and a register that was        *)
(* coalesced or is precolored is in none (418-452, 454-476, 503-512,       *)
(* 606-642, 792-881).                                                      *)
QueuesMatch ==
    pc = "work" =>
        /\ freeze_queue = { r \in Regs(prog) : state[r] = "to_freeze" }
        /\ spill_queue = { r \in Regs(prog) : state[r] = "to_spill" }
        /\ \A r \in spill_queue : q_total[r] >= PR(r)
        /\ \A r \in VirtualRegs(prog) :
               \/ r \in freeze_queue \cup spill_queue \cup ToSet(simplify_queue)
               \/ r \in ToSet(select_stack)
               \/ alias[r] # r
        /\ \A r \in ToSet(simplify_queue) \cup ToSet(select_stack) :
               /\ r # Precolored
               /\ state[r] \in {"to_simplify", "simplified"} /\ alias[r] = r

(* "This value should never drop below 6" (54), the p of $0: it would be   *)
(* pushed on the select stack.  It starts out large enough for every       *)
(* virtual register to be simplified once; but freeze_moves pushes a       *)
(* register a second time for a move of a register coalesced into it, and  *)
(* then the degrees of its neighbours drop twice.                          *)
PrecoloredStays == pc = "work" => q_total[Precolored] >= PR(Precolored)

(* A move that is still to be tried is known to both registers it could    *)
(* merge, and neither has left the queues for the stack: a coalescing can  *)
(* not change the degree of a register that was already simplified         *)
(* (coalesce, enable_moves, freeze_moves).                                 *)
LiveMovesLive ==
    pc = "work" => \A m \in LiveMoves :
        \A r \in {alias[prog.code[m].src], alias[prog.code[m].dest]} :
            m \in moves[r] /\ state[r] \in {"initial", "to_freeze", "to_spill"}

\* Where rewrite_regs (1038-1068) puts a component: physical register and
\* component of it.
Place(r, c) ==
    LET a == alias[r]
        d == alias_swizzle[r][c]
    IN  IF a = Precolored THEN <<0, d>> ELSE <<allocated[a][1], allocated[a][2] + d>>

(* Registers that interfere and were not merged are in different places of *)
(* the register file: no component of the one is a component of the other  *)
(* (get_alias, add_move_edge, assign_colors).                              *)
NeighboursApart ==
    pc = "done" =>
        \A r \in Regs(prog) :
            /\ \A c \in Comps(r) : Place(r, c) \in (0..(NumPhys - 1)) \X Component
            /\ \A s \in CoarseMatrix(prog, DetailedMatrix(prog))[r] : alias[r] # alias[s] =>
                    \A c \in Comps(r), d \in Comps(s) : Place(r, c) # Place(s, d)

\* is_dead_move, of the rewritten program (1070-1115).
DeadMove(x) == x.move /\ \A c \in x.mask : Place(x.src, x.swz[c]) = Place(x.dest, c)
remove_dead_moves(p) == [p EXCEPT !.code = SelectSeq(@, LAMBDA x : ~ DeadMove(x))]

\* The meaning of a program whose register components are kept in the cells
\* Home: what each cell, and each temporary, holds behind the n-th instruction,
\* where a value is named by the instruction (and component) that computed it.
Meaning(p, Home(_, _)) ==
    LET cells == { Home(r, c) : r \in Regs(p), c \in Component }
                     \cup ({ Temp(n) : n \in 1..p.temps } \X Component)
        run[n \in 0..Len(p.code)] ==
            IF n = 0 THEN [cell \in cells |-> <<>>]
            ELSE LET x == p.code[n]
                     Value(c) ==
                         IF x.src = NoReg THEN <<x.id, c>>
                         ELSE run[n - 1][IF x.src = Pipeline THEN <<x.load, x.swz[c]>>
                                         ELSE Home(x.src, x.swz[c])]
                 IN  [cell \in cells |->
                         IF cell[1] = x.store /\ x.store # NoReg THEN Value(cell[2])
                         ELSE IF \E c \in x.mask : Home(x.dest, c) = cell
                         THEN Value(CHOOSE c \in x.mask : Home(x.dest, c) = cell)
                         ELSE run[n - 1][cell]]
    IN  run

VirtualCell(r, c) == <<r, c>>
PlaceCell(r, c) == IF c \in Comps(r) THEN Place(r, c) ELSE <<0, 0>>

\* Where instruction x finds what it read from component c of r as it came in.
Found(x, r, c) ==
    IF x.via[r] = Pipeline THEN <<x.load, c>> ELSE Place(x.via[r], c)

(* Allocation and spilling do not change what the program computes: in the *)
(* places assigned at last, and in the temporaries, every instruction      *)
(* finds the values it read from the virtual registers of the program that *)
(* came in, and what it puts in $0 is the same.  ("We've found a valid     *)
(* swizzle, so we can replace src by dst", 770.)                           *)
AllocationPreserves ==
    pc = "done" =>
        \E q \in {remove_dead_moves(prog)} :
        \E virtual \in {Meaning(source, VirtualCell)}, placed \in {Meaning(q, PlaceCell)} :
            /\ \A n \in { m \in DOMAIN q.code : q.code[m].id # 0 } :
                   LET was == source.code[q.code[n].id] IN
                   ~ was.move => \A e \in was.reads :
                       virtual[q.code[n].id - 1][e] = placed[n - 1][Found(q.code[n], e[1], e[2])]
            /\ \A c \in Component :
                   LET result == virtual[Len(source.code)][<<Precolored, c>>]
                   IN  result # <<>> => placed[Len(q.code)][<<0, c>>] = result

(* "Whether this register has to be allocated at the beginning of an       *)
(* allocated register" (pp_lir.h:69): each component of such a register    *)
(* is placed in the same component of a physical register.                 *)
BeginningHonoured ==
    pc = "done" =>
        \A r \in Regs(prog) : prog.beginning[r] => \A c \in Comps(r) : Place(r, c)[2] = c

(* The allocator ends: coalescing only removes registers, a move that      *)
(* waits is tried again only after a register has left the graph, and what *)
(* spilling makes room for is allocated in a later round.                  *)
Terminates == <>(pc \in {"done", "failed"} \/ (pc = "spill" /\ prog.temps >= MaxTemps))
=============================================================================
