----------------------------- MODULE PpHirLower -----------------------------
(***************************************************************************)
(* The last passes over the high-level IR of the pixel processor: splitting*)
(* of critical edges (pp_hir/phi_elim.c), reverse postorder of the blocks  *)
(* (reorder.c, cfg_traverse.c), conversion to conventional SSA form        *)
(* (phi_elim.c), after which the sources and the result of a phi node can  *)
(* share a register, and lowering to the linear IR (lower.c); and the front*)
(* half of the pixel back end as a whole, its passes in the order of       *)
(* compile_pp_shader (shader/shader.cpp).                                  *)
(*                                                                         *)
(* The lowered program is a record of                                      *)
(*   blocks     by place in the list: instrs, succs and preds (places)     *)
(*   regs       the registers: size by name                                *)
(*   beginning  those that have to be at the beginning of their place      *)
(* and an instruction has op, dest (a register, or Nil), mask, outmod,     *)
(* index, srcs, and dest_block, where a branch goes.                       *)
(***************************************************************************)
EXTENDS PpHirXform

CONSTANT Inputs         \* uniforms to compare runs for
-----------------------------------------------------------------------------
\* An empty block, at the end of the list, on the way from b to its i-th successor.
SplitEdge(p, b, i) ==
    LET new == p.nextBlock
        dest == p.block[b].next[i]
        j == SelectInSeq(p.block[dest].preds, LAMBDA d : d = b)
        block == [ preds |-> <<b>>, cond |-> "always", next |-> <<dest>>, args |-> <<>>, output |-> Nil ]
    IN  [p EXCEPT !.blocks = Append(@, new), !.cmds = (new :> <<>>) @@ @,
                  !.block = (new :> block) @@ [@ EXCEPT ![dest].preds[j] = new, ![b].next[i] = new],
                  !.nextBlock = @ + 1]

Critical(p, b, i) == Conditional(p, b) /\ Len(p.block[p.block[b].next[i]].preds) >= 2

split_crit_edges(p) ==
    LET Split(q, e) == IF Critical(q, e[1], e[2]) THEN SplitEdge(q, e[1], e[2]) ELSE q
    IN  FoldLeft(Split, p, FlattenSeq([k \in DOMAIN p.blocks |-> <<<<p.blocks[k], 1>>, <<p.blocks[k], 2>>>>]))

SplitCritEdges ==
    /\ At("split")
    /\ prog' = split_crit_edges(prog)
    /\ pass' = "reorder"
    /\ UNCHANGED work
-----------------------------------------------------------------------------
\* lima_pp_hir_cfg_traverse: the blocks reached from b, in postorder, behind
\* those visited before.
RECURSIVE Traverse(_, _, _)
Traverse(p, visited, b) ==
    LET Visit(s, d) == IF d \in s.visited THEN s ELSE Traverse(p, s, d)
        s == FoldLeft(Visit, [visited EXCEPT !.visited = @ \cup {b}], Children(p, b))
    IN  [s EXCEPT !.order = Append(@, b)]

Postorder(p) == Traverse(p, [visited |-> {}, order |-> <<>>], Head(p.blocks)).order

prog_reorder(p) ==
    LET order == Reverse(Postorder(p))
        dead == SelectSeq(p.blocks, LAMBDA b : b \notin ToSet(order))
    IN  [FoldLeft(block_delete, p, dead) EXCEPT !.blocks = order]

Reorder ==
    /\ At("reorder")
    /\ prog' = prog_reorder(prog)
    /\ pass' = "cssa"
    /\ work' = prog'.blocks
-----------------------------------------------------------------------------
\* A copy of the i-th source at the end of the predecessor it comes from; the
\* swizzle stays with the phi node.
CopySource(p, b, phi, i) ==
    LET old == p.cmd[phi].srcs[i].dep
        q == block_insert(p, p.block[b].preds[i], Len(p.cmds[p.block[b].preds[i]]) + 1,
                          Cmd("mov", p.cmd[phi].size, <<Source(old)>>))
    IN  IF old = Nil THEN p
        ELSE [q EXCEPT !.cmd[old].cmd_uses = @ \ {phi}, !.cmd[phi].srcs[i].dep = p.next,
                       !.cmd[p.next].cmd_uses = @ \cup {phi}]

\* A copy of the result, behind the phi nodes and the copies made so far, which
\* everyone else reads.
CopyResult(p, b, phi, place) ==
    LET new == [p EXCEPT !.cmd = (p.next :> Cmd("mov", p.cmd[phi].size, <<Source(phi)>>)) @@ @]
        q == replace_uses(new, phi, p.next)
    IN  block_insert(q, b, place, q.cmd[p.next])

\* Slip: the result of a phi node is read under its own name.
IsolateSources(p, b, phi, place) ==
    FoldLeft(LAMBDA q, i : CopySource(q, b, phi, i), p, [i \in DOMAIN p.cmd[phi].srcs |-> i])

Isolate(p, b, phi, place) ==
    CopyResult(FoldLeft(LAMBDA q, i : CopySource(q, b, phi, i), p,
                        [i \in DOMAIN p.cmd[phi].srcs |-> i]), b, phi, place)

\* The phi nodes come first in their block.
IsolatePhis(p, b) ==
    LET phis == SelectSeq(p.cmds[b], LAMBDA c : Op(p, c) = "phi")
        n == Len(phis)
    IN  FoldLeft(LAMBDA q, i : Isolate(q, b, phis[i], n + i), p, [i \in 1..n |-> i])

ConvertToCssa ==
    /\ At("cssa") /\ work # <<>>
    /\ prog' = IsolatePhis(prog, Head(work))
    /\ work' = Tail(work)
    /\ UNCHANGED pass

EndCssa ==
    /\ At("cssa") /\ work = <<>>
    /\ pass' = "lower"
    /\ UNCHANGED <<prog, work>>

Cfg == SplitCritEdges \/ Reorder \/ ConvertToCssa \/ EndCssa
-----------------------------------------------------------------------------
OutputReg == -1         \* $0, the first of the precolored registers

\* block_get_index, from 1
Place(p, b) == SelectInSeq(p.blocks, LAMBDA d : d = b)

Instr(op, dest, mask, srcs) ==
    [ op |-> op, dest |-> dest, mask |-> mask, outmod |-> "none", index |-> 0, srcs |-> srcs,
      dest_block |-> 0 ]

convert_instr(p, c) ==
    LET x == p.cmd[c]
        instr == IF HasDest(x.op) THEN Instr(x.op, c, 1..x.size, x.srcs)
                 ELSE Instr(x.op, Nil, {}, x.srcs)
    IN  [instr EXCEPT !.outmod = x.outmod, !.index = x.index]

\* One move for each source that still has a place, its swizzle shifted there.
convert_combine(p, c) ==
    LET x == p.cmd[c]
        Size(i) == p.cmd[x.srcs[i].dep].size
        Pos(i) == FoldLeft(LAMBDA sum, k : sum + Size(k), 0, [k \in 1..(i - 1) |-> k])
        Shifted(i) == [k \in 1..4 |-> IF k - Pos(i) \in 1..Size(i) THEN x.srcs[i].swz[k - Pos(i)]
                                      ELSE x.srcs[i].swz[1]]
        Move(i) == [Instr("mov", c, (Pos(i) + 1)..Min({Pos(i) + Size(i), x.size}),
                          <<[x.srcs[i] EXCEPT !.swz = Shifted(i)]>>) EXCEPT !.outmod = x.outmod]
    IN  [i \in 1..Cardinality({ k \in DOMAIN x.srcs : Pos(k) < x.size }) |-> Move(i)]

Negated(cond) ==
    CASE cond = "gt" -> "le" [] cond = "eq" -> "ne" [] cond = "ge" -> "lt"
      [] cond = "lt" -> "ge" [] cond = "ne" -> "eq" [] cond = "le" -> "gt"

Branch(cond, args, place) ==
    [Instr(cond, Nil, {}, [i \in DOMAIN args |-> [args[i] EXCEPT !.swz = Identity]])
        EXCEPT !.dest_block = place]

\* A block runs on into the next one of the list where it can.
convert_branch(p, b) ==
    LET x == p.block[b]
        To(i) == Place(p, x.next[i])
        Next(i) == To(i) = Place(p, b) + 1
    IN  CASE x.cond = "end" -> <<>>
          [] x.cond = "always" -> IF Next(1) THEN <<>> ELSE <<Branch("always", <<>>, To(1))>>
          [] OTHER ->
                (IF Next(1) THEN <<Branch(Negated(x.cond), x.args, To(2))>>
                 ELSE <<Branch(x.cond, x.args, To(1))>>)
                \o (IF Next(2) THEN <<>> ELSE <<Branch("always", <<>>, To(2))>>)

\* The result, all zero after a discard.
OutputInstr(p, b) ==
    LET out == p.block[b].output IN
    Instr("mov", OutputReg, 1..4,
          <<IF out = Nil THEN [Source(Nil) EXCEPT !.constant = <<0, 0, 0, 0>>] ELSE Source(out)>>)

ConvertCmd(p, c) ==
    CASE Op(p, c) = "phi" -> <<>>
      [] Op(p, c) = "combine" -> convert_combine(p, c)
      [] OTHER -> <<convert_instr(p, c)>>

convert_block(p, b) ==
    LET cmds == FlattenSeq([i \in DOMAIN p.cmds[b] |-> ConvertCmd(p, p.cmds[b][i])])
        x == p.block[b]
    IN  [ instrs |-> cmds \o (IF x.cond = "end" THEN <<OutputInstr(p, b)>> ELSE convert_branch(p, b)),
          succs |-> [i \in DOMAIN Children(p, b) |-> Place(p, Children(p, b)[i])],
          preds |-> [i \in DOMAIN x.preds |-> Place(p, x.preds[i])],
          discard |-> x.cond = "end" /\ x.output = Nil ]

\* Operations with a case in lima_pp_lir_instr_to_sched_instr; it fails on others.
Schedulable ==
    { "mov", "add", "fract", "ceil", "sum3", "sum4", "mul", "not", "gt", "ge", "eq", "ne", "min", "max",
      "rcp", "sin_lut", "cos_lut", "exp2", "log2", "sqrt", "rsqrt", "atan_pt1", "atan2_pt1", "atan_pt2",
      "loadu_2", "loadu_4", "loadt_2", "storet_2",
      "always", "lt", "le" }

Instrs(q) == UNION { ToSet(q.blocks[k].instrs) : k \in DOMAIN q.blocks }

\* replace_register
Renamed(instr, old, new) ==
    [instr EXCEPT !.dest = IF @ = old THEN new ELSE @,
                  !.srcs = [i \in DOMAIN @ |-> IF ~IsConstant(@[i]) /\ @[i].dep = old
                                               THEN [@[i] EXCEPT !.dep = new] ELSE @[i]]]
replace_register(q, old, new) ==
    [q EXCEPT !.blocks = [k \in DOMAIN q.blocks |-> [q.blocks[k] EXCEPT
                            !.instrs = [n \in DOMAIN @ |-> Renamed(@[n], old, new)]]],
              !.regs = [r \in DOMAIN @ \ {old} |-> q.regs[r]]]

\* The sources of a phi node take the register of its result.
replace_phi_nodes(p, q) ==
    LET phis == SelectSeq(AllCmds(p), LAMBDA c : Op(p, c) = "phi")
        Merge(r, phi) == FoldSet(LAMBDA old, s : replace_register(s, old, phi), r, Deps(p, phi))
    IN  FoldLeft(Merge, q, phis)

check_beginning(q) ==
    [q EXCEPT !.beginning =
        { r \in DOMAIN q.regs : \E x \in Instrs(q) :
            \/ IsStore(x.op) /\ \E s \in ToSet(x.srcs) : ~IsConstant(s) /\ s.dep = r
            \/ x.dest = r /\ DestBeginning(x.op) }]

lir_convert(p) ==
    LET regs == [c \in { d \in Cmds(p) : HasDest(Op(p, d)) } |-> p.cmd[c].size]
        blocks == [k \in DOMAIN p.blocks |-> convert_block(p, p.blocks[k])]
    IN  check_beginning(replace_phi_nodes(p, [blocks |-> blocks, regs |-> regs, beginning |-> {}]))

Lower ==
    /\ pass = "lower"
    /\ lir' = lir_convert(prog)
    /\ pass' = "done"
    /\ UNCHANGED <<prog, work, meaning>>
-----------------------------------------------------------------------------
(* What the lowered program computes: registers keep their values, however *)
(* they were merged.                                                       *)

ReadReg(st, s, k) ==
    LET at == <<s.dep, s.swz[k]>> IN
    Modified(s, IF IsConstant(s) THEN s.constant[s.swz[k]]
                ELSE IF at \in DOMAIN st.reg THEN st.reg[at] ELSE Undefined)

Written(st, x) ==
    LET srcs == [i \in DOMAIN x.srcs |-> [k \in 1..4 |-> ReadReg(st, x.srcs[i], k)]]
        Result(k) == IF IsLoad(x.op) THEN Recall(st.mem, <<x.op = "loadt_2", x.index + k>>)
                     ELSE Compute(x.op, srcs, k)
    IN  [e \in {x.dest} \X x.mask |-> Rounded(x.outmod, Result(e[2]))]

\* A branch that is taken skips the rest of its block.
Step(st, x) ==
    CASE x.dest_block # 0 ->
            IF x.op = "always" \/ Compare(x.op, ReadReg(st, x.srcs[1], 1), ReadReg(st, x.srcs[2], 1))
            THEN [st EXCEPT !.goto = x.dest_block] ELSE st
      [] x.dest_block = 0 /\ IsStore(x.op) ->
            [st EXCEPT !.mem = (<<TRUE, x.index + 1>> :> ReadReg(st, x.srcs[1], 1)
                                  @@ <<TRUE, x.index + 2>> :> ReadReg(st, x.srcs[1], 2)) @@ @]
      [] OTHER -> [st EXCEPT !.reg = Written(st, x) @@ @]

RECURSIVE RunLir(_, _, _, _)
RunLir(q, st, k, fuel) ==
    LET s == FoldLeft(LAMBDA t, x : IF t.goto # 0 THEN t ELSE Step(t, x), [st EXCEPT !.goto = 0],
                      q.blocks[k].instrs)
    IN  CASE fuel = 0 -> [mem |-> <<>>, out |-> Endless]
          [] fuel # 0 /\ s.goto # 0 -> RunLir(q, s, s.goto, fuel - 1)
          [] fuel # 0 /\ s.goto = 0 /\ q.blocks[k].discard -> [mem |-> s.mem, out |-> Discarded]
          [] fuel # 0 /\ s.goto = 0 /\ ~q.blocks[k].discard /\ q.blocks[k].succs = <<>> ->
                [mem |-> s.mem, out |-> [c \in 1..4 |-> s.reg[<<OutputReg, c>>]]]
          [] OTHER -> RunLir(q, s, k + 1, fuel - 1)
-----------------------------------------------------------------------------
Init ==
    /\ prog \in Shaders
    /\ pass = "reg_narrow"
    /\ work = <<>> /\ lir = <<>>
    /\ meaning = [u \in Inputs |-> Run(prog, u)]

Next == Clean \/ Xform \/ Cfg \/ Lower

Spec == Init /\ [][Next]_vars
-----------------------------------------------------------------------------
\* Components the program left undefined may become anything.
Agree(was, is) ==
    /\ Len(was) = Len(is)
    /\ \A i \in DOMAIN was : was[i] = Undefined \/ was[i] = is[i]

(* The program computes what the shader computed after every pass, and so  *)
(* does what it is lowered to: no pass lets a modifier, a swizzle or an    *)
(* undefined component through to where it does not belong, and phi nodes  *)
(* whose sources share a register do not lose a value (copy_propagation.c, *)
(* reg_narrow.c, xform.c, phi_elim.c, reorder.c, lower.c); and in the end  *)
(* there is no operation left that cannot be scheduled.                    *)
ShaderMeaning ==
    /\ \A u \in Inputs :
        LET is == IF pass = "done" THEN RunLir(lir, [reg |-> <<>>, mem |-> u, goto |-> 0], 1, Fuel)
                  ELSE Run(prog, u)
        IN  Agree(meaning[u].out, is.out) /\ meaning[u].mem = is.mem
    /\ pass = "done" => \A x \in Instrs(lir) : x.op \in Schedulable
=============================================================================
