------------------------------ MODULE GpClean -------------------------------
(***************************************************************************)
(* The state the passes over the geometry-processor IR share - the         *)
(* program, the pass under way and what that pass keeps in local variables *)
(* - and the passes that clean up programs in SSA form: dead-code          *)
(* elimination (gp_ir/dce.c), register elimination (gp_ir/reg_eliminate.c),*)
(* which lets the uses of a register in its own block take the value       *)
(* directly, and if-conversion (gp_ir/if_conversion.c).  The modules that  *)
(* extend this one each give the steps of other passes, and GpPasses runs  *)
(* them in turn, the order of gp_ir/ir.c.                                  *)
(***************************************************************************)
EXTENDS GpIr

CONSTANTS Programs, NumPhys     \* NumPhys: physical vec4 registers; the GPU has 16

VARIABLES
    prog,       \* the program
    pass,       \* the pass, or the part of one, under way
    work,       \* its local variables
    meaning     \* what the program computed when it came in

vars == <<prog, pass, work, meaning>>

Idle == <<>>

At(name) == pass = name /\ UNCHANGED meaning

\* Renumbering, the end of every cleanup_regs, is implied: a register's index
\* is its place in the list.
IndexOf(p, r) == Position(p.regs, r)
-----------------------------------------------------------------------------
HasEffect(x) == x.op \in {"store_temp", "store_varying", "branch_cond", "branch_uncond"}

TotalNodes(p) == Cardinality(Roots(p)) + Cardinality(Phis(p))

\* The only definition of a register.
Def(p, r) == CHOOSE n \in Defs(p, r) : TRUE

\* Registers read by a node, in the order process_node and process_phi meet them.
RECURSIVE RegsRead(_, _)
RegsRead(p, n) ==
    LET x == p.node[n] IN
    CASE x.op = "load_reg" -> <<x.reg>>
      [] x.op = "phi" -> [i \in DOMAIN x.srcs |-> x.srcs[i].reg]
      [] OTHER -> FlattenSeq([i \in DOMAIN x.kids |->
                      IF x.kids[i] = Nil THEN <<>> ELSE RegsRead(p, x.kids[i])])

\* add_reg_to_queue: a definition comes to life once.
Revive(p, w, r) ==
    LET def == Def(p, r)
    IN  IF def \in w.alive THEN w
        ELSE [alive |-> w.alive \cup {def}, queue |-> Append(w.queue, def)]

StartDce ==
    /\ At("dce")
    /\ LET roots == FlattenSeq([i \in DOMAIN prog.blocks |-> prog.roots[prog.blocks[i]]])
           queue == SelectSeq(roots, LAMBDA n : HasEffect(prog.node[n]))
       IN  work' = [alive |-> ToSet(queue), queue |-> queue]
    /\ pass' = "dce_mark"
    /\ UNCHANGED prog

DceMark ==
    /\ At("dce_mark") /\ work.queue # <<>>
    /\ work' = FoldLeft(LAMBDA w, r : Revive(prog, w, r), [work EXCEPT !.queue = Tail(@)],
                        RegsRead(prog, Head(work.queue)))
    /\ UNCHANGED <<prog, pass>>

delete_dead_nodes(p, alive) ==
    LET q == FoldLeft(LAMBDA q, b : FoldSet(LAMBDA n, r : block_remove_phi(r, b, n), q, q.phis[b] \ alive),
                      p, p.blocks)
    IN  FoldSet(LAMBDA n, r : block_remove(r, n), q, Roots(q) \ alive)

DceSweep ==
    /\ At("dce_mark") /\ work.queue = <<>>
    /\ LET q == delete_dead_nodes(prog, work.alive)
       IN  prog' = DeleteRegs(q, {r \in RegSet(q) : Defs(q, r) = {} /\ Uses(q, r) = {}})
    /\ work' = Idle
    /\ pass' = "reg_eliminate"
-----------------------------------------------------------------------------
\* A temporary read among the nodes evaluated together with def.
RECURSIVE has_temp_read(_, _)
has_temp_read(p, def) ==
    \/ p.node[def].op = "load_temp"
    \/ \E c \in Kids(p, def) : p.node[c].succ = p.node[def].succ /\ has_temp_read(p, c)

\* Moving def down to use must not take a temporary read past a store.
can_move(p, def, use) ==
    LET s == p.roots[BlockOf(p, p.node[def].succ)]
        Between == Position(s, p.node[def].succ)..(Position(s, p.node[use].succ) - 1)
    IN  has_temp_read(p, def) => \A i \in Between : p.node[s[i]].op # "store_temp"

\* A use of reg in the block of its definition store takes the value itself.
EliminateUse(p, store, use) ==
    LET value == p.node[store].kids[p.node[use].idx + 1]
    IN  IF /\ p.node[use].op = "load_reg"
           /\ BlockOf(p, p.node[use].succ) = BlockOf(p, store)
           /\ can_move(p, value, use)
        THEN node_replace(p, use, value) ELSE p

\* eliminate_reg; the uses are a set by address.
EliminateReg(p, r) ==
    LET def == Def(p, r)
        q == FoldSet(LAMBDA use, q : EliminateUse(q, def, use), p, Uses(p, r))
    IN  CASE p.node[def].op = "phi" -> p
          [] p.node[def].op # "phi" /\ Uses(q, r) = {} -> reg_delete(block_remove(q, def), r)
          [] OTHER -> q

StartRegEliminate ==
    /\ At("reg_eliminate")
    /\ work' = prog.regs
    /\ pass' = "reg_eliminate_each"
    /\ UNCHANGED prog

RegEliminate ==
    /\ At("reg_eliminate_each") /\ work # <<>>
    /\ prog' = EliminateReg(prog, Head(work))
    /\ work' = Tail(work)
    /\ UNCHANGED pass

EndRegEliminate ==
    /\ At("reg_eliminate_each") /\ work = <<>>
    /\ work' = Idle
    /\ pass' = "phi_copies"
    /\ UNCHANGED prog

Clean == StartDce \/ DceMark \/ DceSweep \/ StartRegEliminate \/ RegEliminate \/ EndRegEliminate
-----------------------------------------------------------------------------
(* If-conversion: the blocks of an if without side effects are merged into *)
(* the block in front of it, and selects take the place of the phi nodes   *)
(* behind it.                                                              *)

NumPreds(p, b) == Len(p.preds[b])

Ends(p, b, op, dest) ==
    LET t == Terminator(p, b) IN t # Nil /\ p.node[t].op = op /\ p.node[t].idx = dest

\* The blocks behind b: the shape is read off the block list.
Behind(p, b, n) == p.blocks[Position(p.blocks, b) + n]
HasBehind(p, b, n) == Position(p.blocks, b) + n <= Len(p.blocks)

is_if(p, entry) ==
    /\ HasBehind(p, entry, 2)
    /\ LET if_block == Behind(p, entry, 1)
           end == Behind(p, entry, 2)
       IN  /\ NumPreds(p, if_block) = 1 /\ NumPreds(p, end) = 2
           /\ Ends(p, entry, "branch_cond", end)
           /\ Terminator(p, if_block) = Nil

is_if_else(p, entry) ==
    /\ HasBehind(p, entry, 3)
    /\ LET if_block == Behind(p, entry, 1)
           else_block == Behind(p, entry, 2)
           end == Behind(p, entry, 3)
       IN  /\ NumPreds(p, if_block) = 1 /\ NumPreds(p, else_block) = 1 /\ NumPreds(p, end) = 2
           /\ Ends(p, entry, "branch_cond", else_block)
           /\ Ends(p, if_block, "branch_uncond", end)
           /\ Terminator(p, else_block) = Nil

has_side_effects(p, b) ==
    \E n \in ToSet(p.roots[b]) : p.node[n].op \in {"store_temp", "store_varying"}

-----------------------------------------------------------------------------
\* The condition goes to a register in front of the branch; the register is
\* the last of p.regs.
create_condition_reg(p, entry) ==
    LET q == reg_create(p, 1)
        condition == p.node[Terminator(p, entry)].kids[1]
    IN  LinkKids(InsertRoot(q, entry, EndPlace(q, entry),
                            Node("store_reg", <<condition, Nil, Nil, Nil>>, p.nextReg, 0)), q.next)

\* One component of a phi node: select(cond, reg1.c, reg2.c) into slot c of store.
AddSelect(p, store, cond, reg1, reg2, c) ==
    LET q == Create(Create(Create(p, Node("load_reg", <<>>, reg1, c)),
                           Node("load_reg", <<>>, reg2, c)),
                    Node("select", <<cond, p.next, p.next + 1>>, Nil, 0))
        select == p.next + 2
    IN  node_link([LinkKids(q, select) EXCEPT !.node[store].kids[c + 1] = select], store, select)

\* The source that does not come from pred1 is taken to come from pred2.
RewritePhi(p, exit, cond, pred1, phi) ==
    LET s == p.node[phi].srcs
        swap == s[1].pred # pred1
        reg1 == IF swap THEN s[2].reg ELSE s[1].reg
        reg2 == IF swap THEN s[1].reg ELSE s[2].reg
        dest == p.node[phi].reg
        q == InsertRoot(p, exit, 1, Node("store_reg", <<Nil, Nil, Nil, Nil>>, dest, 0))
    IN  block_remove_phi(FoldLeft(LAMBDA r, c : AddSelect(r, p.next, cond, reg1, reg2, c),
                                  q, [i \in 1..p.size[dest] |-> i - 1]), exit, phi)

\* cond_reg is true if pred1 was taken.
rewrite_phi_nodes(p, exit, cond_reg, pred1) ==
    LET q == Create(p, Node("load_reg", <<>>, cond_reg, 0))
    IN  FoldSet(LAMBDA phi, r : RewritePhi(r, exit, p.next, pred1, phi), q, q.phis[exit])

\* The branch at the end of block1 goes, the nodes of block2 come, and block2
\* is deleted.  What other blocks say of block2 stays.
merge_blocks(p, block1, block2) ==
    LET t == Terminator(p, block1)
        q == IF t = Nil THEN p ELSE block_remove(p, t)
        Keep(f) == [b \in DOMAIN f \ {block2} |-> f[b]]
    IN  [q EXCEPT !.roots = [Keep(@) EXCEPT ![block1] = @ \o q.roots[block2]],
                  !.phis = Keep(@), !.preds = Keep(@), !.blocks = Remove(@, block2)]

\* Slip: the condition register is true when the if block was taken.
Pred1Swapped(p, entry, has_else) == Behind(p, entry, 1)

\* The branch is taken when the if block is not.
Pred1(p, entry, has_else) == IF has_else THEN Behind(p, entry, 2) ELSE entry

convert_if(p, entry, has_else) ==
    LET exit == Behind(p, entry, IF has_else THEN 3 ELSE 2)
        q == IF p.phis[exit] = {} THEN p
             ELSE rewrite_phi_nodes(create_condition_reg(p, entry), exit, p.nextReg,
                                    Pred1(p, entry, has_else))
        merged == merge_blocks(q, entry, Behind(p, entry, 1))
    IN  merge_blocks(IF has_else THEN merge_blocks(merged, entry, Behind(p, entry, 2)) ELSE merged,
                     entry, exit)

Convertible(p, entry) ==
    /\ is_if(p, entry) \/ is_if_else(p, entry)
    /\ ~has_side_effects(p, Behind(p, entry, 1))
    /\ is_if_else(p, entry) => ~has_side_effects(p, Behind(p, entry, 2))
-----------------------------------------------------------------------------
\* convert_if_pass, from block to block, until a pass changes nothing.
StartIfConversion ==
    /\ At("if_convert")
    /\ work' = [at |-> 1, changed |-> FALSE]
    /\ pass' = "if_convert_pass"
    /\ UNCHANGED prog

ConvertIf ==
    /\ At("if_convert_pass") /\ work.at <= Len(prog.blocks)
    /\ LET entry == prog.blocks[work.at]
       IN  /\ Convertible(prog, entry)
           /\ prog' = convert_if(prog, entry, is_if_else(prog, entry))
    /\ work' = [at |-> work.at + 1, changed |-> TRUE]
    /\ UNCHANGED pass

SkipBlock ==
    /\ At("if_convert_pass") /\ work.at <= Len(prog.blocks)
    /\ ~Convertible(prog, prog.blocks[work.at])
    /\ work' = [work EXCEPT !.at = @ + 1]
    /\ UNCHANGED <<prog, pass>>

EndIfConversion ==
    /\ At("if_convert_pass") /\ work.at > Len(prog.blocks)
    /\ work' = Idle
    /\ pass' = IF work.changed THEN "if_convert" ELSE "dce"
    /\ UNCHANGED prog

IfConvert == StartIfConversion \/ ConvertIf \/ SkipBlock \/ EndIfConversion
=============================================================================
