----------------------------- MODULE GpRegalloc -----------------------------
(***************************************************************************)
(* Liveness and register allocation in the geometry-processor IR.          *)
(*                                                                         *)
(* Liveness, gp_ir/liveness.c, of virtual or of physical registers:        *)
(* backwards from the last block over a ring of num_blocks slots, which    *)
(* starts out full of copies of the last block.                            *)
(*                                                                         *)
(* Allocation, gp_ir/regalloc.c: interference from the liveness of virtual *)
(* registers, graph colouring with the p and q tables for registers of one *)
(* to four components, and the registers that got a place behind the last  *)
(* physical one rewritten to temporaries.                                  *)
(***************************************************************************)
EXTENDS GpClean, FixedQueue

\* Virtual liveness is about registers without a physical one, physical
\* liveness about the others.
Tracked(p, r, virt) == virt = (p.phys[r] = None)

Loads(p, root, virt) ==
    { Loc(p, p.node[n].reg, p.node[n].idx) :
        n \in { m \in DOMAIN p.node : /\ p.node[m].op = "load_reg" /\ p.node[m].succ = root
                                      /\ Tracked(p, p.node[m].reg, virt) } }

Stores(p, root, virt) ==
    LET x == p.node[root] IN
    IF x.op = "store_reg" /\ Tracked(p, x.reg, virt)
    THEN { Loc(p, x.reg, i - 1) : i \in { j \in DOMAIN x.kids : x.kids[j] # Nil } } ELSE {}

\* Slip: the reads first, then the writes.
ReadsThenWrites(p, root, live, virt) ==
    (live \cup Loads(p, root, virt)) \ Stores(p, root, virt)

liveness_compute_node(p, root, live, virt) ==
    (live \ Stores(p, root, virt)) \cup Loads(p, root, virt)

\* What is live behind each root of a block, given what is behind the last.
RECURSIVE BlockAfter(_, _, _, _, _)
BlockAfter(p, s, live, virt, after) ==
    IF s = <<>> THEN [after |-> after, before |-> live]
    ELSE BlockAfter(p, Front(s), liveness_compute_node(p, Last(s), live, virt), virt,
                    (Last(s) :> live) @@ after)

\* Slip: no block is ever found unchanged.
AlwaysChanged(p, w, b) ==
    LET r == BlockAfter(p, p.roots[b], w.after[Last(p.roots[b])], w.virt, w.after)
    IN  [w EXCEPT !.changed = TRUE, !.after = r.after, !.before[b] = r.before]

\* An empty block always counts as changed.
liveness_compute_block(p, w, b) ==
    IF p.roots[b] = <<>> THEN [w EXCEPT !.changed = TRUE]
    ELSE LET r == BlockAfter(p, p.roots[b], w.after[Last(p.roots[b])], w.virt, w.after)
         IN  [w EXCEPT !.changed = r.before # w.before[b], !.after = r.after, !.before[b] = r.before]

\* What is live before b is live at the end of pred, which is queued.
PushPred(p, w, b, pred) ==
    LET q == [w EXCEPT !.queue = fixed_queue_push(@, pred)]
    IN  IF p.roots[pred] = <<>> THEN [q EXCEPT !.before[pred] = @ \cup q.before[b]]
        ELSE [q EXCEPT !.after[Last(p.roots[pred])] = @ \cup q.before[b]]

FullOfLast(p) ==
    FoldLeft(LAMBDA q, b : fixed_queue_push(q, Last(p.blocks)),
             fixed_queue_create(Len(p.blocks), Nil), p.blocks)

StartLiveness(virt, next) ==
    /\ prog' = calc_preds(prog)
    /\ work' = [ queue |-> FullOfLast(prog'), virt |-> virt, changed |-> FALSE,
                 after |-> [n \in Roots(prog) |-> {}], before |-> [b \in BlockSet(prog) |-> {}] ]
    /\ pass' = next

StartVirtLiveness == At("liveness") /\ StartLiveness(TRUE, "liveness_virt")
StartPhysLiveness == At("liveness_again") /\ StartLiveness(FALSE, "liveness_phys")

LivenessBlock ==
    /\ pass \in {"liveness_virt", "liveness_phys"} /\ ~fixed_queue_is_empty(work.queue)
    /\ LET b == fixed_queue_head(work.queue)
           w == liveness_compute_block(prog, [work EXCEPT !.queue = fixed_queue_pop(@)], b)
       IN  work' = IF w.changed THEN FoldLeft(LAMBDA v, q : PushPred(prog, v, b, q), w, prog.preds[b])
                   ELSE w
    /\ UNCHANGED <<prog, pass, meaning>>

EndVirtLiveness ==
    /\ At("liveness_virt") /\ fixed_queue_is_empty(work.queue)
    /\ pass' = "regalloc"
    /\ UNCHANGED <<prog, work>>

EndPhysLiveness ==
    /\ At("liveness_phys") /\ fixed_queue_is_empty(work.queue)
    /\ pass' = "done"
    /\ UNCHANGED <<prog, work>>

Liveness == StartVirtLiveness \/ StartPhysLiveness \/ LivenessBlock \/ EndVirtLiveness \/ EndPhysLiveness
-----------------------------------------------------------------------------
\* Live by definition: some path from the end of b reads the place before
\* anything writes it.  One round over the blocks adds a step to the paths.
Through(p, b, live, virt) ==
    FoldRight(LAMBDA root, l : (l \ Stores(p, root, virt)) \cup Loads(p, root, virt), p.roots[b], live)

LiveReference(p, virt) ==
    LET Out(S, b) == { e[2] : e \in { f \in S : f[1] \in Successors(p, b) } }
        Round(S, unused) == UNION { {b} \X Through(p, b, Out(S, b), virt) : b \in BlockSet(p) }
        before == FoldLeft(Round, {}, p.blocks)
    IN  [b \in BlockSet(p) |-> Out(before, b)]
-----------------------------------------------------------------------------
SizeP(size) == NumPhys * (5 - size)
SizeQ == << <<1, 2, 3, 4>>, <<2, 3, 3, 3>>, <<2, 2, 2, 2>>, <<1, 1, 1, 1>> >>

InterferesAt(p, after, root) == { l[2] : l \in after[root] }

\* A stored register against every other one live behind the store.
calc_int_matrix(p, after) ==
    LET stores == { n \in Roots(p) : p.node[n].op = "store_reg" }
        pairs == UNION { { {p.node[n].reg, r} : r \in InterferesAt(p, after, n) } : n \in stores }
    IN  { e \in pairs : Cardinality(e) = 2 }

Neighbours(w, r) == UNION { e \in w.matrix : r \in e } \ {r}

\* The test of what is allocated looks at reg itself, which never is.
QTotal(p, w, reg) == MapThenSumSet(LAMBDA r : SizeQ[p.size[reg]][p.size[r]], Neighbours(w, reg))
colorable(p, w, reg) == QTotal(p, w, reg) < SizeP(p.size[reg])

\* Spill cost as a fraction: uses and defs over the sum of q / p, scaled by 12.
SpillBenefit(p, w, reg) ==
    MapThenSumSet(LAMBDA r : (12 * SizeQ[p.size[r]][p.size[reg]]) \div (5 - p.size[r]),
                  Neighbours(w, reg))
SpillWeight(p, reg) == Cardinality(Defs(p, reg) \cup Uses(p, reg))
Cheaper(p, w, r, s) ==
    SpillWeight(p, r) * SpillBenefit(p, w, s) < SpillWeight(p, s) * SpillBenefit(p, w, r)

StartRegalloc ==
    /\ At("regalloc")
    /\ work' = [matrix |-> calc_int_matrix(prog, work.after), stack |-> <<>>]
    /\ pass' = "simplify"
    /\ UNCHANGED prog

\* The first colorable register, or else the first of the cheapest to spill.
Pick(p, w) ==
    LET left == SelectSeq(p.regs, LAMBDA r : r \notin ToSet(w.stack))
        easy == SelectSeq(left, LAMBDA r : colorable(p, w, r))
    IN  IF easy # <<>> THEN Head(easy)
        ELSE FoldLeft(LAMBDA m, r : IF Cheaper(p, w, r, m) THEN r ELSE m, Head(left), Tail(left))

Simplify ==
    /\ At("simplify") /\ Len(work.stack) < Len(prog.regs)
    /\ work' = [work EXCEPT !.stack = Append(@, Pick(prog, work))]
    /\ UNCHANGED <<prog, pass>>

EndSimplify ==
    /\ At("simplify") /\ Len(work.stack) = Len(prog.regs)
    /\ pass' = "select"
    /\ UNCHANGED <<prog, work>>
-----------------------------------------------------------------------------
Overlap(k, size, l, other) == k <= l + other - 1 /\ l <= k + size - 1

\* Vec4 register j, which may be past the last one, has reg's components free
\* from component k on.
Free(p, w, reg, j, k) ==
    \A r \in Neighbours(w, reg) :
        p.phys[r] # None /\ p.phys[r][1] = j => ~Overlap(k, p.size[reg], p.phys[r][2], p.size[r])

Places(p, reg) == { <<j, k>> \in (0..Len(p.regs)) \X Component : k <= 4 - p.size[reg] }
FirstPlace(p, w, reg) ==
    CHOOSE x \in Places(p, reg) :
        /\ Free(p, w, reg, x[1], x[2])
        /\ \A y \in Places(p, reg) : Free(p, w, reg, y[1], y[2]) => 4 * x[1] + x[2] <= 4 * y[1] + y[2]

Select ==
    /\ At("select") /\ work.stack # <<>>
    /\ LET reg == Last(work.stack)
       IN  prog' = [prog EXCEPT !.phys[reg] = FirstPlace(prog, work, reg)]
    /\ work' = [work EXCEPT !.stack = Front(@)]
    /\ UNCHANGED pass

EndSelect ==
    /\ At("select") /\ work.stack = <<>>
    /\ pass' = "spill"
    /\ work' = [old_temp_alloc |-> prog.temps, todo |-> prog.regs]
    /\ UNCHANGED prog
-----------------------------------------------------------------------------
\* A load of the register becomes a load of the temporary.
SpillUse(p, use, index, offset) ==
    LET q == Create(p, Node("load_temp", <<>>, Nil, 4 * index + p.node[use].idx + offset))
    IN  node_replace(q, use, p.next)

\* A store becomes a store to the temporary, whose address is a constant: the
\* children move over one by one.
SpillDef(p, def, index, offset) ==
    LET b == BlockOf(p, def)
        store == p.next
        address == store + 1
        q == Create(InsertRoot(p, b, Position(p.roots[b], def),
                               Node("store_temp", <<Nil, Nil, Nil, Nil, address>>, Nil, 0)),
                    Node("const", <<>>, Nil, index))
        MoveKid(r, i) ==
            LET kid == r.node[def].kids[i] IN
            IF kid = Nil THEN r
            ELSE [node_unlink(node_link([r EXCEPT !.node[store].kids[i + offset] = kid], store, kid),
                              def, kid) EXCEPT !.node[def].kids[i] = Nil]
        moved == FoldLeft(MoveKid, q, <<1, 2, 3, 4>>)
    IN  block_remove(node_link(moved, store, address), def)

spill_reg(p, reg, index, offset) ==
    LET loads == FoldSet(LAMBDA n, q : SpillUse(q, n, index, offset), p, Uses(p, reg))
    IN  reg_delete(FoldSet(LAMBDA n, q : SpillDef(q, n, index, offset), loads, Defs(p, reg)), reg)

SpillOffset(p, reg) == p.phys[reg][2]

Spill ==
    /\ At("spill") /\ work.todo # <<>>
    /\ LET reg == Head(work.todo)
           index == prog.phys[reg][1] - NumPhys + work.old_temp_alloc
       IN  prog' = IF prog.phys[reg][1] < NumPhys THEN prog
                   ELSE [spill_reg(prog, reg, index, SpillOffset(prog, reg))
                            EXCEPT !.temps = Max({@, index + 1})]
    /\ work' = [work EXCEPT !.todo = Tail(@)]
    /\ UNCHANGED pass

EndSpill ==
    /\ At("spill") /\ work.todo = <<>>
    /\ pass' = "liveness_again"
    /\ work' = Idle
    /\ UNCHANGED prog

Regalloc == StartRegalloc \/ Simplify \/ EndSimplify \/ Select \/ EndSelect \/ Spill \/ EndSpill
=============================================================================
