------------------------------ MODULE GpPasses ------------------------------
(***************************************************************************)
(* The middle end of the geometry-processor compiler: if-conversion, dead *)
(* code, register elimination, out of SSA, liveness, register allocation   *)
(* and the liveness of physical registers, in the order of                 *)
(* shader/shader.cpp.  A program from from_glsl.cpp is in SSA form and has *)
(* no predecessors computed when it starts at if-conversion; any other one *)
(* is first converted to SSA form, the order of gp_ir/ir.c.                *)
(***************************************************************************)
EXTENDS GpSsa, GpRegalloc

CONSTANT Inputs         \* uniforms to compare runs for

Init ==
    /\ \E x \in Programs : prog = x.prog /\ pass = x.start
    /\ work = Idle
    /\ meaning = [u \in Inputs |-> Run(prog, u)]

Done == pass = "done" /\ UNCHANGED vars

Next == ToSsa \/ IfConvert \/ Clean \/ PhiElim \/ Liveness \/ Regalloc \/ Done

Spec == Init /\ [][Next]_vars
-----------------------------------------------------------------------------
InSsa == { "dce", "dce_mark", "reg_eliminate", "reg_eliminate_each", "phi_copies" }

\* Passes that change the program.  While registers are renamed, and between
\* two if-conversions, it is in pieces.
Changing == { "insert_phis", "dce", "reg_eliminate", "reg_eliminate_each", "phi_copies_each",
              "phi_elim", "select", "spill", "done" }

\* Reachability, and dominance by what removing a block cuts off.
Reachable(p, without) ==
    LET Grow(S, b) == S \cup (UNION { Successors(p, d) : d \in S } \ without)
    IN  FoldLeft(Grow, {Head(p.blocks)} \ without, p.blocks)

Dominates(p, a, b) == a = b \/ b \notin Reachable(p, {a})

BlockOfNode(p, n) == IF n \in Phis(p) THEN CHOOSE b \in BlockSet(p) : n \in p.phis[b]
                     ELSE BlockOf(p, p.node[n].succ)

\* The definition of r is done when the successor of the load use is reached.
DoneBefore(p, def, use) ==
    LET d == BlockOfNode(p, def)
        u == BlockOfNode(p, use)
    IN  IF d = u /\ def \notin Phis(p) THEN Before(p, def, p.node[use].succ) ELSE Dominates(p, d, u)

\* The shape every pass over SSA form relies on (the comments at the head of
\* dce.c and reg_eliminate.c): one definition per register, above all its
\* uses, and phi nodes with one source for each way into their block.
SsaForm ==
    pass \in InSsa =>
        /\ \A r \in RegSet(prog) : Cardinality(Defs(prog, r)) = 1
        /\ \A r \in RegSet(prog) : \A n \in Uses(prog, r) :
              IF n \in Phis(prog)
              THEN \A s \in ToSet(prog.node[n].srcs) :
                      s.reg = r => Dominates(prog, BlockOfNode(prog, Def(prog, r)), s.pred)
              ELSE DoneBefore(prog, Def(prog, r), n)
        /\ \A b \in BlockSet(prog) : \A n \in prog.phis[b] :
              { s.pred : s \in ToSet(prog.node[n].srcs) } = { d \in BlockSet(prog) : b \in Successors(prog, d) }

\* calc_dominance ends with the immediate dominator of every block: it
\* dominates the block, and every other dominator dominates it.
DominanceExact ==
    pass = "frontier" =>
        \A b \in ToSet(Tail(prog.blocks)) :
            LET above == { d \in BlockSet(prog) \ {b} : Dominates(prog, d, b) }
            IN  work[b] \in above /\ \A d \in above : Dominates(prog, d, work[b])

\* A node is evaluated in front of the first root that reaches it, however
\* the passes have moved, shared and deleted nodes.
GraphExact == LinksExact(prog) /\ SuccessorsExact(prog)

\* No step of a pass changes what the program computes.
MeaningKept ==
    pass \in Changing => \A u \in Inputs : Run(prog, u) = meaning[u]

\* Both liveness analyses find exactly the registers that are read later:
\* nothing less, or two values share a place.
LivenessExact ==
    pass \in {"regalloc", "done"} =>
        LET virt == pass = "regalloc"
            out == LiveReference(prog, virt)
        IN  \A b \in BlockSet(prog) :
                LET ref == BlockAfter(prog, prog.roots[b], out[b], virt, <<>>).after
                IN  \A n \in ToSet(prog.roots[b]) : work.after[n] = ref[n]

\* The work list of the liveness analysis runs dry: a step that does not find
\* a place live before some block, where it was not, leaves the list shorter.
Found(w) == UNION { {b} \X w.before[b] : b \in DOMAIN w.before }

FoundMore == Found(work) \subseteq Found(work') /\ Found(work) # Found(work')

LivenessProgress ==
    [][(pass \in {"liveness_virt", "liveness_phys"} /\ pass' = pass)
         => FoundMore \/ (Found(work) = Found(work')
                           /\ fixed_queue_count(work'.queue) < fixed_queue_count(work.queue))]_vars
=============================================================================
