------------------------------- MODULE GpSsa --------------------------------
(***************************************************************************)
(* Into SSA form: dominators by the algorithm of Cooper, Harvey and        *)
(* Kennedy (gp_ir/dominance.c), phi nodes in the iterated dominance        *)
(* frontiers and renaming along the dominator tree (gp_ir/to_ssa.c).  The  *)
(* block list has to be in reverse postorder.                              *)
(*                                                                         *)
(* And out of it, gp_ir/phi_elim.c: every phi node gets a fresh register   *)
(* for its result and for each source, copied at the start of its block    *)
(* and at the ends of the predecessors; then the registers of each phi     *)
(* node become one and the phi node goes.                                  *)
(***************************************************************************)
EXTENDS GpClean

\* Slip: the earlier of the two, without walking up.
EarlierBlock(p, idom, block1, block2) ==
    IF Position(p.blocks, block1) < Position(p.blocks, block2) THEN block1 ELSE block2

RECURSIVE intersect(_, _, _, _)
intersect(p, idom, block1, block2) ==
    LET i == Position(p.blocks, block1)
        j == Position(p.blocks, block2)
    IN  CASE i = j -> block1
          [] i > j -> intersect(p, idom, idom[block1], block2)
          [] i < j -> intersect(p, idom, block1, idom[block2])

\* One round over the blocks behind the first.
DominanceRound(p, idom) ==
    FoldLeft(LAMBDA d, b :
                 LET known == SelectSeq(p.preds[b], LAMBDA q : d[q] # Nil)
                 IN  [d EXCEPT ![b] = FoldLeft(LAMBDA x, q : intersect(p, d, x, q),
                                               Head(known), Tail(known))],
             idom, Tail(p.blocks))

\* The blocks from runner up the dominator tree, to stop exclusive.
RECURSIVE Runners(_, _, _)
Runners(idom, runner, stop) ==
    IF runner = stop THEN {} ELSE {runner} \cup Runners(idom, idom[runner], stop)

calc_dominance_frontier(p, idom) ==
    [b \in BlockSet(p) |->
        { d \in BlockSet(p) :
            /\ Len(p.preds[d]) >= 2
            /\ \E q \in ToSet(p.preds[d]) : b \in Runners(idom, q, idom[d]) }]

DomTreeChildren(p, idom, b) == { d \in BlockSet(p) \ {Head(p.blocks)} : idom[d] = b }

StartDominance ==
    /\ At("to_ssa")
    /\ prog' = calc_preds(prog)
    /\ work' = [b \in BlockSet(prog) |-> IF b = Head(prog.blocks) THEN b ELSE Nil]
    /\ pass' = "dominance"

DominanceStep ==
    /\ At("dominance")
    /\ LET idom == DominanceRound(prog, work)
       IN  work' = idom /\ pass' = IF idom # work THEN pass ELSE "frontier"
    /\ UNCHANGED prog

DominanceFrontier ==
    /\ At("frontier")
    /\ work' = [idom |-> work, todo |-> prog.regs, frontier |-> calc_dominance_frontier(prog, work)]
    /\ pass' = "insert_phis"
    /\ UNCHANGED prog
-----------------------------------------------------------------------------
RECURSIVE IteratedFrontier(_, _)
IteratedFrontier(frontier, S) ==
    LET more == S \cup UNION { frontier[b] : b \in S }
    IN  IF more = S THEN S ELSE IteratedFrontier(frontier, more)

InsertPhisOf(p, r, frontier) ==
    LET DefBlocks == { BlockOf(p, n) : n \in Defs(p, r) }
        srcs(b) == [i \in DOMAIN p.preds[b] |-> [reg |-> r, pred |-> p.preds[b][i]]]
    IN  FoldSet(LAMBDA b, q : block_insert_phi(q, b, Phi(r, srcs(b))), p,
                IteratedFrontier(frontier, UNION { frontier[b] : b \in DefBlocks }))

InsertPhis ==
    /\ At("insert_phis")
    /\ IF work.todo # <<>>
       THEN /\ prog' = InsertPhisOf(prog, Head(work.todo), work.frontier)
            /\ work' = [work EXCEPT !.todo = Tail(@)]
            /\ pass' = pass
       ELSE /\ work' = [idom |-> work.idom, path |-> <<>>, todo |-> {Head(prog.blocks)},
                        names |-> [r \in RegSet(prog) |-> <<>>]]
            /\ pass' = "rename"
            /\ UNCHANGED prog
-----------------------------------------------------------------------------
(* Renaming.  A state s has the program s.p and s.names, for each register *)
(* the stack of those that replace it.                                     *)

NewName(s, n) ==
    LET old == s.p.node[n].reg
        q == reg_create(s.p, s.p.size[old])
    IN  [p |-> [q EXCEPT !.node[n].reg = s.p.nextReg],
         names |-> [s.names EXCEPT ![old] = Append(@, s.p.nextReg)]]

\* The loads evaluated for a root, then the register it stores.
RenameRoot(s, root) ==
    LET loads == { n \in DOMAIN s.p.node : s.p.node[n].succ = root /\ s.p.node[n].op = "load_reg" }
        q == [s EXCEPT !.p.node = [n \in loads |-> [s.p.node[n] EXCEPT !.reg = Last(s.names[@])]] @@ @]
    IN  IF s.p.node[root].op = "store_reg" THEN NewName(q, root) ELSE q

update_phi_uses(s, succ, pred) ==
    LET i == CHOOSE k \in DOMAIN s.p.preds[succ] :
                /\ s.p.preds[succ][k] = pred
                /\ \A j \in 1..(k - 1) : s.p.preds[succ][j] # pred
    IN  [s EXCEPT !.p.node =
            [n \in s.p.phis[succ] |-> [s.p.node[n] EXCEPT !.srcs[i].reg = Last(s.names[@])]] @@ @]

\* A branch out of the last block renames nothing.
reg_rename_before(s, b) ==
    LET t == FoldSet(LAMBDA n, q : NewName(q, n), s, s.p.phis[b])
        u == FoldLeft(LAMBDA q, root : RenameRoot(q, root), t, s.p.roots[b])
    IN  IF IsLast(s.p, b) THEN u
        ELSE FoldSet(LAMBDA d, q : update_phi_uses(q, d, b), u, Successors(s.p, b))

\* Slip: the names of the phi nodes stay on their stacks.
KeepPhiNames(s, b) ==
    LET mine == { s.p.node[n].reg : n \in { m \in ToSet(s.p.roots[b]) : s.p.node[m].op = "store_reg" } }
    IN  [s EXCEPT !.names = [r \in DOMAIN @ |-> SelectSeq(@[r], LAMBDA x : x \notin mine)]]

reg_rename_after(s, b) ==
    LET defs == s.p.phis[b] \cup { n \in ToSet(s.p.roots[b]) : s.p.node[n].op = "store_reg" }
        mine == { s.p.node[n].reg : n \in defs }
    IN  [s EXCEPT !.names = [r \in DOMAIN @ |-> SelectSeq(@[r], LAMBDA x : x \notin mine)]]

\* The children of a block in the dominator tree are a set by address.
RenameEnter ==
    /\ At("rename")
    /\ \E b \in work.todo :
          LET s == reg_rename_before([p |-> prog, names |-> work.names], b)
          IN  /\ prog' = s.p
              /\ work' = [work EXCEPT !.names = s.names,
                                      !.path = Append(@, [block |-> b, rest |-> work.todo \ {b}]),
                                      !.todo = DomTreeChildren(prog, work.idom, b)]
    /\ UNCHANGED pass

RenameLeave ==
    /\ At("rename") /\ work.todo = {} /\ work.path # <<>>
    /\ LET s == reg_rename_after([p |-> prog, names |-> work.names], Last(work.path).block)
       IN  work' = [work EXCEPT !.names = s.names, !.path = Front(@), !.todo = Last(work.path).rest]
    /\ UNCHANGED <<prog, pass>>

\* The registers renamed away disappear (cleanup_regs).
RenameEnd ==
    /\ At("rename") /\ work.todo = {} /\ work.path = <<>>
    /\ prog' = DeleteRegs(prog, {r \in RegSet(prog) : Defs(prog, r) = {} /\ Uses(prog, r) = {}})
    /\ work' = Idle
    /\ pass' = "if_convert"

ToSsa == StartDominance \/ DominanceStep \/ DominanceFrontier \/ InsertPhis \/ RenameEnter \/ RenameLeave \/ RenameEnd
-----------------------------------------------------------------------------
\* insert_end
CopyPlace(p, b) == EndPlace(p, b)

\* A copy for source i.  A predecessor that was merged away in the meantime
\* is a block nobody lists any more.
CopySource(p, phi, i) ==
    LET s == p.node[phi].srcs[i]
        q == reg_create(p, p.size[s.reg])
        copied == IF s.pred \in BlockSet(p)
                  THEN create_copy(q, s.pred, CopyPlace(p, s.pred), p.nextReg, s.reg) ELSE q
    IN  [copied EXCEPT !.node[phi].srcs[i].reg = p.nextReg]

phi_node_insert_copies(p, b, phi) ==
    LET dest == p.node[phi].reg
        q == [create_copy(reg_create(p, p.size[dest]), b, 1, dest, p.nextReg)
                EXCEPT !.node[phi].reg = p.nextReg]
    IN  FoldLeft(LAMBDA r, i : CopySource(r, phi, i), q, [i \in DOMAIN q.node[phi].srcs |-> i])

StartPhiCopies ==
    /\ At("phi_copies")
    /\ work' = Phis(prog)
    /\ pass' = "phi_copies_each"
    /\ UNCHANGED prog

\* Block after block; the phi nodes of one are a set by address.
FirstBlockWith(p, phis) ==
    LET i == Min({ j \in DOMAIN p.blocks : p.phis[p.blocks[j]] \cap phis # {} }) IN p.blocks[i]

PhiCopies ==
    /\ At("phi_copies_each") /\ work # {}
    /\ LET b == FirstBlockWith(prog, work)
       IN  \E phi \in prog.phis[b] \cap work :
              /\ prog' = phi_node_insert_copies(prog, b, phi)
              /\ work' = work \ {phi}
    /\ UNCHANGED pass

EndPhiCopies ==
    /\ At("phi_copies_each") /\ work = {}
    /\ work' = Idle
    /\ pass' = "phi_elim"
    /\ UNCHANGED prog
-----------------------------------------------------------------------------
\* Every node that names old names new; in a phi node, one source of it.
replace_reg(p, new, old) ==
    LET First(srcs) == Min({ i \in DOMAIN srcs : srcs[i].reg = old })
        Renamed(x) ==
            IF x.op = "phi" /\ \E i \in DOMAIN x.srcs : x.srcs[i].reg = old
            THEN [x EXCEPT !.srcs[First(x.srcs)].reg = new,
                           !.reg = IF @ = old THEN new ELSE @]
            ELSE [x EXCEPT !.reg = IF x.op \in {"load_reg", "store_reg", "phi"} /\ @ = old
                                   THEN new ELSE @]
    IN  reg_delete([p EXCEPT !.node = [n \in DOMAIN @ |-> Renamed(@[n])]], old)

RECURSIVE eliminate_phi(_, _, _)
eliminate_phi(p, phi, reg) ==
    LET q == FoldLeft(LAMBDA r, i : replace_reg(r, reg, r.node[phi].srcs[i].reg),
                      replace_reg(p, reg, p.node[phi].reg),
                      [i \in DOMAIN p.node[phi].srcs |-> i])
        b == CHOOSE d \in BlockSet(q) : phi \in q.phis[d]
        s == block_remove_phi(q, b, phi)
        others == { n \in Phis(s) : n \in Uses(s, reg) \cup Defs(s, reg) }
    IN  FoldSet(LAMBDA n, r : IF n \in Phis(r) THEN eliminate_phi(r, n, reg) ELSE r, s, others)

EliminatePhi ==
    /\ At("phi_elim") /\ Phis(prog) # {}
    /\ \E phi \in prog.phis[FirstBlockWith(prog, Phis(prog))] :
          prog' = eliminate_phi(reg_create(prog, prog.size[prog.node[phi].reg]), phi, prog.nextReg)
    /\ UNCHANGED <<pass, work>>

EndPhiElim ==
    /\ At("phi_elim") /\ Phis(prog) = {}
    /\ pass' = "liveness"
    /\ UNCHANGED <<prog, work>>

PhiElim == StartPhiCopies \/ PhiCopies \/ EndPhiCopies \/ EliminatePhi \/ EndPhiElim
=============================================================================
