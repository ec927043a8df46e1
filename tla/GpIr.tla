-------------------------------- MODULE GpIr --------------------------------
(***************************************************************************)
(* Vertex-shader programs in the geometry-processor IR (gp_ir/gp_ir.h):    *)
(* basic blocks of root nodes (stores and branches) over expression nodes  *)
(* that may be shared between roots, with the operations the passes edit   *)
(* them by.                                                                *)
(*                                                                         *)
(* A node is evaluated once, in front of its `successor': the earliest     *)
(* root that reaches it.  Nothing stores that fact anywhere else, so every *)
(* edit has to keep the field right.                                       *)
(*                                                                         *)
(* A program p is a record of                                              *)
(*   blocks  the block list, roots[b] the node list of a block, phis[b]    *)
(*           its phi nodes, preds[b] its predecessors as last computed     *)
(*   node    the nodes: op, kids (the children by slot; Nil: masked out),  *)
(*           reg, idx (component, index, constant or branch destination),  *)
(*           srcs (a phi's sources), and parents and successor             *)
(*   regs    the register list, size and phys (the physical register and   *)
(*           component assigned) of each register                          *)
(*   temps   temp_alloc; next, nextReg: the next fresh names.              *)
(* A register's uses and defs are the load_reg, store_reg and phi nodes    *)
(* that name it: the code keeps them as sets beside the nodes.             *)
(***************************************************************************)
EXTENDS Integers, SequencesExt, FiniteSetsExt

Nil == 0
Component == 0..3
None == <<>>                    \* no physical register yet

Kids(p, n) == ToSet(p.node[n].kids) \ {Nil}
IsBranch(p, n) == p.node[n].op \in {"branch_cond", "branch_uncond"}
RegSet(p) == ToSet(p.regs)
BlockSet(p) == ToSet(p.blocks)
Roots(p) == UNION { ToSet(p.roots[b]) : b \in BlockSet(p) }
Phis(p) == UNION { p.phis[b] : b \in BlockSet(p) }

Defs(p, r) ==
    { n \in DOMAIN p.node : p.node[n].op \in {"store_reg", "phi"} /\ p.node[n].reg = r }
Uses(p, r) ==
    { n \in DOMAIN p.node :
        \/ p.node[n].op = "load_reg" /\ p.node[n].reg = r /\ p.node[n].parents # {}
        \/ p.node[n].op = "phi" /\ \E s \in ToSet(p.node[n].srcs) : s.reg = r }

BlockOf(p, root) == CHOOSE b \in BlockSet(p) : root \in ToSet(p.roots[b])
Position(s, e) == CHOOSE i \in DOMAIN s : s[i] = e

IsLast(p, b) == Last(p.blocks) = b
NextBlock(p, b) == p.blocks[Position(p.blocks, b) + 1]

\* The branch at the end of a block, or Nil.
Terminator(p, b) ==
    IF p.roots[b] # <<>> /\ IsBranch(p, Last(p.roots[b])) THEN Last(p.roots[b]) ELSE Nil

FallsThrough(p, b) ==
    /\ ~IsLast(p, b)
    /\ Terminator(p, b) # Nil => p.node[Terminator(p, b)].op = "branch_cond"

Successors(p, b) ==
    (IF Terminator(p, b) = Nil THEN {} ELSE {p.node[Terminator(p, b)].idx})
        \cup (IF FallsThrough(p, b) THEN {NextBlock(p, b)} ELSE {})

\* Predecessors are listed in block order; a branch to the next block counts twice.
calc_preds(p) ==
    LET Edges(b, d) ==
            (IF Terminator(p, b) # Nil /\ p.node[Terminator(p, b)].idx = d THEN <<b>> ELSE <<>>)
                \o (IF FallsThrough(p, b) /\ NextBlock(p, b) = d THEN <<b>> ELSE <<>>)
    IN  [p EXCEPT !.preds =
            [d \in DOMAIN p.preds |-> FlattenSeq([i \in DOMAIN p.blocks |-> Edges(p.blocks[i], d)])]]
-----------------------------------------------------------------------------
(* Linking and unlinking nodes.                                            *)

\* root_node_order, for roots of one block
Before(p, root1, root2) ==
    LET s == p.roots[BlockOf(p, root1)] IN Position(s, root1) < Position(s, root2)

\* Is succ an earlier place to evaluate n than the one it has?
Earlier(p, n, succ) ==
    \/ p.node[n].succ = Nil
    \/ p.node[n].succ # succ /\ Before(p, succ, p.node[n].succ)

RECURSIVE add_parent_successor(_, _, _)
add_parent_successor(p, n, succ) ==
    FoldLeft(LAMBDA q, c : IF c # Nil /\ Earlier(q, c, succ)
                           THEN add_parent_successor(q, c, succ) ELSE q,
             [p EXCEPT !.node[n].succ = succ], p.node[n].kids)

node_link(p, parent, child) ==
    LET q == [p EXCEPT !.node[child].parents = @ \cup {parent}]
        succ == p.node[parent].succ
    IN  IF succ # Nil /\ Earlier(q, child, succ) THEN add_parent_successor(q, child, succ) ELSE q

\* The earliest root, from the old successor on, that a parent is evaluated for.
NextSuccessor(p, n, succ) ==
    LET Of(m) == p.node[m].succ
        s == p.roots[BlockOf(p, succ)]
    IN  IF Cardinality(p.node[n].parents) = 1
        THEN Of(CHOOSE m \in p.node[n].parents : TRUE)
        ELSE s[Min({ i \in Position(s, succ)..Len(s) : \E m \in p.node[n].parents : Of(m) = s[i] })]

\* Slip: the children keep the successor they lost.
SuccessorHereOnly(p, n, succ) == [p EXCEPT !.node[n].succ = NextSuccessor(p, n, succ)]

RECURSIVE remove_parent_successor(_, _, _)
remove_parent_successor(p, n, succ) ==
    LET q == [p EXCEPT !.node[n].succ = NextSuccessor(p, n, succ)]
    IN  IF q.node[n].succ = succ THEN q
        ELSE FoldLeft(LAMBDA r, c : IF c # Nil /\ r.node[c].succ = succ
                                    THEN remove_parent_successor(r, c, succ) ELSE r,
                      q, p.node[n].kids)

Without(p, n) == [p EXCEPT !.node = [m \in DOMAIN p.node \ {n} |-> p.node[m]]]

RECURSIVE node_unlink(_, _, _)
node_remove(p, n) == FoldSet(LAMBDA c, q : node_unlink(q, n, c), p, Kids(p, n))
node_unlink(p, parent, child) ==
    LET q == [p EXCEPT !.node[child].parents = @ \ {parent}]
    IN  CASE q.node[child].parents = {} -> Without(node_remove(q, child), child)
          [] q.node[child].parents # {} /\ q.node[child].succ = q.node[parent].succ ->
                remove_parent_successor(q, child, q.node[parent].succ)
          [] OTHER -> q

node_replace_child(p, parent, old, new) ==
    LET q == node_unlink(node_link(p, parent, new), parent, old)
    IN  [q EXCEPT !.node[parent].kids = ReplaceAll(@, old, new)]

\* The parents in any order: a set by address.
node_replace(p, old, new) ==
    FoldSet(LAMBDA m, q : node_replace_child(q, m, old, new), p, p.node[old].parents)
-----------------------------------------------------------------------------
(* Creating nodes, registers; inserting and removing.                      *)

Node(op, kids, reg, idx) ==
    [ op |-> op, kids |-> kids, reg |-> reg, idx |-> idx, srcs |-> <<>>,
      parents |-> {}, succ |-> Nil ]
Phi(dest, srcs) == [Node("phi", <<>>, dest, 0) EXCEPT !.srcs = srcs]

\* A new node has the name p.next.
Create(p, node) ==
    [p EXCEPT !.node = (p.next :> node) @@ @, !.next = @ + 1]

\* A new register has the name p.nextReg.
reg_create(p, size) ==
    [p EXCEPT !.regs = Append(@, p.nextReg), !.size = (p.nextReg :> size) @@ @,
              !.phys = (p.nextReg :> None) @@ @, !.nextReg = @ + 1]
reg_delete(p, r) == [p EXCEPT !.regs = Remove(@, r)]

\* A new root at a place of a block; its children are linked afterwards.
InsertRoot(p, b, place, node) ==
    [Create(p, [node EXCEPT !.succ = p.next]) EXCEPT !.roots[b] = InsertAt(@, place, p.next)]

LinkKids(p, n) ==
    FoldLeft(LAMBDA q, c : IF c = Nil THEN q ELSE node_link(q, n, c), p, p.node[n].kids)

block_remove(p, root) ==
    LET b == BlockOf(p, root)
        q == node_remove(p, root)
    IN  [Without(q, root) EXCEPT !.roots[b] = Remove(@, root)]

block_insert_phi(p, b, phi) == [Create(p, phi) EXCEPT !.phis[b] = @ \cup {p.next}]
block_remove_phi(p, b, phi) == [Without(p, phi) EXCEPT !.phis[b] = @ \ {phi}]

\* The place in front of the branch that may end a block (insert_end).
EndPlace(p, b) == IF Terminator(p, b) = Nil THEN Len(p.roots[b]) + 1 ELSE Len(p.roots[b])

\* dst := src, component by component, as a root with fresh loads
create_copy(p, b, place, dst, src) ==
    LET loads == FoldLeft(LAMBDA q, c : Create(q, Node("load_reg", <<>>, src, c)), p,
                          [i \in 1..p.size[src] |-> i - 1])
        kids == [i \in 1..4 |-> IF i <= p.size[src] THEN p.next + i - 1 ELSE Nil]
    IN  LinkKids(InsertRoot(loads, b, place, Node("store_reg", kids, dst, 0)), loads.next)

DeleteRegs(p, unused) == [p EXCEPT !.regs = SelectSeq(@, LAMBDA r : r \notin unused)]
-----------------------------------------------------------------------------
(* The parents and successors every edit has to keep.                      *)

LinksExact(p) ==
    \A n \in DOMAIN p.node :
        /\ \A c \in Kids(p, n) : n \in p.node[c].parents
        /\ \A m \in p.node[n].parents : m \in DOMAIN p.node /\ n \in Kids(p, m)

\* Roots and phi nodes apart, every node has a parent and is evaluated where
\* the first of its parents is.
SuccessorsExact(p) ==
    \A n \in DOMAIN p.node \ (Roots(p) \cup Phis(p)) :
        LET places == { p.node[m].succ : m \in p.node[n].parents }
        IN  p.node[n].succ \in places /\ \A r \in places \ {p.node[n].succ} : Before(p, p.node[n].succ, r)
-----------------------------------------------------------------------------
(* What a program computes: the varyings it stores, for given uniforms.    *)
(* Uniforms and temporaries share one address space.                       *)

CONSTANT Fuel           \* blocks a run may enter before it counts as endless

Undefined == -1
Modulus == 4
Get(f, x) == IF x \in DOMAIN f THEN f[x] ELSE Undefined

\* Where a component of a register is kept.
Loc(p, r, c) ==
    IF p.phys[r] = None THEN <<"virtual", r, c>>
    ELSE <<"physical", p.phys[r][1], p.phys[r][2] + c>>

Alu(op, a) ==
    CASE op = "select" -> IF a[1] = Undefined THEN Undefined
                          ELSE IF a[1] # 0 THEN a[2] ELSE a[3]
      [] op # "select" /\ Undefined \in ToSet(a) -> Undefined
      [] op = "add" /\ Undefined \notin ToSet(a) -> (a[1] + a[2]) % Modulus
      [] op = "lt" /\ Undefined \notin ToSet(a) -> IF a[1] < a[2] THEN 1 ELSE 0
      [] op \in {"mov", "floor"} /\ Undefined \notin ToSet(a) -> a[1]

\* The value of n in front of a root; one evaluated earlier is kept in st.val.
RECURSIVE Eval(_, _, _, _)
Eval(p, st, root, n) ==
    LET x == p.node[n] IN
    IF x.succ # root THEN Get(st.val, n)
    ELSE CASE x.op = "const" -> x.idx
           [] x.op = "load_reg" -> Get(st.reg, Loc(p, x.reg, x.idx))
           [] x.op \in {"load_temp", "load_uniform"} -> Get(st.mem, x.idx)
           [] OTHER -> Alu(x.op, [i \in DOMAIN x.kids |-> Eval(p, st, root, x.kids[i])])

\* The nodes evaluated together with n that others want as well.
RECURSIVE Shared(_, _)
Shared(p, n) ==
    (IF Cardinality(p.node[n].parents) > 1 THEN {n} ELSE {})
        \cup UNION { Shared(p, c) : c \in { k \in Kids(p, n) : p.node[k].succ = p.node[n].succ } }

Exec(p, st, root) ==
    LET x == p.node[root]
        s == [st EXCEPT !.val = [n \in Shared(p, root) |-> Eval(p, st, root, n)] @@ @]
        Value(n) == Eval(p, s, root, n)
        Slots == { i \in DOMAIN x.kids : x.kids[i] # Nil }
        \* by slot, the places written
        Written(place) == [l \in Range(place) |->
                              Value(x.kids[CHOOSE i \in Slots : place[i] = l])]
    IN  CASE x.op = "store_reg" ->
                [s EXCEPT !.reg = Written([i \in Slots |-> Loc(p, x.reg, i - 1)]) @@ @]
          [] x.op = "store_varying" -> [s EXCEPT !.out = (x.idx :> Value(x.kids[1])) @@ @]
          [] x.op = "store_temp" -> \* the address, the last child, is a constant
                [s EXCEPT !.mem = [a \in { 4 * p.node[x.kids[5]].idx + i - 1 : i \in Slots \ {5} }
                                    |-> Value(x.kids[a + 1 - 4 * p.node[x.kids[5]].idx])] @@ @]
          [] OTHER -> s

\* The phi nodes of a block read all their sources before any writes.
EnterBlock(p, st, b, from) ==
    LET Src(phi) == CHOOSE s \in ToSet(p.node[phi].srcs) : s.pred = from
        Writes == { <<phi, c>> \in p.phis[b] \X Component : c < p.size[p.node[phi].reg] }
        Dest(w) == Loc(p, p.node[w[1]].reg, w[2])
    IN  [st EXCEPT !.reg =
            [l \in { Dest(w) : w \in Writes } |->
                LET w == CHOOSE v \in Writes : Dest(v) = l
                IN  IF \E s \in ToSet(p.node[w[1]].srcs) : s.pred = from
                    THEN Get(st.reg, Loc(p, Src(w[1]).reg, w[2])) ELSE Undefined] @@ @]

RECURSIVE RunFrom(_, _, _, _, _)
RunFrom(p, st, b, from, fuel) ==
    LET s == FoldLeft(LAMBDA q, root : Exec(p, q, root), EnterBlock(p, st, b, from), p.roots[b])
        t == Terminator(p, b)
        taken == t # Nil /\ (p.node[t].op = "branch_uncond" \/ Eval(p, s, t, p.node[t].kids[1]) # 0)
    IN  CASE fuel = 0 -> Undefined :> Undefined
          [] fuel # 0 /\ taken -> RunFrom(p, s, p.node[t].idx, b, fuel - 1)
          [] fuel # 0 /\ ~taken /\ IsLast(p, b) -> s.out
          [] OTHER -> RunFrom(p, s, NextBlock(p, b), b, fuel - 1)

Run(p, uniforms) ==
    RunFrom(p, [reg |-> <<>>, mem |-> uniforms, out |-> <<>>, val |-> <<>>],
            Head(p.blocks), Nil, Fuel)
=============================================================================
