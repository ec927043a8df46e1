------------------------------- MODULE GpDeps -------------------------------
(***************************************************************************)
(* The dependence graph of a basic block (gp_ir/dep_info.c), and how far   *)
(* apart the two ends of an edge may be scheduled (scheduler_helper.c).    *)
(*                                                                         *)
(* A program has the one block Blk here.  In front of the scheduler a      *)
(* load's idx is <<index, component, offset register>>, the last Nil when  *)
(* there is none.                                                          *)
(*                                                                         *)
(* An edge says that pred runs before succ.  A child edge carries a value, *)
(* to the address of a temporary store if `off'; the others keep reads and *)
(* writes of registers and temporaries in order.  Two edges may join the   *)
(* same nodes (x * x): an edge has a name of its own.                      *)
(***************************************************************************)
EXTENDS GpIr

Blk == 1
Far == 1000                     \* INT_MAX >> 2
OffStore(reg) == <<"store_temp_load_off0", "store_temp_load_off1", "store_temp_load_off2">>[reg]
OffStores == { OffStore(i) : i \in 1..3 }
Loads == { "load_uniform", "load_temp", "load_attribute", "load_reg" }
Stores == { "store_temp", "store_reg", "store_varying" }

RootSeq(p) == p.roots[Blk]
Op(p, n) == p.node[n].op
Edge(pred, succ, child, off) == [pred |-> pred, succ |-> succ, child |-> child, off |-> off]

\* dep_info_insert: a list stands for the ptrset of edges.
Insert(deps, edge) == Append(deps, edge)
dep_exists(deps, pred, succ) == \E d \in ToSet(deps) : d.pred = pred /\ d.succ = succ

\* A chain a -> b -> c: a read between two writes.
indirect_dep(deps, pred, succ) ==
    \E d \in ToSet(deps) : d.pred = pred /\ dep_exists(deps, d.succ, succ)

\* The first root from `from' on, and the last one in front of it.
FirstFrom(p, from, Is(_)) ==
    LET s == RootSeq(p)
    IN  SelectSeq(SubSeq(s, Position(s, from), Len(s)), Is)
LastBefore(p, root, Is(_)) ==
    LET s == RootSeq(p)
    IN  Reverse(SelectSeq(SubSeq(s, 1, Position(s, root) - 1), Is))

InsertFirst(deps, candidates, Edge1(_)) ==
    IF candidates = <<>> THEN deps ELSE Insert(deps, Edge1(Head(candidates)))

node_insert_child_deps(p, deps, n) ==
    FoldLeft(LAMBDA ds, c : IF c = Nil THEN ds
                            ELSE Insert(ds, Edge(c, n, TRUE, Op(p, n) = "store_temp"
                                                             /\ c = p.node[n].kids[5])),
             deps, p.node[n].kids)

\* By address before allocation, by physical register after it.
is_same_reg(p, r1, r2) ==
    IF p.phys[r1] # None /\ p.phys[r2] # None THEN p.phys[r1][1] = p.phys[r2][1]
    ELSE p.phys[r1] = None /\ p.phys[r2] = None /\ r1 = r2

Written(p, root) == { i - 1 : i \in { k \in 1..4 : p.node[root].kids[k] # Nil } }

\* Slip: only a store to the register itself counts.
WriteAfterReadVirtual(p, deps, n) ==
    InsertFirst(deps, FirstFrom(p, p.node[n].succ,
                                LAMBDA m : /\ Op(p, m) = "store_reg" /\ p.node[m].reg = p.node[n].reg
                                           /\ p.node[n].idx \in Written(p, m)),
                LAMBDA m : Edge(n, m, FALSE, FALSE))

WriteAfterRead(p, deps, n) ==
    InsertFirst(deps, FirstFrom(p, p.node[n].succ,
                                LAMBDA m : /\ Op(p, m) = "store_reg"
                                           /\ is_same_reg(p, p.node[m].reg, p.node[n].reg)
                                           /\ p.node[n].idx \in Written(p, m)),
                LAMBDA m : Edge(n, m, FALSE, FALSE))

ReadAfterWrite(p, deps, n) ==
    InsertFirst(deps, LastBefore(p, p.node[n].succ,
                                 LAMBDA m : Op(p, m) = "store_reg" /\ p.node[m].reg = p.node[n].reg),
                LAMBDA m : Edge(m, n, FALSE, FALSE))

insert_reg_dependencies(p, deps, n) == ReadAfterWrite(p, WriteAfterRead(p, deps, n), n)

\* A read of memory is kept between the stores of kind `op' around it.
KeepBetween(p, deps, n, op) ==
    LET war == InsertFirst(deps, FirstFrom(p, p.node[n].succ, LAMBDA m : Op(p, m) = op),
                           LAMBDA m : Edge(n, m, FALSE, FALSE))
    IN  InsertFirst(war, LastBefore(p, p.node[n].succ, LAMBDA m : Op(p, m) = op),
                    LAMBDA m : Edge(m, n, FALSE, FALSE))

insert_temp_read_deps(p, deps, n) == KeepBetween(p, deps, n, "store_temp")

insert_temp_read_off_deps(p, deps, n) ==
    IF p.node[n].idx[3] = Nil THEN deps ELSE KeepBetween(p, deps, n, OffStore(p.node[n].idx[3]))

\* A load_uniform gets no edge, although it reads an offset register as well.
node_insert_deps_cb(p, deps, n) ==
    LET ds == node_insert_child_deps(p, deps, n)
    IN  CASE Op(p, n) = "load_reg" -> insert_reg_dependencies(p, ds, n)
          [] Op(p, n) = "load_temp" -> insert_temp_read_off_deps(p, insert_temp_read_deps(p, ds, n), n)
          [] OTHER -> ds

\* An edge from the last earlier write that no read separates from this one.
AfterWrite(deps, root, candidates) ==
    InsertFirst(deps, SelectSeq(candidates, LAMBDA m : ~ indirect_dep(deps, m, root)),
                LAMBDA m : Edge(m, root, FALSE, FALSE))

insert_reg_write_deps(p, deps, root) ==
    AfterWrite(deps, root,
               LastBefore(p, root, LAMBDA m : /\ Op(p, m) = "store_reg"
                                              /\ is_same_reg(p, p.node[m].reg, p.node[root].reg)
                                              /\ Written(p, m) \cap Written(p, root) # {}))

insert_temp_write_deps(p, deps, root) ==
    AfterWrite(deps, root, LastBefore(p, root, LAMBDA m : Op(p, m) = "store_temp"))

\* The walk back goes through the head of the list to its last root.
insert_temp_write_off_deps(p, deps, root) ==
    IF Head(RootSeq(p)) = root THEN deps
    ELSE AfterWrite(deps, root,
                    LastBefore(p, root, LAMBDA m : Op(p, m) = Op(p, root))
                        \o SelectSeq(<<Last(RootSeq(p))>>, LAMBDA m : Op(p, m) = Op(p, root)))

\* The nodes evaluated for a root, children first.
RECURSIVE Dfs(_, _, _)
Dfs(p, visited, n) ==
    IF n \in ToSet(visited) THEN visited
    ELSE Append(FoldLeft(LAMBDA seen, c : IF c # Nil /\ p.node[c].succ = p.node[n].succ
                                          THEN Dfs(p, seen, c) ELSE seen,
                         visited, p.node[n].kids), n)

insert_root_node_deps(p, deps, root) ==
    LET ds == FoldLeft(LAMBDA acc, n : node_insert_deps_cb(p, acc, n), deps, Dfs(p, <<>>, root))
    IN  CASE Op(p, root) = "store_temp" -> insert_temp_write_deps(p, ds, root)
          [] Op(p, root) \in OffStores -> insert_temp_write_off_deps(p, ds, root)
          [] Op(p, root) = "store_reg" -> insert_reg_write_deps(p, ds, root)
          [] OTHER -> ds

\* The roots nothing depends on.
EndNodes(p, deps) == { n \in ToSet(RootSeq(p)) : \A d \in ToSet(deps) : d.pred # n }

\* All other end nodes run before n.
MakeLast(deps, ends, n) ==
    FoldSet(LAMBDA m, ds : IF m = n THEN ds ELSE Insert(ds, Edge(m, n, FALSE, FALSE)), deps, ends)

make_branch_last(p, deps) ==
    LET ends == EndNodes(p, deps)
    IN  IF Terminator(p, Blk) = Nil THEN deps ELSE MakeLast(deps, ends, Terminator(p, Blk))

make_varying_zero_last(p, deps) ==
    LET ends == EndNodes(p, deps)
        zero == { n \in ends : Op(p, n) = "store_varying" /\ p.node[n].idx = 0 }
    IN  IF zero = {} THEN deps ELSE MakeLast(deps, ends, CHOOSE n \in zero : TRUE)

block_calc_dependencies(p) ==
    LET ds == FoldLeft(LAMBDA acc, root : insert_root_node_deps(p, acc, root), <<>>, RootSeq(p))
    IN  make_varying_zero_last(p, make_branch_last(p, ds))
-----------------------------------------------------------------------------
(* Distances, in instructions.  pos is the sched_pos of the predecessor.   *)

Complexes == { "exp2_impl", "log2_impl", "rcp_impl", "rsqrt_impl" }

is_sched_complex(p, n, pos) ==
    Op(p, n) \in Complexes \cup OffStores \/ (Op(p, n) = "mov" /\ pos = 4)

get_min_dist_alu(p, d) ==
    CASE Op(p, d.pred) \in Loads -> 0
      [] Op(p, d.pred) = "complex1" -> 2
      [] OTHER -> 1

\* A store takes its values, but not its address, in its own instruction.
AtOnce(p, d) == Op(p, d.succ) \in Stores /\ ~ (Op(p, d.succ) = "store_temp" /\ d.off)

get_min_dist(p, d) ==
    LET Between(pred, succ) == Op(p, d.pred) \in pred /\ Op(p, d.succ) = succ
    IN  CASE d.child /\ AtOnce(p, d) -> 0
          [] d.child /\ ~ AtOnce(p, d) -> get_min_dist_alu(p, d)
          [] ~ d.child /\ Between({"store_temp"}, "load_temp") -> 4
          [] ~ d.child /\ Between({"store_reg"}, "load_reg") -> 3
          [] ~ d.child /\ Between(OffStores, "load_uniform") -> 4
          [] OTHER -> 1

get_max_dist_alu(p, d, pos) ==
    CASE Op(p, d.pred) \in {"load_uniform", "load_temp"} -> 0
      [] Op(p, d.pred) = "load_attribute" -> 1
      [] Op(p, d.pred) = "load_reg" -> IF pos = 0 THEN 0 ELSE 1
      [] Op(p, d.succ) = "complex1" /\ Op(p, d.pred) \notin Loads -> 1
      [] OTHER -> IF is_sched_complex(p, d.pred, pos) THEN 1 ELSE 2

get_max_dist(p, d, pos) ==
    CASE ~ d.child -> Far
      [] d.child /\ AtOnce(p, d) -> 0
      [] OTHER -> get_max_dist_alu(p, d, pos)

\* max_dist of every node: the longest way from the start of the block.
RECURSIVE Longest(_, _, _)
Longest(p, deps, n) ==
    Max({0} \cup { Longest(p, deps, d.pred) + get_min_dist(p, d)
                   : d \in { e \in ToSet(deps) : e.succ = n } })

block_calc_crit_path(p, deps) == [n \in DOMAIN p.node |-> Longest(p, deps, n)]
=============================================================================
