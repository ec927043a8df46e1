----------------------------- MODULE GpSchedule -----------------------------
(***************************************************************************)
(* The list scheduler of the geometry processor (gp_ir/scheduler.c) for    *)
(* one basic block.  It works from the end of the block: instruction 0 is  *)
(* the last, and a new instruction is put in front of all others.          *)
(*                                                                         *)
(* A node has to be close to every node that reads it.  When no place is   *)
(* close to all, it is put where it fits and its value carried on by       *)
(* moves; when a move has no place, the moves are taken back and the value *)
(* goes through a register; when that fails too, the block is scheduled    *)
(* again from scratch, with the register's store and loads in it.          *)
(*                                                                         *)
(* Sets by address (succs, moves) are read in any order, and of equal      *)
(* nodes the priority queue may return any.                                *)
(***************************************************************************)
EXTENDS GpInstr

CONSTANTS
    Blocks,         \* programs of one block, their registers live behind it
    MaxRestarts     \* bound: a block restarted more often is given up

VARIABLES
    source,     \* the program as it came in
    block,      \* the block: program p, edges deps, end nodes, live registers,
                \* instrs (number k is instrs[k + 1]), and sched_instr and
                \* sched_pos of the nodes as at and pos
    dist,       \* max_dist
    queue,      \* the nodes ready to be scheduled: a bag
    processed, moves, free,     \* of schedule_block
    now,        \* the node under way, and the local variables about it
    restarts, pc

vars == <<source, block, dist, queue, processed, moves, free, now, restarts, pc>>

AllRegs == 0..63                \* 16 registers of four components
NumPositions(p, n) ==
    CASE Op(p, n) = "mov" -> 6
      [] Op(p, n) = "neg" -> 4
      [] Op(p, n) \in {"mul", "add", "floor", "sign", "ge", "lt", "min", "max", "load_reg"} -> 2
      [] OTHER -> 1

SuccDeps(b, n) == { d \in ToSet(b.deps) : d.pred = n }
StartOf(b, d) == b.at[d.succ] + get_min_dist(b.p, d)
EndOf(b, d, pos) == b.at[d.succ] + get_max_dist(b.p, d, pos)
-----------------------------------------------------------------------------
(* Placing a node.                                                         *)

\* get_instr: instructions are created up to number j.
get_instr(b, j) ==
    [b EXCEPT !.instrs = @ \o [i \in 1..Max({0, j + 1 - Len(@)}) |-> EmptyInstr]]

\* In front of a complex1 its complex2 and complex function will need their units.
RoomBefore(b, n, j) ==
    Op(b.p, n) = "complex1" /\ j + 1 < Len(b.instrs) =>
        b.instrs[j + 2].mul[1] = Nil /\ b.instrs[j + 2].complex = Nil

Scheduled(b, n, j, k) == [b EXCEPT !.at = (n :> j) @@ @, !.pos = (n :> k) @@ @]

\* The block with n at position k of instruction j: {} if it does not fit.
TryInsert(b, n, j, k) ==
    LET g == get_instr(b, j)
    IN  IF ~ RoomBefore(g, n, j) THEN {}
        ELSE { Scheduled([g EXCEPT !.instrs[j + 1] = i], n, j, k)
               : i \in instr_try_insert_node(b.p, g.instrs[j + 1], n, k) }

\* The first <<instruction, position>> of a list where n fits.
FirstFit(b, n, places) ==
    FoldLeft(LAMBDA found, jk : IF found # {} THEN found ELSE TryInsert(b, n, jk[1], jk[2]),
             {}, places)

Meet(r, s) == [first |-> Max({r.first, s.first}), last |-> Min({r.last, s.last})]
Overlap(r, s) == Meet(r, s).first <= Meet(r, s).last
Anywhere == [first |-> 0, last |-> 2 * Far]
Allowed(b, d, pos) == [first |-> StartOf(b, d), last |-> EndOf(b, d, pos)]

\* Behind the first new instruction of a range the search never gets.
Places(b, r, k) ==
    LET last == Min({r.last, Max({r.first, Len(b.instrs)})})
    IN  [i \in 1..Max({0, last - r.first + 1}) |-> <<r.first + i - 1, k>>]

\* Every reader is satisfied.
PlaceClose(b, n) ==
    LET Common(k) == FoldSet(LAMBDA d, r : Meet(r, Allowed(b, d, k)), Anywhere, SuccDeps(b, n))
    IN  FirstFit(b, n, FlattenSeq([i \in 1..NumPositions(b.p, n) |-> Places(b, Common(i - 1), i - 1)]))

\* The ranges the readers leave when the later of two that are apart wins; which
\* one that is depends on the order of the set.
RelaxedRanges(b, n) ==
    LET k == NumPositions(b.p, n) - 1
        Either(r, s) == CASE Overlap(r, s) -> Meet(r, s)
                          [] ~ Overlap(r, s) /\ s.first > r.first -> s
                          [] OTHER -> r
    IN  { FoldLeft(Either, Anywhere, s) : s \in SetToSeqs({ Allowed(b, d, k) : d \in SuccDeps(b, n) }) }

\* Some reader is not: the value has to be carried to it.
PlaceFar(b, n, r) ==
    LET k == NumPositions(b.p, n)
        near == FirstFit(b, n, Places(b, r, k - 1))
        Beyond == FlattenSeq([i \in 1..(Max({r.last + 1, Len(b.instrs)}) - r.last) |->
                                 [pos \in 1..k |-> <<r.last + i, pos - 1>>]])
    IN  IF near # {} THEN near ELSE FirstFit(b, n, Beyond)

try_place_node(b, n) ==
    IF PlaceClose(b, n) # {} THEN [block : PlaceClose(b, n), close : {TRUE}]
    ELSE [block : UNION { PlaceFar(b, n, r) : r \in RelaxedRanges(b, n) }, close : {FALSE}]
-----------------------------------------------------------------------------
(* Moves.                                                                  *)

Drop(deps, edges) == SelectSeq(deps, LAMBDA d : d \notin edges)
AddEdge(b, edge) == [b EXCEPT !.deps = Insert(@, edge)]

\* succ takes its value from new instead of old.
Redirect(b, d, new) ==
    AddEdge([b EXCEPT !.p = node_replace_child(@, d.succ, d.pred, new)],
            Edge(new, d.succ, TRUE, d.off))

CreateMove(b, n) ==
    AddEdge([b EXCEPT !.p = node_link(Create(@, Node("mov", <<n>>, Nil, 0)), @.next, n)],
            Edge(n, b.p.next, TRUE, FALSE))

\* A move, b.p.next, between n and the readers it is too far from.
insert_move(b, n) ==
    LET late == { d \in SuccDeps(b, n) : b.at[n] > EndOf(b, d, b.pos[n]) }
        q == FoldSet(LAMBDA d, c : Redirect(c, d, b.p.next), CreateMove(b, n), late)
    IN  [q EXCEPT !.deps = Drop(@, late)]

\* A move may be too early for its readers, never too late.  When there is no
\* instruction behind its child, sched_instr is left uninitialised.
try_place_move_node(b, mv, child) ==
    LET edge == Edge(child, mv, TRUE, FALSE)
        r == [first |-> Max({0, b.at[child] - get_max_dist(b.p, edge, b.pos[child])}),
              last |-> b.at[child] - get_min_dist(b.p, edge)]
        InTime == { i \in r.first..r.last : \A d \in SuccDeps(b, mv) : i >= StartOf(b, d) }
        places == SelectSeq(FlattenSeq([i \in 1..Max({0, r.last - r.first + 1}) |->
                                           [k \in 1..6 |-> <<r.first + i - 1, k - 1>>]]),
                            LAMBDA jk : jk[1] \in InTime)
        placed == FirstFit(b, mv, places)
        done(c) == \A d \in SuccDeps(c, mv) : c.at[mv] <= EndOf(c, d, c.pos[mv])
    IN  CASE r.last < 0 -> { [block |-> Scheduled(b, mv, j, 0), how |-> "none"]
                             : j \in 0..(Len(b.instrs) - 1) }
          [] r.last >= 0 /\ placed = {} -> {[block |-> Scheduled(b, mv, r.last, 5), how |-> "none"]}
          [] OTHER -> { [block |-> c, how |-> IF done(c) THEN "done" ELSE "more"] : c \in placed }

UndoMove(b, mv) ==
    LET child == b.p.node[mv].kids[1]
        g == get_instr(b, b.at[mv])
        out == [g EXCEPT !.instrs[b.at[mv] + 1] = instr_remove_alu_node(b.p, @, mv)]
        q == FoldSet(LAMBDA d, c : Redirect(c, d, child), out, SuccDeps(b, mv))
    IN  [q EXCEPT !.deps = SelectSeq(@, LAMBDA d : {d.pred, d.succ} \subseteq DOMAIN q.p.node)]

undo_moves(b, mvs) == FoldSet(LAMBDA mv, c : UndoMove(c, mv), b, mvs)
-----------------------------------------------------------------------------
(* A value that goes through a register.                                   *)

NoSpill == [store |-> Nil, mv |-> Nil, mvs |-> {}, loads |-> {}]

\* One reader that is too far gets a load, and a move if it is a store.
LoadFor(s, d, reg) ==
    LET load == s.block.p.next
        b == AddEdge([s.block EXCEPT !.p = Create(@, Node("load_reg", <<>>, reg, 0))],
                     Edge(s.spill.store, load, FALSE, FALSE))
        mv == AtOnce(b.p, d)
        c == IF mv THEN CreateMove(b, load) ELSE b
    IN  [ block |-> Redirect(c, d, IF mv THEN load + 1 ELSE load),
          spill |-> [s.spill EXCEPT !.loads = @ \cup {load},
                                    !.mvs = IF mv THEN @ \cup {load + 1} ELSE @] ]

\* The edges from n to the readers that load the register are kept.
insert_reg(b, n, reg_num) ==
    LET m == IF Op(b.p, n) \in Loads THEN CreateMove(b, n) ELSE b
        child == IF Op(b.p, n) \in Loads THEN b.p.next ELSE n
        reg == m.p.nextReg
        p == [reg_create(m.p, 1) EXCEPT !.phys[reg] = <<reg_num \div 4, reg_num % 4>>]
        store == p.next
        place == Position(RootSeq(p), b.p.node[n].succ)
        stored == AddEdge([m EXCEPT !.p = LinkKids(InsertRoot(p, Blk, place,
                                        Node("store_reg", <<child, Nil, Nil, Nil>>, reg, 0)), store)],
                          Edge(child, store, TRUE, FALSE))
        late == { d \in SuccDeps(b, n) : b.at[n] > EndOf(b, d, b.pos[n]) }
        all == FoldSet(LAMBDA d, s : LoadFor(s, d, reg),
                       [ block |-> stored,
                         spill |-> [NoSpill EXCEPT !.store = store,
                                                   !.mv = IF child = n THEN Nil ELSE child] ], late)
    IN  [all EXCEPT !.block.live = IF late = {} THEN @ ELSE @ \cup {reg_num}]

\* One move in the instruction of the store it is for.
PlaceWith(b, mv, j) == FirstFit(b, mv, [k \in 1..6 |-> <<j, k - 1>>])

\* The store as early as it can be, far enough in front of the loads.
PlaceStore(b, store, child) ==
    LET first == Max({0} \cup { StartOf(b, d) : d \in SuccDeps(b, store) })
    IN  FirstFit(b, store, [i \in 1..Max({0, b.at[child] - first + 1}) |-> <<b.at[child] + 1 - i, 0>>])
-----------------------------------------------------------------------------
NoNode == [node |-> Nil, made |-> {}, from |-> Nil, of |-> "node", spill |-> NoSpill]

Init ==
    \E p \in Blocks :
        /\ source = p
        /\ block = LET deps == block_calc_dependencies(p)
                   IN  [ p |-> p, deps |-> deps, ends |-> EndNodes(p, deps), instrs |-> <<>>,
                         at |-> <<>>, pos |-> <<>>,
                         live |-> UNION { { 4 * p.phys[r][1] + p.phys[r][2] + c
                                            : c \in 0..(p.size[r] - 1) } : r \in RegSet(p) } ]
        /\ dist = <<>> /\ queue = EmptyBag /\ processed = {} /\ moves = {} /\ free = {}
        /\ now = NoNode /\ restarts = 0 /\ pc = "start"

\* lima_gp_ir_block_calc_crit_path and the preparations of schedule_block
Start ==
    /\ pc = "start" /\ pc' = "pull"
    /\ dist' = block_calc_crit_path(block.p, block.deps)
    /\ queue' = SetToBag(block.ends)
    /\ processed' = {} /\ free' = AllRegs \ block.live
    /\ UNCHANGED <<source, block, moves, now, restarts>>

\* compare_nodes: complex functions, then loads, then the longest way.
Priority(n) ==
    CASE Op(block.p, n) \in Complexes \cup {"complex1"} -> 2 * Far
      [] Op(block.p, n) \in Loads -> Far
      [] Op(block.p, n) \in Stores -> dist[n] - 1
      [] OTHER -> dist[n]

Pull ==
    /\ pc = "pull" /\ queue # EmptyBag
    /\ \E n \in BagToSet(queue) :
        /\ \A m \in BagToSet(queue) : Priority(n) >= Priority(m)
        /\ queue' = queue (-) SetToBag({n})
        /\ now' = [NoNode EXCEPT !.node = n]
    /\ pc' = "place"
    /\ UNCHANGED <<source, block, dist, processed, moves, free, restarts>>

\* now.node is scheduled in b: a predecessor is ready when this was its last
\* reader, and one with two edges is pushed twice.
Processed(b) ==
    LET all == processed \cup {now.node}
        Ready(d) == d.succ = now.node /\ \A e \in SuccDeps(b, d.pred) : e.succ \in all
    IN  /\ processed' = all
        /\ queue' = FoldLeft(LAMBDA q, d : q (+) SetToBag({d.pred}), queue, SelectSeq(b.deps, Ready))
        /\ now' = NoNode /\ pc' = "pull"

ToThread(from, of) ==
    /\ pc' = "thread" /\ now' = [now EXCEPT !.from = from, !.of = of]
    /\ UNCHANGED <<processed, queue>>

Place ==
    /\ pc = "place"
    /\ \E r \in try_place_node(block, now.node) :
        /\ block' = r.block
        /\ IF r.close THEN Processed(r.block) ELSE ToThread(now.node, "node")
    /\ UNCHANGED <<source, dist, moves, free, restarts>>

\* The moves are through: to the next node, load or, after the store, node.  Those
\* around a register are not remembered as moves of the block.
Threaded(b, made) ==
    CASE now.of = "read" -> /\ pc' = "read" /\ now' = [now EXCEPT !.made = made]
                            /\ UNCHANGED <<processed, queue, moves>>
      [] now.of = "write" -> Processed(b) /\ UNCHANGED moves
      [] now.of = "node" -> Processed(b) /\ moves' = moves \cup made

Thread ==
    /\ pc = "thread"
    /\ LET mv == block.p.next
           made == now.made \cup {mv}
       IN  \E r \in try_place_move_node(insert_move(block, now.from), mv, now.from) :
            /\ block' = r.block
            /\ IF r.how = "done" THEN Threaded(r.block, made)
               ELSE /\ pc' = (IF r.how = "more" THEN "thread" ELSE "undo")
                    /\ now' = [now EXCEPT !.made = made, !.from = mv]
                    /\ UNCHANGED <<processed, queue, moves>>
    /\ UNCHANGED <<source, dist, free, restarts>>

\* Slip: a register is not tried.
UndoAndRestart ==
    /\ pc = "undo"
    /\ block' = undo_moves(block, now.made)
    /\ now' = [now EXCEPT !.made = {}] /\ pc' = "restart"
    /\ UNCHANGED <<source, dist, queue, processed, moves, free, restarts>>

\* The moves of this node are taken back: it is tried through a register, or, if
\* it was tried that way already, not at all.
UndoMoves ==
    /\ pc = "undo"
    /\ block' = undo_moves(block, now.made)
    /\ now' = [now EXCEPT !.made = {}]
    /\ pc' = IF now.of = "node" THEN "spill" ELSE "restart"
    /\ UNCHANGED <<source, dist, queue, processed, moves, free, restarts>>

InsertReg ==
    /\ pc = "spill" /\ free # {}
    /\ LET s == insert_reg(block, now.node, Min(free))
       IN  block' = s.block /\ now' = [now EXCEPT !.spill = s.spill]
    /\ free' = free \ {Min(free)}
    /\ pc' = "moves"
    /\ UNCHANGED <<source, dist, queue, processed, moves, restarts>>

\* sched_reg_reads: the moves in front of stores
ReadMove ==
    /\ pc = "moves" /\ now.spill.mvs # {}
    /\ \E mv \in now.spill.mvs :
        LET parent == CHOOSE m \in block.p.node[mv].parents : TRUE
            placed == PlaceWith(block, mv, block.at[parent])
        IN  /\ block' \in IF placed = {} THEN {block} ELSE placed
            /\ now' = [now EXCEPT !.spill.mvs = @ \ {mv}, !.of = "read"]
            /\ pc' = IF placed = {} THEN "undo" ELSE "moves"
    /\ UNCHANGED <<source, dist, queue, processed, moves, free, restarts>>

MovesRead ==
    /\ pc = "moves" /\ now.spill.mvs = {} /\ pc' = "read"
    /\ UNCHANGED <<source, block, dist, queue, processed, moves, free, now, restarts>>

\* sched_reg_reads: the loads
ReadLoad ==
    /\ pc = "read" /\ now.spill.loads # {}
    /\ \E load \in now.spill.loads : \E r \in try_place_node(block, load) :
        /\ block' = r.block
        /\ now' = [now EXCEPT !.spill.loads = @ \ {load}, !.from = load, !.of = "read"]
        /\ pc' = IF r.close THEN "read" ELSE "thread"
    /\ UNCHANGED <<source, dist, queue, processed, moves, free, restarts>>

\* sched_reg_write
Write ==
    /\ pc = "read" /\ now.spill.loads = {}
    /\ LET spill == now.spill
           stored == PlaceStore(block, spill.store, now.node)
           reader == IF spill.mv = Nil THEN spill.store ELSE spill.mv
           both == IF spill.mv = Nil THEN stored
                   ELSE UNION { PlaceWith(b, spill.mv, b.at[spill.store]) : b \in stored }
           Late(b) == b.at[now.node] > b.at[reader]
                        + get_max_dist(b.p, Edge(now.node, reader, TRUE, TRUE), b.pos[now.node])
       IN  \/ /\ stored = {} /\ pc' = "undo" /\ now' = [now EXCEPT !.of = "write"]
              /\ UNCHANGED <<block, processed, queue>>
           \/ \E b \in both : /\ block' = b
                              /\ IF Late(b) THEN ToThread(now.node, "write") ELSE Processed(b)
    /\ UNCHANGED <<source, dist, moves, free, restarts>>

\* The registers tried stay in the program, with the moves made for them.
Restart ==
    /\ pc = "restart" /\ restarts < MaxRestarts
    /\ block' = [undo_moves(block, moves) EXCEPT !.instrs = <<>>]
    /\ moves' = {} /\ now' = NoNode /\ restarts' = restarts + 1 /\ pc' = "start"
    /\ UNCHANGED <<source, dist, queue, processed, free>>

BlockScheduled == pc = "pull" /\ queue = EmptyBag
Abandoned == pc = "restart" /\ restarts = MaxRestarts
Done == (BlockScheduled \/ Abandoned) /\ UNCHANGED vars

Next == \/ Start \/ Pull \/ Place \/ Thread \/ UndoMoves \/ InsertReg \/ ReadMove
        \/ MovesRead \/ ReadLoad \/ Write \/ Restart \/ Done

Spec == Init /\ [][Next]_vars
=============================================================================
