------------------------------- MODULE PpHir --------------------------------
(***************************************************************************)
(* Fragment-shader programs in the high-level IR of the pixel processor    *)
(* (pp_hir/pp_hir.h): basic blocks of commands in SSA form, on vectors of  *)
(* up to four components, with the operations the passes edit them by.     *)
(*                                                                         *)
(* A program p is a record of                                              *)
(*   blocks  the block list; cmds[b]: the commands of a block, in order    *)
(*   block   by block: preds; cond ("end": the block ends the program, with*)
(*           output or a discard); next; args, the two sides of a condition*)
(*   cmd     by command: op, size (components: dst.reg.size + 1), outmod,  *)
(*           index (what a load or store accesses), srcs, and the two sets *)
(*           the code keeps of who uses the result: cmd_uses, block_uses   *)
(*   next, nextBlock: fresh names.  The name of a command is its register. *)
(* Components count from 1, and a source is a command (dep) or a constant. *)
(***************************************************************************)
EXTENDS Integers, SequencesExt, FiniteSetsExt

Nil == 0
Identity == <<1, 2, 3, 4>>

\* lima_pp_hir_source_default
Source(dep) == [constant |-> <<>>, dep |-> dep, swz |-> Identity, abs |-> FALSE, neg |-> FALSE]
IsConstant(s) == s.constant # <<>>

\* The columns of the table lima_pp_hir_op, for the operations of the model.
\* An argument of size 0 is as wide as the result.
ArgSizes(op) ==
    CASE op \in {"any2", "all2", "normalize2", "storet_2"} -> <<2>>
      [] op \in {"any3", "all3", "sum3", "atan_pt2"} -> <<3>>
      [] op \in {"any4", "all4", "sum4", "normalize4"} -> <<4>>
      [] op \in {"dot2", "all_eq2", "any_ne2"} -> <<2, 2>>
      [] op \in {"dot3", "all_eq3", "any_ne3"} -> <<3, 3>>
      [] op \in {"dot4", "all_eq4", "any_ne4"} -> <<4, 4>>
      [] op = "atan_pt1" -> <<1>>
      [] op = "atan2_pt1" -> <<1, 1>>
      [] OTHER -> <<0, 0, 0>>
DestSize(op) ==
    CASE op \in {"loadu_4", "normalize4"} -> 4 [] op \in {"atan_pt1", "atan2_pt1"} -> 3
      [] op \in {"loadu_2", "loadt_2", "normalize2"} -> 2 [] OTHER -> 0
IsLoad(op) == op \in {"loadu_2", "loadu_4", "loadt_2"}
IsStore(op) == op = "storet_2"
HasDest(op) == ~IsStore(op)
DestBeginning(op) == IsLoad(op) \/ op \in {"atan_pt1", "atan2_pt1"}
Plain == {"neg", "abs", "atan_pt2", "phi", "combine"}
OutputModifiers(op) ==
    ~IsLoad(op) /\ ~IsStore(op) /\ op \notin Plain \cup {"atan", "atan2", "atan_pt1", "atan2_pt1"}
InputModifier(op, arg) ==
    /\ ~IsLoad(op) /\ ~IsStore(op) /\ op \notin Plain
    /\ arg = 2 => op \notin {"atan2", "all_eq2", "all_eq3", "all_eq4", "any_ne2", "any_ne3", "any_ne4"}

BlockSet(p) == ToSet(p.blocks)
Cmds(p) == UNION { ToSet(p.cmds[b]) : b \in BlockSet(p) }
AllCmds(p) == FlattenSeq([i \in DOMAIN p.blocks |-> p.cmds[p.blocks[i]]])
Op(p, c) == p.cmd[c].op
BlockOf(p, c) == CHOOSE b \in BlockSet(p) : c \in ToSet(p.cmds[b])
Deps(p, c) == { s.dep : s \in { t \in ToSet(p.cmd[c].srcs) : ~IsConstant(t) } } \ {Nil}
Args(p, c) == { i \in DOMAIN p.cmd[c].srcs : ~IsConstant(p.cmd[c].srcs[i]) }

Conditional(p, b) == p.block[b].cond \notin {"end", "always"}
Children(p, b) ==
    CASE p.block[b].cond = "end" -> <<>>
      [] p.block[b].cond = "always" -> <<p.block[b].next[1]>>
      [] OTHER -> p.block[b].next

\* What a block reads when it ends: the output, or the sides of its condition.
BlockReads(p, b) ==
    CASE p.block[b].cond = "end" -> {p.block[b].output} \ {Nil}
      [] Conditional(p, b) -> { s.dep : s \in { t \in ToSet(p.block[b].args) : ~IsConstant(t) } } \ {Nil}
      [] OTHER -> {}

\* Components of its source an argument reads, through the swizzle.
ArgSize(p, c, arg) ==
    LET x == p.cmd[c]
        Size(i) == IF IsConstant(x.srcs[i]) THEN 0 ELSE p.cmd[x.srcs[i].dep].size
        before == FoldLeft(LAMBDA sum, i : sum + Size(i), 0, [i \in 1..(arg - 1) |-> i])
    IN  CASE x.op = "combine" ->
                IF before + Size(arg) >= x.size THEN x.size - before ELSE Size(arg)
          [] x.op \notin {"combine", "phi"} /\ ArgSizes(x.op)[arg] # 0 -> ArgSizes(x.op)[arg]
          [] OTHER -> x.size
-----------------------------------------------------------------------------
(* Inserting, removing and replacing commands, with the sets of their uses.*)

add_to_uses(p, c) ==
    [p EXCEPT !.cmd = [d \in DOMAIN p.cmd |->
        IF d \in Deps(p, c) THEN [p.cmd[d] EXCEPT !.cmd_uses = @ \cup {c}] ELSE p.cmd[d]]]
remove_from_uses(p, c) ==
    [p EXCEPT !.cmd = [d \in DOMAIN p.cmd |->
        IF d \in Deps(p, c) THEN [p.cmd[d] EXCEPT !.cmd_uses = @ \ {c}] ELSE p.cmd[d]]]

\* Sources that read old, of commands and blocks that old knows of, read new.
Redirect(p, old, new) ==
    LET In(srcs) == [i \in DOMAIN srcs |-> IF ~IsConstant(srcs[i]) /\ srcs[i].dep = old
                                           THEN [srcs[i] EXCEPT !.dep = new] ELSE srcs[i]]
    IN  [p EXCEPT
            !.cmd = [c \in DOMAIN p.cmd |->
                IF c \in p.cmd[old].cmd_uses THEN [p.cmd[c] EXCEPT !.srcs = In(@)] ELSE p.cmd[c]],
            !.block = [b \in DOMAIN p.block |->
                IF b \in p.cmd[old].block_uses
                THEN [p.block[b] EXCEPT !.args = In(@), !.output = IF @ = old THEN new ELSE @]
                ELSE p.block[b]]]

replace_uses(p, old, new) ==
    [Redirect(p, old, new) EXCEPT
        !.cmd[new].cmd_uses = @ \cup p.cmd[old].cmd_uses, !.cmd[old].cmd_uses = {},
        !.cmd[new].block_uses = @ \cup p.cmd[old].block_uses, !.cmd[old].block_uses = {}]

\* A new command, which gets the name p.next, at a place of a block.
block_insert(p, b, place, cmd) ==
    add_to_uses([p EXCEPT !.cmd = (p.next :> cmd) @@ @, !.cmds[b] = InsertAt(@, place, p.next),
                          !.next = @ + 1], p.next)

block_remove(p, b, c) ==
    LET q == Redirect(remove_from_uses(p, c), c, Nil)
    IN  [q EXCEPT !.cmds[b] = Remove(@, c), !.cmd = [d \in DOMAIN @ \ {c} |-> q.cmd[d]]]

\* The block stays in the preds of those behind it.
block_delete(p, b) ==
    LET q == [p EXCEPT !.cmd = [c \in DOMAIN p.cmd |->
                IF c \in BlockReads(p, b) THEN [p.cmd[c] EXCEPT !.block_uses = @ \ {b}] ELSE p.cmd[c]]]
    IN  [FoldLeft(LAMBDA r, c : block_remove(r, b, c), q, p.cmds[b])
            EXCEPT !.blocks = SelectSeq(@, LAMBDA d : d # b)]

Cmd(op, size, srcs) ==
    [ op |-> op, size |-> size, outmod |-> "none", index |-> 0, srcs |-> srcs,
      cmd_uses |-> {}, block_uses |-> {} ]
-----------------------------------------------------------------------------
(* What a program computes.  Values are numbers modulo a prime, counted in *)
(* halves, so that rounding to whole numbers shows; where only a table of  *)
(* the hardware knows a function, a polynomial stands for it.              *)

CONSTANT Fuel           \* blocks a run may enter before it counts as endless

Undefined == 10000

\* What comes out of a run besides a color.
Discarded == <<>>
Endless == <<0>>

Modified(s, v) ==
    LET a == IF s.abs /\ v < 0 THEN -v ELSE v
    IN  IF v = Undefined THEN v ELSE IF s.neg THEN -a ELSE a

Rounded(outmod, v) == IF outmod = "round" /\ v # Undefined THEN 2 * ((v + 1) \div 2) ELSE v

Num(n) == ((n + 50) % 101) - 50
One == 2
Truth(b) == IF b THEN One ELSE 0
Times(a, b) == Num(51 * a * b)
Reciprocal(a) == IF a = 0 THEN 0 ELSE CHOOSE r \in -50..50 : Times(a, r) = One
Fract(a) == a % 2
Table(k, a) == Num(a * (k * a + k + 1))
ATan2(a, b) == Num(a * b + 3 * b + 7 * (a + 1))
Root(a) == Table(5, a)

\* The factors that sin and cos, exp and log put in front of the tables.
HalfOverPi == 6
Log2E == 10

Compare(cond, a, b) ==
    CASE cond = "gt" -> a > b  [] cond = "lt" -> a < b  [] cond = "eq" -> a = b
      [] cond = "le" -> a <= b [] cond = "ge" -> a >= b [] cond = "ne" -> a # b

Total(a) == Num(FoldSeq(+, 0, a))
Product(a) == [i \in 1..(Len(a) \div 2) |-> Times(a[i], a[i + Len(a) \div 2])]

\* Component k of the result, from the components it is made of.
Alu(op, a, k) ==
    CASE op \in {"mov", "combine"} -> a[1]
      [] op = "neg" -> -a[1]
      [] op = "abs" -> IF a[1] < 0 THEN -a[1] ELSE a[1]
      [] op = "add" -> Num(a[1] + a[2])
      [] op = "sub" -> Num(a[1] - a[2])
      [] op = "mul" -> Times(a[1], a[2])
      [] op = "rcp" -> Reciprocal(a[1])
      [] op = "div" -> Times(a[1], Reciprocal(a[2]))
      [] op = "mod" -> LET q == Times(a[1], Reciprocal(a[2]))
                       IN  Num(a[1] - Times(a[2], q - Fract(q)))
      [] op = "lrp" -> Num(Times(a[1], One - a[3]) + Times(a[2], a[3]))
      [] op = "sign" -> Truth(a[1] > 0) - Truth(a[1] < 0)
      [] op = "fract" -> Fract(a[1])
      [] op = "ceil" -> Num(a[1] + Fract(-a[1]))
      [] op = "min" -> IF a[1] < a[2] THEN a[1] ELSE a[2]
      [] op = "max" -> IF a[1] < a[2] THEN a[2] ELSE a[1]
      [] op \in {"gt", "ge", "eq", "ne"} -> Truth(Compare(op, a[1], a[2]))
      [] op = "not" -> Truth(a[1] = 0)
      [] op \in {"sum3", "sum4"} -> Total(a)
      [] op \in {"dot2", "dot3", "dot4"} -> Total(Product(a))
      [] op \in {"any2", "any3", "any4"} -> Truth(\E i \in DOMAIN a : a[i] # 0)
      [] op \in {"all2", "all3", "all4"} -> Truth(\A i \in DOMAIN a : a[i] # 0)
      [] op \in {"all_eq2", "all_eq3", "all_eq4"} ->
            Truth(\A i \in 1..(Len(a) \div 2) : a[i] = a[i + Len(a) \div 2])
      [] op \in {"any_ne2", "any_ne3", "any_ne4"} ->
            Truth(\E i \in 1..(Len(a) \div 2) : a[i] # a[i + Len(a) \div 2])
      [] op = "sin_lut" -> Table(1, a[1])
      [] op = "cos_lut" -> Table(2, a[1])
      [] op = "exp2" -> Table(3, a[1])
      [] op = "log2" -> Table(4, a[1])
      [] op = "sqrt" -> Root(a[1])
      [] op = "rsqrt" -> Reciprocal(Root(a[1]))
      [] op = "sin" -> Table(1, Times(a[1], HalfOverPi))
      [] op = "cos" -> Table(2, Times(a[1], HalfOverPi))
      [] op = "tan" -> Times(Table(1, Times(a[1], HalfOverPi)), Reciprocal(Table(2, Times(a[1], HalfOverPi))))
      [] op = "exp" -> Table(3, Times(a[1], Log2E))
      [] op = "log" -> Times(Table(4, a[1]), Reciprocal(Log2E))
      [] op = "pow" -> Table(3, Times(Table(4, a[1]), a[2]))
      [] op = "asin" -> ATan2(a[1], Root(Num(One - Times(a[1], a[1]))))
      [] op = "acos" -> ATan2(Root(Num(One - Times(a[1], a[1]))), a[1])
      [] op = "atan" -> ATan2(a[1], One)
      [] op = "atan2" -> ATan2(a[1], a[2])
      [] op = "atan_pt1" -> <<a[1], One, Num(a[1] + 1)>>[k]
      [] op = "atan2_pt1" -> <<a[1], a[2], Num(a[1] + 1)>>[k]
      [] op = "atan_pt2" -> Num(2 * a[1] + 3 * a[2] + 7 * a[3])

\* The sources, each a vector of four, from which component k is made.
Compute(op, srcs, k) ==
    LET sizes == ArgSizes(op)
        Whole(i) == SubSeq(srcs[i], 1, sizes[i])
        a == CASE sizes[1] = 0 -> [i \in DOMAIN srcs |-> srcs[i][k]]
               [] sizes[1] # 0 /\ Len(sizes) = 1 -> Whole(1)
               [] OTHER -> Whole(1) \o Whole(2)
    IN  CASE \E i \in DOMAIN a : a[i] = Undefined -> Undefined
          [] op \in {"div", "mod"} /\ a[2] = 0 -> Undefined
          [] OTHER -> Alu(op, a, k)

\* Component k of a source.
Read(p, st, s, k) ==
    LET j == s.swz[k] IN
    IF IsConstant(s) THEN Modified(s, s.constant[j])
    ELSE IF s.dep \in DOMAIN st.reg /\ j <= p.cmd[s.dep].size
         THEN Modified(s, st.reg[s.dep][j]) ELSE Undefined

Recall(mem, a) == IF a \in DOMAIN mem THEN mem[a] ELSE Undefined

Value(p, st, c) ==
    LET x == p.cmd[c]
        n == Len(x.srcs)
        srcs == [i \in 1..n |-> [k \in 1..4 |-> Read(p, st, x.srcs[i], k)]]
        all == FlattenSeq([i \in 1..n |->
                  [k \in 1..p.cmd[x.srcs[i].dep].size |-> srcs[i][k]]])
    IN  [k \in 1..x.size |-> Rounded(x.outmod,
            CASE IsLoad(x.op) -> Recall(st.mem, <<x.op = "loadt_2", x.index + k>>)
              [] x.op = "combine" -> all[k]
              [] OTHER -> Compute(x.op, srcs, k))]

Exec(p, st, c) ==
    LET x == p.cmd[c] IN
    CASE x.op = "phi" -> st         \* executed on entry
      [] IsStore(x.op) ->
            [st EXCEPT !.mem = (<<TRUE, x.index + 1>> :> Read(p, st, x.srcs[1], 1)
                                  @@ <<TRUE, x.index + 2>> :> Read(p, st, x.srcs[1], 2)) @@ @]
      [] OTHER -> [st EXCEPT !.reg = (c :> Value(p, st, c)) @@ @]

\* The phi nodes of a block read all their sources before any writes.
EnterBlock(p, st, b, from) ==
    LET phis == { c \in ToSet(p.cmds[b]) : Op(p, c) = "phi" }
        i == CHOOSE k \in DOMAIN p.block[b].preds : p.block[b].preds[k] = from
    IN  [st EXCEPT !.reg =
            [c \in phis |-> [k \in 1..p.cmd[c].size |-> Read(p, st, p.cmd[c].srcs[i], k)]] @@ @]

RECURSIVE RunFrom(_, _, _, _, _)
RunFrom(p, st, b, from, fuel) ==
    LET s == FoldLeft(LAMBDA q, c : Exec(p, q, c), EnterBlock(p, st, b, from), p.cmds[b])
        x == p.block[b]
        holds == Compare(x.cond, Read(p, s, x.args[1], 1), Read(p, s, x.args[2], 1))
    IN  CASE fuel = 0 -> [mem |-> <<>>, out |-> Endless]
          [] fuel # 0 /\ x.cond = "end" ->
                [mem |-> s.mem, out |-> IF x.output = Nil THEN Discarded
                                        ELSE [k \in 1..4 |-> Read(p, s, Source(x.output), k)]]
          [] fuel # 0 /\ x.cond = "always" -> RunFrom(p, s, x.next[1], b, fuel - 1)
          [] OTHER -> RunFrom(p, s, x.next[IF holds THEN 1 ELSE 2], b, fuel - 1)

Run(p, uniforms) ==
    RunFrom(p, [reg |-> <<>>, mem |-> uniforms], Head(p.blocks), Nil, Fuel)
=============================================================================
