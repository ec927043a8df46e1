---------------------------- MODULE PpHirShaders ----------------------------
(***************************************************************************)
(* Small fragment shaders as from_glsl.cpp emits them: expressions with    *)
(* swizzles, absolute values, rounding and vectors put together; an if with*)
(* and without else; ifs that discard; and loops whose variables trade     *)
(* places from one round to the next, with a break, and with a continue.   *)
(* Each comes with the sets of uses that inserting its commands leaves.    *)
(***************************************************************************)
EXTENDS PpHir

\* Commands by what they compute; the name of one is its place in the program.
Swizzled(c, swz) == [Source(c) EXCEPT !.swz = swz]
Const(values) == Cmd("mov", Len(values), <<[Source(Nil) EXCEPT !.constant = values \o SubSeq(<<0, 0, 0, 0>>, 1, 4 - Len(values))]>>)
Uniform4 == Cmd("loadu_4", 4, <<>>)
Uniform2(index) == [Cmd("loadu_2", 2, <<>>) EXCEPT !.index = index]
LoadTemp == Cmd("loadt_2", 2, <<>>)
StoreTemp(c) == Cmd("storet_2", 4, <<Source(c)>>)
Mov(size, c) == Cmd("mov", size, <<Source(c)>>)
Swizzle(size, c, swz) == Cmd("mov", size, <<Swizzled(c, swz)>>)
Abs(size, c) == Cmd("mov", size, <<[Source(c) EXCEPT !.abs = TRUE]>>)
Round(cmd) == [cmd EXCEPT !.outmod = "round"]
Op1(op, size, c) == Cmd(op, size, <<Source(c)>>)
Op2(op, size, c, d) == Cmd(op, size, <<Source(c), Source(d)>>)
Vector(size, cs) == Cmd("combine", size, [i \in DOMAIN cs |-> Source(cs[i])])
Phi(size, cs) == Cmd("phi", size, [i \in DOMAIN cs |-> Source(cs[i])])

End(output) == [cond |-> "end", next |-> <<>>, args |-> <<>>, output |-> output]
Goto(b) == [cond |-> "always", next |-> <<b>>, args |-> <<>>, output |-> Nil]
If(cond, c, d, b1, b2) ==
    [cond |-> cond, next |-> <<b1, b2>>, args |-> <<Source(c), Source(d)>>, output |-> Nil]
IfTrue(c, b1, b2) ==
    [cond |-> "ne", next |-> <<b1, b2>>, output |-> Nil,
     args |-> <<Source(c), [Source(Nil) EXCEPT !.constant = <<0, 0, 0, 0>>]>>]

\* lima_pp_hir_prog_add_predecessors: in the order of the list.
Preds(ends, b) ==
    FlattenSeq([d \in DOMAIN ends |-> SelectSeq([i \in DOMAIN ends[d].next |->
                    IF ends[d].next[i] = b THEN d ELSE Nil], LAMBDA e : e # Nil)])

\* A program of the commands of each block and how each block ends.
Shader(cmds, ends) ==
    LET all == FlattenSeq(cmds)
        Start(b) == FoldLeft(LAMBDA sum, d : sum + Len(cmds[d]), 0, [d \in 1..(b - 1) |-> d])
        p == [ blocks |-> [b \in DOMAIN cmds |-> b],
               cmds |-> [b \in DOMAIN cmds |-> [i \in DOMAIN cmds[b] |-> Start(b) + i]],
               block |-> [b \in DOMAIN ends |-> [preds |-> Preds(ends, b)] @@ ends[b]],
               cmd |-> all, next |-> Len(all) + 1, nextBlock |-> Len(cmds) + 1 ]
    IN  [p EXCEPT !.cmd = [c \in DOMAIN all |-> [all[c] EXCEPT
            !.cmd_uses = { d \in DOMAIN all : c \in Deps(p, d) },
            !.block_uses = { b \in DOMAIN ends : c \in BlockReads(p, b) }]]]
-----------------------------------------------------------------------------
(* Expressions: three commands on a vector of four and one of two.         *)

Kinds2(V) ==
    { Swizzle(2, c, swz) : c \in V, swz \in {<<2, 1, 1, 1>>, <<2, 2, 1, 1>>} }
    \cup { Abs(2, c) : c \in V } \cup { Round(Mov(2, c)) : c \in V }
    \cup { Op2("add", 2, c, d) : c, d \in V }

Kinds1(V) == { Op2("dot2", 1, c, c) : c \in V } \cup { Swizzle(1, c, <<2, 1, 1, 1>>) : c \in V }

\* 1 and 2 are loaded, 3 and 4 computed; the result is put together of them.
Expressions ==
    { Shader(<< <<Uniform4, Uniform2(1), a, b, StoreTemp(s), d,
                  Vector(4, <<s, 6, 6>>), f>> >>, <<End(8)>>) :
        a \in Kinds2({1, 2}), b \in Kinds2({3}) \cup {Op2("max", 2, 3, 2)}, s \in {3, 4}, d \in Kinds1({4}),
        f \in {Swizzle(4, 7, <<1, 2, 1, 3>>), Swizzle(4, 7, Identity), Op1("neg", 4, 7)} }

\* The value of one branch or the other, and what is made of it.
Joins(A) ==
    { Shader(<< <<Uniform4, Uniform2(1)>>, <<a>>, <<b, Op2("add", 2, 4, 2)>>,
                <<Phi(2, <<3, 5>>), Swizzle(4, 6, s)>> >>,
             <<If(cond, 1, 2, 2, 3), Goto(4), Goto(4), End(7)>>) :
        a \in A, b \in {Abs(2, 2), Op2("add", 2, 1, 2)}, s \in {<<1, 2, 1, 2>>, <<1, 1, 1, 1>>},
        cond \in {"gt", "le", "eq", "ne", "lt", "ge"} }

IfElse == Joins({Mov(2, 2), Abs(2, 2), Op2("add", 2, 1, 2)})

\* One branch turns the two components around and does nothing else.
SwizzledPhis == Joins({Swizzle(2, 1, <<2, 1, 1, 1>>)})

\* A jump out of a branch: the block behind the if is reached from the other
\* branch only, or not at all.
Discards ==
    { Shader(<< <<Uniform4, Uniform2(1), a>>, <<>>, other, <<b>> >>,
             <<If("gt", 1, 3, 2, 3), End(Nil), e, End(1)>>) :
        a \in Kinds2({1, 2}), b \in {Swizzle(4, 1, Identity)}, other \in {<<>>, <<StoreTemp(2)>>},
        e \in {Goto(4), End(1), End(Nil)} }

\* Two variables and a counter; a round makes them x and y, taken from all three.
Loop ==
    { Shader(<< <<Uniform4, Uniform2(1), Const(<<0>>), Const(<<2>>), Const(<<4>>)>>,
                <<Phi(2, <<1, x>>), Phi(2, <<2, y>>), Phi(1, <<3, 10>>)>>, <<>>,
                <<a, Op2("add", 1, 8, 4), StoreTemp(7)>>,
                <<Phi(2, <<6>>), Phi(2, <<7>>), Vector(4, <<12, 13>>)>> >>,
             <<Goto(2), If("ge", 8, 5, 3, 4), Goto(5), Goto(2), End(14)>>) :
        x \in {6, 7, 9}, y \in {6, 9}, a \in {Op2("add", 2, 6, 7), Round(Mov(2, 6))} }

\* A round that is given up halfway for the next one.
Continue ==
    { Shader(<< <<Uniform4, Uniform2(1), Const(<<0>>), Const(<<2>>), Const(<<4>>)>>,
                <<Phi(2, <<1, x, 12>>), Phi(2, <<2, 6, y>>), Phi(1, <<3, 9, 9>>), Op2("add", 1, 8, 4)>>, <<>>,
                <<Op2("dot2", 1, 7, 7), a>>, <<>>, <<Op2("max", 2, 6, 11)>>,
                <<Phi(2, <<6>>), Swizzle(4, 13, <<1, 2, 2, 1>>)>> >>,
             <<Goto(2), If(cond, 8, 5, 3, 4), Goto(7), IfTrue(10, 5, 6), Goto(2), Goto(2), End(14)>>) :
        x \in {6, 7}, y \in {7, 11, 12}, cond \in {"ge", "eq"},
        a \in {Op2("add", 2, 6, 7), Abs(2, 7)} }

-----------------------------------------------------------------------------
(* Operations that are rewritten, on vectors of two: of what copies and    *)
(* modifiers leave of their operands, and with what is made of the result. *)

Unary == {"neg", "sign", "rcp", "sqrt", "rsqrt", "exp2", "log2", "sin", "cos", "tan", "asin", "acos",
          "atan", "exp", "log"}
Binary == {"sub", "pow", "atan2", "min"}

Algebra ==
    { Shader(<< <<Uniform4, Uniform2(1), a, x, b, Vector(4, <<5, 3>>)>> >>, <<End(6)>>) :
        a \in {Swizzle(2, 1, <<3, 1, 1, 1>>), Abs(2, 2)},
        x \in { Op1(op, 2, 3) : op \in Unary } \cup { Op2(op, 2, 3, 2) : op \in Binary }
                \cup { Op2(op, 2, 1, 3) : op \in Binary } \cup {Cmd("lrp", 2, <<Source(3), Source(2), Source(1)>>)},
        b \in {Round(Mov(2, 4)), Swizzle(2, 4, <<2, 1, 1, 1>>)} }

\* Those with one component as a result; truth values are made by comparing.
Scalars ==
    { Shader(<< <<Uniform4, Uniform2(1), a, Op2("ge", 4, 3, 1), x, b, Vector(4, <<6, 2, 6>>)>> >>, <<End(7)>>) :
        a \in {Swizzle(4, 1, <<4, 2, 3, 1>>), Abs(4, 1)},
        x \in { Op2(op, 1, 3, 1) : op \in {"div", "mod", "dot2", "dot3", "dot4"} }
                \cup { Op1(op, 1, 4) : op \in {"any2", "any3", "any4", "all2", "all3", "all4", "not"} },
        b \in {Round(Mov(1, 5)), Op1("neg", 1, 5)} }

\* A block that ends with one: as its output, or as a side of its condition.
Outputs == { Shader(<< <<Uniform4, Op1(op, 4, 1)>> >>, <<End(2)>>) : op \in Unary }

Tested ==
    { Shader(<< <<Uniform4, Uniform2(1), Op1(op, 1, 2)>>, <<StoreTemp(2)>>, <<>>, <<Vector(4, <<2, 3, 3>>)>> >>,
             <<If(cond, 3, 1, 2, 3), Goto(4), Goto(4), End(5)>>) :
        op \in {"neg", "sign", "rcp", "sin", "atan"}, cond \in {"gt", "eq"} }

HirShaders == Algebra \cup Scalars \cup Outputs \cup Tested \cup Expressions \cup IfElse \cup Discards \cup Loop \cup Continue
HirInputs ==
    { [c \in {FALSE} \X (1..4) |-> v[c[2]]] : v \in {<<3, -1, -3, 2>>, <<-2, 3, 1, 5>>} }
=============================================================================
