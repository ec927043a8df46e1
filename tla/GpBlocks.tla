------------------------------ MODULE GpBlocks ------------------------------
(***************************************************************************)
(* Small blocks for the scheduler of the geometry processor: values used   *)
(* near and far, registers and temporaries, branches, complex functions,   *)
(* and more values than the units hold.                                    *)
(***************************************************************************)
EXTENDS GpDeps

\* An expression node: its name is its place in the list.
U(c) == [Node("load_uniform", <<>>, Nil, <<0, c, Nil>>) EXCEPT !.succ = Nil]
U1(c) == Node("load_uniform", <<>>, Nil, <<1, c, Nil>>)
A(k) == Node("load_attribute", <<>>, Nil, <<k, 0>>)
R(r, c) == Node("load_reg", <<>>, r, c)
F(op, kids) == Node(op, kids, Nil, 0)

Pad(kids) == [k \in 1..4 |-> IF k <= Len(kids) THEN kids[k] ELSE Nil]
Out(k, kids) == Node("store_varying", Pad(kids), Nil, k)
Set(r, kids) == Node("store_reg", Pad(kids), r, 0)
Temp(kids, addr) == Node("store_temp", Append(Pad(kids), addr), Nil, 0)
If(n) == Node("branch_cond", <<n>>, Nil, 2)

\* Registers: 1 has two components, and 3 shares a place with it, so that no block
\* here reads 1 once it has written 3.
Empty == [ blocks |-> <<Blk>>, roots |-> <<<<>>>>, phis |-> <<{}>>, preds |-> <<<<>>>>,
           node |-> <<>>, regs |-> <<1, 2, 3>>, size |-> <<2, 1, 1>>, phys |-> <<<<0, 0>>, <<1, 0>>, <<0, 0>>>>,
           temps |-> 1, next |-> 1, nextReg |-> 4 ]

Block(nodes, roots) ==
    LET Expr(p, n) == LinkKids(Create(p, n), p.next)
        Root(p, r) == LinkKids(InsertRoot(p, Blk, Len(p.roots[Blk]) + 1, r), p.next)
    IN  FoldLeft(Root, FoldLeft(Expr, Empty, nodes), roots)

\* The complex functions, as lower.c makes them.
Impl(nodes, op, x) ==
    nodes \o << F("complex2", <<x>>), F(op, <<x>>), F("complex1", <<Len(nodes) + 2, Len(nodes) + 1, x>>) >>

Sources == <<A(0), A(1), U(0), U(1), R(1, 0), U1(0)>>
\* A value used near and far, or twice: moves.
Chains == { Block(Sources \o <<F("mul", <<1, 6>>), F(f, <<7, i>>), F("min", <<8, j>>), F(g, <<9, k>>)>>,
                  <<Out(0, <<10, l>>)>>)
            : f \in {"add", "lt"}, g \in {"add", "mul"}, i \in {1, 3, 5}, j \in {2, 6, 7}, k \in {2, 4, 7, 8}, l \in {7, 8} }

\* Registers, with a component of another in the same place; a temporary; a branch.
Stored == { Block(<<A(0), U(0), R(1, 0), R(r, c), F("add", <<3, 1>>), F("mul", <<4, i>>), F("neg", <<5>>)>>, roots)
            : r \in {1, 2}, c \in {0, 1}, i \in {2, 5},
              roots \in { <<Set(1, <<6, 5>>), Out(0, <<7>>)>>, <<Set(1, <<5>>), Set(1, <<6, 7>>)>>,
                          <<Out(1, <<5>>), Set(1, <<6>>), If(7)>>, <<Temp(<<5, 6>>, 7), Out(0, <<5>>)>>,
                          <<Temp(<<6>>, 5), Temp(<<5>>, 7), If(6)>>, <<Set(2, <<6>>), Set(1, <<7>>), Out(0, <<5>>)>> } }

Reused == { Block(<<R(1, 0), A(0), U(0), R(3, 0), F("add", <<1, 2>>), F("mul", <<5, 3>>), F("mul", <<2, 3>>), F(f, <<4, i>>)>>,
                  <<Out(1, <<j>>), Set(3, <<7>>), Out(0, <<8>>)>>)
            : f \in {"min", "mul"}, i \in {2, 3, 7}, j \in {5, 6} }

\* Three components at once, and what goes into two others.
Wide == { Block(<<A(0), U(0), F("mul", <<1, 2>>), F("add", <<3, 2>>), F("mul", <<4, i>>), F("add", <<3, 2>>),
                  F("neg", <<4>>), F("neg", <<1>>), F("mul", <<1, 2>>), F(f, <<8, 1>>), F("mul", <<9, 2>>)>>,
                <<Out(1, <<5, 6, 7>>), Out(0, <<10, 11>>)>>)
          : f \in {"add", "mul"}, i \in {1, 2} }

\* Complex functions: values that are needed too far away for moves.
Once == { Block(Impl(Sources \o <<F("neg", <<5>>), F("add", <<5, i>>)>>, op, 8)
                  \o <<F(f, <<j, 11>>)>>, <<Out(0, <<12>>), Out(1, <<11, 7>>)>>)
          : op \in {"rcp_impl", "log2_impl"}, f \in {"add", "lt"}, i \in {1, 2, 3}, j \in {3, 5, 8} }
Exps == { Block(Impl(Sources \o <<F("add", <<i, 3>>), F("preexp2", <<7>>)>>, "exp2_impl", 8)
                  \o <<F("neg", <<j>>), F(f, <<11, 12>>)>>, <<Out(0, <<13>>), Out(1, <<k>>)>>)
          : f \in {"mul", "min"}, i \in {1, 5}, j \in {7, 8, 11}, k \in {7, 8, 11} }
Twice == { Block(Impl(Impl(Sources \o <<F("mul", <<2, 3>>), F("lt", <<7, 2>>), F(f, <<3>>)>>, "rcp_impl", 8)
                        \o <<F(g, <<3, i>>)>>, "rcp_impl", 9),
                 <<Out(0, <<16, j>>), Out(1, <<13, 12>>)>>)
           : f \in {"neg", "floor"}, g \in {"lt", "add"}, i \in {7, 8}, j \in {7, 8} }

AllBlocks == Chains \cup Stored \cup Reused \cup Wide \cup Once \cup Exps \cup Twice

\* A store of a temporary takes the complex unit; what cannot be next to the
\* min goes through the other units.
Crowded == { Block(<<A(0), U(0), F("select", <<1, 2, 1>>), F("min", <<1, 2>>), F("lt", <<1, 2>>), F("floor", <<1>>)>>,
                   <<Temp(<<3, 4, 5, 6>>, 1)>>) }
=============================================================================
