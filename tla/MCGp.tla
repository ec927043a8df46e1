-------------------------------- MODULE MCGp --------------------------------
(***************************************************************************)
(* The two halves of the vertex back end, one per behaviour.  Small vertex *)
(* shaders go through every pass up to register allocation: an if, an if   *)
(* with else, one inside another, and loops, with every choice of          *)
(* statements from a pool in their blocks; and loops in SSA form.  Small   *)
(* blocks go through the scheduler to the emitted instructions.            *)
(***************************************************************************)
EXTENDS GpPasses

CONSTANT Blocks         \* blocks for the scheduler

VARIABLES part,                                             \* "passes" or "schedule"
          source, block, dist, queue, processed, moves,     \* of the scheduler
          free, now, restarts, pc
-----------------------------------------------------------------------------
\* Registers before the passes: x has two components, y and i have one.
x == 1
y == 2
i == 3

U(k) == <<"load_uniform", k>>       \* component k of the uniforms
T(k) == <<"load_temp", 4 + k>>      \* component k of the first temporary
C(k) == <<"const", k>>
R(r, c) == <<"load_reg", r, c>>
Op(op, args) == <<op, args>>

Set(r, es) == <<"store_reg", r, es>>
Temp(e) == <<"store_temp", 1, <<e>>>>
Out(k, e) == <<"store_varying", k, <<e>>>>
If(e, dest) == <<"branch_cond", dest, <<e>>>>
Goto(dest) == <<"branch_uncond", dest, <<>>>>

\* A program under construction, and the nodes of an expression: the last one
\* created is its value.
RECURSIVE Build(_, _)
BuildAll(p, es) ==
    FoldLeft(LAMBDA s, e : LET q == Build(s.p, e) IN [p |-> q, kids |-> Append(s.kids, q.next - 1)],
             [p |-> p, kids |-> <<>>], es)
Build(p, e) ==
    CASE e[1] \in {"load_uniform", "load_temp", "const"} -> Create(p, Node(e[1], <<>>, Nil, e[2]))
      [] e[1] = "load_reg" -> Create(p, Node("load_reg", <<>>, e[2], e[3]))
      [] OTHER -> LET s == BuildAll(p, e[2])
                  IN  LinkKids(Create(s.p, Node(e[1], s.kids, Nil, 0)), s.p.next)

Pad(kids) == [k \in 1..4 |-> IF k <= Len(kids) THEN kids[k] ELSE Nil]
BuildRoot(p, b, stmt) ==
    LET s == BuildAll(p, stmt[3])
        a == Create(s.p, Node("const", <<>>, Nil, stmt[2]))
        Insert(q, node) == LinkKids(InsertRoot(q, b, Len(q.roots[b]) + 1, node), q.next)
    IN  CASE stmt[1] = "store_reg" -> Insert(s.p, Node("store_reg", Pad(s.kids), stmt[2], 0))
          [] stmt[1] = "store_temp" ->
                Insert(a, Node("store_temp", Append(Pad(s.kids), s.p.next), Nil, 0))
          [] OTHER -> Insert(s.p, Node(stmt[1], s.kids, Nil, stmt[2]))

Eight(v) == <<v, v, v, v, v, v, v, v>>
OneToEight == <<1, 2, 3, 4, 5, 6, 7, 8>>

Empty(n, size) ==
    LET Each(v) == SubSeq(Eight(v), 1, n)
        regs == Len(size)
    IN  [ blocks |-> SubSeq(OneToEight, 1, n), roots |-> Each(<<>>), phis |-> Each({}),
          preds |-> Each(<<>>), node |-> <<>>, regs |-> SubSeq(OneToEight, 1, regs), size |-> size,
          phys |-> SubSeq(Eight(None), 1, regs), temps |-> 2, next |-> 1, nextReg |-> regs + 1 ]

MaxNodes == 90

\* From the sizes of the registers and the statements of each block; empty
\* statements (<<>>) are left out.
Program(size, code) ==
    LET Add(p, b, stmt) == IF p.next > MaxNodes \/ stmt = <<>> THEN p ELSE BuildRoot(p, b, stmt)
        AddBlock(p, b) == FoldLeft(LAMBDA q, stmt : Add(q, b, stmt), p, code[b])
    IN  FoldLeft(AddBlock, Empty(Len(code), size), [b \in DOMAIN code |-> b])
-----------------------------------------------------------------------------
Start == <<Set(x, <<U(0), U(1)>>), Set(y, <<U(1)>>), Set(i, <<U(0)>>), Temp(U(1))>>
Finish == <<Out(0, Op("add", <<R(x, 0), R(i, 0)>>)), Out(1, R(x, 1)), Out(2, R(y, 0)), Out(3, T(0))>>

Pure == { Set(x, <<R(x, 1), R(x, 0)>>), Set(y, <<Op("add", <<R(y, 0), R(x, 0)>>)>>),
          Set(x, <<R(y, 0), R(i, 0)>>), Set(y, <<T(0)>>) }
Effect == { Temp(R(y, 0)), Out(4, R(x, 1)) }
Small == Op("lt", <<U(0), C(1)>>)

IfElse == { << Start \o <<a, If(Small, 3)>>, <<b, Goto(4)>>, <<c, d>>, <<Set(i, <<C(1)>>)>> \o Finish >> :
                a \in Effect \cup Pure, b \in Pure, c \in Pure, d \in {<<>>} }
SimpleIf == { << Start \o <<If(Small, 3)>>, <<a, b>>, <<Set(y, <<T(0)>>), Temp(R(x, 0)), c>> \o Finish >> :
                a \in Pure, b \in Pure, c \in {Temp(R(x, 1)), Out(4, R(x, 1))} }
Nested == { << Start \o <<If(Small, 6)>>, <<a, If(Op("lt", <<U(1), C(1)>>), 4)>>, <<b, Goto(5)>>, <<c>>,
               <<Set(i, <<R(y, 0)>>), Goto(7)>>, <<a>>, Finish >> :
                a \in Pure, b \in Pure, c \in {Set(x, <<R(y, 0), R(i, 0)>>)} }
Loop == { << Start \o <<a>>, <<If(Op("lt", <<C(1), R(i, 0)>>), 4)>>,
             <<b, c, Set(i, <<Op("add", <<R(i, 0), C(1)>>)>>), Goto(2)>>, Finish >> :
                a \in {Temp(R(y, 0))}, b \in Pure, c \in Pure \cup Effect }
IfInLoop == { << Start \o <<a>>, <<If(Op("lt", <<C(1), R(i, 0)>>), 6)>>,
                 <<b, If(Op("lt", <<R(x, 0), C(1)>>), 5)>>, <<c, d>>,
                 <<Set(i, <<Op("add", <<R(i, 0), C(1)>>)>>), Goto(2)>>, Finish >> :
                a \in {Set(y, <<T(0)>>)}, b \in Pure, c \in {Set(x, <<R(x, 1), R(x, 0)>>)}, d \in Effect }

\* A loop as from_glsl.cpp emits it, with phi nodes for what the loop changes.
\* Register 7 has the value 4 had one round before, 4 and 3 are read behind.
SsaLoop(a, b, read) ==
    LET p == Program(<<2, 1, 2, 1, 2, 1, 1>>,
                << <<Set(1, <<U(0), U(1)>>), Set(2, <<U(0)>>), Temp(U(1))>>,
                   <<If(Op("lt", <<C(1), R(4, 0)>>), 4)>>,
                   <<a, Set(6, <<Op("add", <<R(4, 0), C(1)>>)>>), b, Goto(2)>>,
                   <<Out(0, R(3, 0)), Out(1, R(3, 1)), Out(2, R(read, 0)), Out(3, R(7, 0)), Out(4, T(0))>> >>)
        Join(enter, repeat) == <<[reg |-> enter, pred |-> 1], [reg |-> repeat, pred |-> 3]>>
        Add(q, dest, srcs) == block_insert_phi(q, 2, Phi(dest, srcs))
    IN  Add(Add(Add(p, 3, Join(1, 5)), 4, Join(2, 6)), 7, Join(2, 4))

SsaLoops == { SsaLoop(a, b, r) :
                a \in { Set(5, <<R(3, 1), R(3, 0)>>), Set(5, <<R(4, 0), R(7, 0)>>) },
                b \in { <<>>, Temp(R(6, 0)) }, r \in {2, 4} }

Shaders ==
    { [prog |-> Program(<<2, 1, 1>>, c), start |-> "to_ssa"] :
        c \in IfElse \cup SimpleIf \cup Nested \cup Loop \cup IfInLoop }
    \cup { [prog |-> p, start |-> "if_convert"] : p \in SsaLoops }

\* An if as from_glsl.cpp emits it at the end of a shader.
IfAtEnd ==
    LET p == Program(<<1, 1, 1, 1>>,
                << <<Set(1, <<U(0)>>), Set(2, <<U(1)>>), If(Small, 3)>>, <<Set(3, <<R(1, 0)>>)>>,
                   <<Out(0, R(4, 0)), Out(1, R(1, 0))>> >>)
    IN  block_insert_phi(p, 3, Phi(4, <<[reg |-> 3, pred |-> 2], [reg |-> 2, pred |-> 1]>>))

IfShaders == { [prog |-> IfAtEnd, start |-> "if_convert"] }

\* An element of a temporary array is read, overwritten, and used: from_glsl.cpp
\* emits the read as a uniform load behind the uniforms.
ReadThenWrite ==
    Program(<<1>>, << <<Temp(U(1)), Set(1, <<U(4)>>), Temp(U(0)), Out(0, R(1, 0))>> >>)

ReloadShaders == { [prog |-> ReadThenWrite, start |-> "if_convert"] }

\* Two components of uniforms, four bytes of address space each.
Uniforms == { (0 :> a) @@ (1 :> b) : <<a, b>> \in {<<0, 1>>, <<1, 0>>, <<0, 0>>} }
-----------------------------------------------------------------------------
Families == INSTANCE GpBlocks WITH Fuel <- 1

AllBlocks == Families!AllBlocks
CrowdedBlocks == Families!Crowded

Codegen == INSTANCE GpCodegen WITH Fuel <- 1, MaxRestarts <- 3

schedule_vars == <<source, block, dist, queue, processed, moves, free, now, restarts, pc>>

\* The part that is not in use stays where it starts.
IdlePasses == (prog = (CHOOSE s \in Programs : TRUE).prog) /\ Init
IdleSchedule == (source = CHOOSE p \in Blocks : TRUE) /\ Codegen!Init

GpInit ==
    \/ part = "passes" /\ IdleSchedule /\ Init
    \/ part = "schedule" /\ IdlePasses /\ Codegen!Init

Pass == part = "passes" /\ Next /\ UNCHANGED <<part, schedule_vars>>
Schedule == part = "schedule" /\ Codegen!Next /\ UNCHANGED <<part, vars>>

GpNext == Pass \/ Schedule

GpSpec == GpInit /\ [][GpNext]_<<part, vars, schedule_vars>>
-----------------------------------------------------------------------------
(* The emitted instructions compute what the block means (scheduler.c,     *)
(* codegen.c).                                                             *)
MachineMeaning == part = "schedule" => Codegen!MachineMeaning

(* The units reserved for stores are there (instr.c).                      *)
StoresHaveRoom == part = "schedule" => Codegen!StoresHaveRoom

(* Every block is scheduled after few restarts (scheduler.c,               *)
(* lima_gp_ir_schedule_block).                                             *)
NeverAbandoned == part = "schedule" => Codegen!NeverAbandoned
=============================================================================
