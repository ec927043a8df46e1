---------------------------- MODULE MCPpLiveness ----------------------------
(***************************************************************************)
(* Liveness on every control-flow graph of a few shapes, with every        *)
(* assignment of small code fragments to the blocks.  v and w are two      *)
(* register components, o stands for the output register.                  *)
(***************************************************************************)
EXTENDS PpLiveness, FiniteSets, TLC

CONSTANTS v, w, o

Components == {v, w, o}
OutputComp == {o}

Op(reads, writes) == [read |-> reads, write |-> writes]

Loadv   == [s \in {"varying"} |-> Op({}, {v})]
Copywv  == [s \in {"vector_mul"} |-> Op({v}, {w})]
Outw    == [s \in {"combine"} |-> Op({w}, {o})]
\* v is read by the multiplier and written by the adder of one instruction
MulAdd  == [s \in {"vector_mul", "vector_add"} |->
                IF s = "vector_mul" THEN Op({v}, {w}) ELSE Op({w}, {v})]

Fragments == { <<>>, <<Loadv>>, <<Copywv>>, <<MulAdd, Copywv>> }

(* The least solution of the dataflow equations, by iteration from the     *)
(* empty set.  A solution is computed as the set of pairs (block,          *)
(* component) live at the end of the blocks; a path to a use crosses a     *)
(* block at most once.  (A value bound by \in is computed only once.)      *)
LiveAt(p, b, out) ==
    LET n == Len(p.code[b])
        f[m \in 1..(n + 1)] ==
            IF m = n + 1 THEN out
            ELSE UNION {Needed(p.code[b][m], live) : live \in {f[m + 1]}}
    IN  f

ExitOf(T, b) == { c \in Comp : <<b, c>> \in T }

EntryOf(p, T, b) == UNION {LiveAt(p, b, out)[1] : out \in {ExitOf(T, b)}}

StepSolution(p, T) ==
    UNION { {b} \X ((IF b \in p.end THEN Output ELSE {})
               \cup UNION {EntryOf(p, T, p.succs[b][j]) : j \in DOMAIN p.succs[b]}) :
            b \in Blocks(p) }

LeastSolution(p) ==
    LET it[n \in 0..(p.num_blocks + 1)] ==
            IF n = 0 THEN {}
            ELSE UNION {StepSolution(p, T) : T \in {it[n - 1]}}
    IN  CHOOSE S \in { [b \in Blocks(p) |-> LiveAt(p, b, ExitOf(T, b)) @@ <<>>] @@ <<>> :
                          T \in {it[p.num_blocks + 1]} } : TRUE


\* The graph with the given successor lists; predecessors in block order,
\* as lima_pp_hir computes them.  The last block is the end block.
Graph(succs, code) ==
    LET n == Len(succs)
        Before(b) == SelectSeq([a \in 1..n |-> a - 1],
                               LAMBDA a : \E j \in DOMAIN succs[a + 1] :
                                              succs[a + 1][j] = b)
        p == [ num_blocks |-> n,
               end   |-> {n - 1},
               succs |-> [b \in 0..(n - 1) |-> succs[b + 1]],
               preds |-> [b \in 0..(n - 1) |-> Before(b)],
               code  |-> [b \in 0..(n - 1) |-> code[b + 1]] ]
    IN  p @@ [solution |-> LeastSolution(p)]

\* All codes of n blocks whose end block writes the output last.
Codes(n) == { [b \in 1..n |-> IF b = n THEN c[b] \o <<Outw>> ELSE c[b]] :
                  c \in [1..n -> Fragments] }

All(succs) == { Graph(succs, c) : c \in Codes(Len(succs)) }

\* if/else
Diamond == << <<1, 2>>, <<3>>, <<3>>, <<>> >>
\* a loop whose condition is tested in its header and leaves by a return
While   == << <<1>>, <<2, 3>>, <<1>>, <<>> >>
\* the same with a break: lima_pp_hir gives the break a block of its own,
\* and orders the blocks in reverse postorder
Break   == << <<1>>, <<3, 2>>, <<1>>, <<4>>, <<>> >>

SmallGraphs == All(Diamond) \cup All(While) \cup All(Break)

\* Two conditionals in sequence, each choosing between two ways to compute
\* w from v.
TwoDiamonds ==
    { Graph(<< <<1, 2>>, <<3>>, <<3>>, <<4, 5>>, <<6>>, <<6>>, <<>> >>,
            << <<Loadv>>, <<Copywv>>, <<MulAdd>>, <<Copywv>>, <<Copywv>>,
               <<MulAdd>>, <<Outw>> >>) }
=============================================================================
