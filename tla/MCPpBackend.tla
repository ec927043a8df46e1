---------------------------- MODULE MCPpBackend -----------------------------
(***************************************************************************)
(* Four parts of the pixel processor's compiler, one at a time: the passes *)
(* over the high-level IR on small shaders, down to the linear IR; rounds  *)
(* of the register allocator on families of small programs, where two      *)
(* physical registers stand for the six of the GPU, so that three or four  *)
(* virtual registers are enough to run out of places; the combining        *)
(* scheduler on blocks of three instructions over three channels, of every *)
(* kind that linear_to_scheduled.c makes, and of four from the ALU, which  *)
(* end with a branch, the result, or neither; and the peephole optimizer   *)
(* on blocks of four and five instructions that write a register each.     *)
(***************************************************************************)
EXTENDS PpRegalloc

CONSTANTS Shaders,          \* for the passes over the high-level IR
          CombineBlocks,    \* for the combining scheduler
          PeepholeBlocks    \* for the peephole optimizer

VARIABLES part,     \* "hir", "regalloc", "combine" or "peephole"
          hir, pass, work, lir, meaning,                    \* of the passes
          block, step, cur, deps, true_deps, min_deps,      \* of the scheduler
          bundle, max_dist, queue, visited, order,
          job                                               \* of the optimizer

Bundles == INSTANCE PpBundles

AllOf(n) == 0..(n - 1)
Same(mask) == [c \in mask |-> c]

\* Sizes of $0 and of the virtual registers 1, 2, ...
Sizes(seq) == (0 :> 4) @@ seq
OneSize(n, size) == Sizes([r \in 1..n |-> size])

Compute(size, r, S) ==
    [ dest |-> r, mask |-> AllOf(size[r]),
      reads |-> { <<s, c>> \in S \X Component : c < size[s] },
      move |-> FALSE, src |-> NoReg, swz |-> <<>>, load |-> NoReg, store |-> NoReg,
      early |-> FALSE, id |-> 0, via |-> [s \in S |-> s] ]
Load(size, r) == Compute(size, r, {})
Sample(size, r, s) == [Compute(size, r, {s}) EXCEPT !.early = TRUE]
Consume(size, S) == [Compute(size, 0, S) EXCEPT !.dest = NoReg, !.mask = {}]
Mov(r, mask, s, swz) ==
    [ dest |-> r, mask |-> mask, reads |-> { <<s, swz[c]>> : c \in mask },
      move |-> TRUE, src |-> s, swz |-> swz, load |-> NoReg, store |-> NoReg,
      early |-> FALSE, id |-> 0, via |-> s :> s ]
MovAll(size, r, s) == Mov(r, AllOf(size[s]), s, Same(AllOf(size[s])))
MovOne(r, c, s, d) == Mov(r, {c}, s, c :> d)

Program(size, code) ==
    [ size |-> size, beginning |-> [r \in DOMAIN size |-> FALSE],
      reg_alloc |-> Cardinality(DOMAIN size) - 1, temps |-> 0,
      code |-> [n \in DOMAIN code |-> [code[n] EXCEPT !.id = n]] ]

ReadsDefined(p) ==
    \A n \in DOMAIN p.code : \A e \in p.code[n].reads :
        \E m \in 1..(n - 1) : p.code[m].dest = e[1] /\ e[2] \in p.code[m].mask
-----------------------------------------------------------------------------
(* Registers of four components, copied as a whole: every program that     *)
(* computes four values, each a load, a copy or an operation on those      *)
(* before it, where the first register may be computed again.              *)
WholeKinds(size, r) ==
    LET V == 1..(r - 1) IN
    UNION { {Load(size, d)} \cup { MovAll(size, d, s) : s \in V \ {d} }
                \cup { Compute(size, d, {s, t}) : s, t \in V } : d \in {1, r} }

WholeRegs ==
    LET size == OneSize(4, 4) IN
    { p \in { Program(size, <<Load(size, 1), a, b, c, MovAll(size, 0, r)>>) :
                  a \in WholeKinds(size, 2), b \in WholeKinds(size, 3),
                  c \in WholeKinds(size, 4), r \in 3..4 } :
        ReadsDefined(p) }
-----------------------------------------------------------------------------
(* Registers of one and two components, copied component by component in   *)
(* every way.                                                              *)
AllMoves(size, d, s) ==
    UNION { { Mov(d, mask, s, swz) : swz \in [mask -> AllOf(size[s])] } :
                mask \in SUBSET AllOf(size[d]) \ {{}} }

PartKinds(size, D, V) ==
    UNION { {Load(size, d)} \cup { Compute(size, d, {s}) : s \in V }
                \cup UNION { AllMoves(size, d, s) : s \in V \ {d} } : d \in D }

Results(size, V) ==
    { Compute(size, 0, {r, s}) : r, s \in V } \cup { MovAll(size, 0, r) : r \in V }

PartRegs(size) ==
    { p \in { Program(size, <<Load(size, 1), a, b, f>>) :
                  a \in PartKinds(size, {1, 2}, {1}),
                  b \in PartKinds(size, {2, 3}, {1, 2}), f \in Results(size, 1..3) } :
        ReadsDefined(p) }

OneComponentMoves(P2) ==
    { p \in P2 : \A n \in Moves(p) : Cardinality(p.code[n].mask) = 1 }
-----------------------------------------------------------------------------
(* Chains of copies under pressure.  The registers 1..clique interfere with*)
(* each other; `clique' is then computed again `pairs' times, copied to a  *)
(* register A and on to a register B, which is accumulated.                *)
Chains(clique, pairs) ==
    LET size == OneSize(clique + 1 + 2 * pairs, 4)
        acc  == clique + 1
        A(n) == clique + 2 * n
        B(n) == clique + 2 * n + 1
        Link(n) == <<Load(size, clique), MovAll(size, A(n), clique),
                     MovAll(size, B(n), A(n)), Compute(size, acc, {acc, B(n)})>>
        chain[n \in 0..pairs] ==
            IF n = 0
            THEN [r \in 1..clique |-> Load(size, r)]
                     \o <<Consume(size, 1..clique), Load(size, acc)>>
            ELSE chain[n - 1] \o Link(n)
    IN  Program(size, chain[pairs] \o <<MovAll(size, 0, acc)>>)

\* Programs whose larger registers have to be at the beginning of their place.
WithBeginning(P2) ==
    { [p EXCEPT !.beginning = [r \in DOMAIN p.size |-> r # 0 /\ p.size[r] > 1]] : p \in P2 }

\* Three registers that are needed once more, one by one, while there is none
\* left for the third; one is read in the texture slot.
Crowds ==
    LET size == OneSize(4, 4) IN
    { Program(size, <<Load(size, 1), Load(size, 2), Load(size, 3)>> \o uses \o <<MovAll(size, 0, 4)>>) :
        uses \in { <<Compute(size, 4, {a}), k, Compute(size, 4, {4, c})>> : a, c \in 1..3,
                       k \in { Compute(size, 4, {4, b}) : b \in 1..3 } \cup { Sample(size, 4, b) : b \in 1..3 } } }

\* PrecoloredStays does not hold of this program, nor does QueuesMatch: 2 is
\* coalesced into 1, the copy to 2 can not be coalesced while 4 is there, and
\* freeze_moves then pushes 1 twice, once as the other register of that copy.
\* Every register interferes with $0, so its degree drops once too often.
PushedTwice ==
    LET size == Sizes(<<1, 1, 1, 4>>) IN
    { Program(size, <<Load(size, 0), Load(size, 4), Load(size, 3), Consume(size, {4}),
                      MovOne(2, 0, 3, 0), MovOne(1, 0, 2, 0), Consume(size, {1})>>) }

\* For when the allocator is not in use.
Idle == Program(Sizes(<<1>>), <<Load(Sizes(<<1>>), 1)>>)

IdlePrograms == {Idle}

MCPrograms ==
    LET parts == OneComponentMoves(PartRegs(Sizes(<<2, 1, 2>>)))
    IN  WholeRegs \cup {Chains(3, 1), Chains(3, 2)} \cup Crowds \cup parts \cup WithBeginning(parts)
-----------------------------------------------------------------------------
(* Blocks for the scheduler.                                               *)

Reg(chans) == [chans |-> chans, consts |-> <<>>]
Imm(values) == [chans |-> {}, consts |-> values]
Instr(op, dest, srcs) == [op |-> op, dest |-> dest, srcs |-> srcs, combine |-> FALSE]

\* Two multiplications that have to run in parallel.
Exchange ==
  LET mul(from, to, slot) ==
        [Bundles!sched_instr(Instr("mul", {to}, <<Reg({from})>>)).ops[5] EXCEPT !.possible = {slot}]
      one == Bundles!sched_instr(Instr("mul", {"b"}, <<Reg({"a"})>>))
  IN  [one EXCEPT !.ops = 4 :> mul("b", "a", 4) @@ 5 :> mul("a", "b", 5),
                  !.slots[4] = [reads |-> {"b"}, writes |-> {"a"}]]

Linear == {
  Instr("add", {"a"}, <<Reg({"b"}), Reg({"c"})>>),
  Instr("mul", {"b"}, <<Reg({"a"}), Reg({"a"})>>),
  Instr("mov", {"c"}, <<Reg({"a"})>>),
  Instr("rcp", {"a"}, <<Reg({"a"})>>),
  Instr("select", {"c"}, <<Reg({"b"}), Reg({"b"}), Reg({"a"})>>),
  Instr("loadu", {"b"}, <<>>),
  Instr("loadt", {"a"}, <<Reg({"c"})>>),
  Instr("loadv", {"b"}, <<>>),
  Instr("texld", {"c"}, <<Reg({"a"})>>),
  Instr("storet", {}, <<Reg({"a"})>>),
  Instr("add", {"b"}, <<Reg({"b"}), Imm(<<"k1">>)>>),
  Instr("mov", {"c"}, <<Imm(<<"k3">>)>>),
  Instr("max", {"a", "c"}, <<Reg({"a", "c"}), Imm(<<"k2", "k3">>)>>) }

Kinds == {Bundles!sched_instr(x) : x \in Linear} \cup {Exchange}

\* For when the schedulers are not in use.
IdleBlocks == {<<Exchange>>}

\* Kinds that leave each other most room.
Roomy == { x \in Kinds : DOMAIN x.ops \subseteq Bundles!Alu } \ {Exchange}

Ends ==
  {Bundles!sched_instr(x) : x \in {Instr("branch_gt", {}, <<Reg({"a"}), Reg({"b"})>>),
                           Instr("branch", {}, <<>>), Instr("fb_color", {}, <<Reg({"c"})>>)}}

\* A store to a temporary and one to the frame buffer that do not depend on
\* each other would meet in one slot, of which nothing keeps them.
OneStore(b) == Cardinality({k \in DOMAIN b : 9 \in DOMAIN b[k].ops}) < 2 \/ b[3].store

MCChans == {"a", "b", "c"}
MCCombineBlocks == {b \in Kinds \X Kinds \X (Kinds \cup Ends) : OneStore(b)}
                    \cup (Roomy \X Roomy \X Roomy \X Roomy)

Combining == INSTANCE PpCombine
    WITH Chans <- MCChans, Blocks <- CombineBlocks, ConstSize <- 2, pc <- step

ASSUME CombiningAssumption == Combining!CombineAssumption
ASSUME StoresAndBranchesApart == \A b \in CombineBlocks : Combining!EndsApart(b)
-----------------------------------------------------------------------------
(* Blocks for the peephole optimizer: the first instruction computes a, the*)
(* next b, and so on, from what is there; x and, at the end, the last      *)
(* result are other blocks' business.                                      *)

Of1(op, d, r) == Instr(op, {d}, <<Reg({r})>>)
Of2(op, d, r, s) == Instr(op, {d}, <<Reg({r}), Reg({s})>>)
WithImm(op, d, r, k) == Instr(op, {d}, <<Reg({r}), Imm(<<k>>)>>)
Choose(d, r, s, if) == Instr("select", {d}, <<Reg({r}), Reg({s}), Reg({if})>>)
NoDest(op, regs) == Instr(op, {}, [k \in DOMAIN regs |-> Reg({regs[k]})])

Firsts == {Instr("loadv", {"a"}, <<>>), Instr("loadu", {"a"}, <<>>), Of1("loadu", "a", "x"),
           Of1("texld", "a", "x"), Of2("mul", "a", "x", "x"), Of2("gt", "a", "x", "x")}

Fours ==
  Firsts
  \X {Of2("add", "b", "a", "x"), Of2("mul", "b", "a", "a"), Of1("mov", "x", "a"), Of1("loadu", "b", "a"),
      Of1("texld", "b", "a"), Choose("b", "x", "x", "a"), Instr("loadv", {"b"}, <<>>)}
  \X {Of2("add", "c", "a", "b"), Of2("mul", "c", "b", "b"), Choose("c", "x", "b", "a"), Choose("c", "x", "a", "b"),
      Of1("texld", "c", "b"), Of1("rcp", "c", "b"), Of1("loadu", "c", "b"), Of2("add", "c", "x", "b")}
  \X {NoDest("fb_color", <<"c">>), NoDest("branch_gt", <<"a", "c">>), NoDest("storet", <<"c">>),
      Of2("mul", "d", "a", "c"), Of2("add", "d", "a", "c"), Of1("texld", "d", "c")}

Fives ==
  Firsts
  \X {Of2("add", "b", "a", "x"), Instr("loadv", {"b"}, <<>>), Of2("mul", "b", "x", "x"),
      Of1("texld", "b", "a"), Of2("gt", "b", "a", "x")}
  \X {Of2("add", "c", "a", "b"), Choose("c", "x", "b", "a"), Of1("texld", "c", "b"),
      WithImm("mul", "c", "a", "k1"), Of1("loadu", "c", "b")}
  \X {Of2("add", "d", "b", "c"), Of2("mul", "d", "a", "c"), Choose("d", "x", "c", "b"),
      Of1("texld", "d", "c"), Of1("mov", "x", "c"), WithImm("add", "d", "c", "k2")}
  \X {NoDest("fb_color", <<"d">>), NoDest("branch_gt", <<"a", "d">>), Of2("add", "e", "c", "d")}

Takes(instr) == UNION {instr.srcs[k].chans : k \in DOMAIN instr.srcs}
OpsOf(b, r) == {b[k].op : k \in {j \in DOMAIN b : b[j].dest = r}}

\* What the optimizer gets wrong is left out: a condition that is loaded, that
\* two selects have, or that is computed where there is a varying or a sample;
\* a sample that is an offset; an offset that is written again; a varying that
\* is sampled at and used otherwise.
WithinRules(b) ==
  /\ \A k \in {j \in DOMAIN b : b[j].op = "select"} :
       LET if == b[k].srcs[3].chans IN
       /\ OpsOf(b, if) \cap {"loadu", "texld"} = {}
       /\ \A j \in DOMAIN b \ {k} : b[j].op = "select" => b[j].srcs[3].chans # if
       /\ OpsOf(b, if) # {} => \A j \in DOMAIN b : b[j].op \notin {"loadv", "texld"}
  /\ \A k \in {j \in DOMAIN b : b[j].op = "loadu"} :
       LET offset == Takes(b[k]) IN
       "texld" \notin OpsOf(b, offset) /\ \A j \in DOMAIN b : j > k => b[j].dest # offset
  /\ \A k \in {j \in DOMAIN b : b[j].op = "loadv"} :
       LET ops == {b[j].op : j \in {u \in DOMAIN b : b[k].dest \subseteq Takes(b[u])}} IN
       "texld" \in ops => ops = {"texld"}

MCPeepholeBlocks ==
  {[k \in DOMAIN b |-> Bundles!sched_instr(b[k])] : b \in {f \in Fours \cup Fives : WithinRules(f)}}

Peephole == INSTANCE PpPeephole
    WITH Chans <- {"a", "b", "c", "d", "e", "x"}, Blocks <- PeepholeBlocks, ConstSize <- 2,
         pc <- step, Outs <- {"d", "e"}
-----------------------------------------------------------------------------
Families == INSTANCE PpHirShaders WITH Fuel <- 24

AllShaders == Families!HirShaders
SwizzledPhis == Families!SwizzledPhis

Hir == INSTANCE PpHirLower
    WITH prog <- hir, Fuel <- 24, Inputs <- Families!HirInputs
-----------------------------------------------------------------------------
hir_vars == <<hir, pass, work, lir, meaning>>
combine_vars ==
    <<block, step, cur, deps, true_deps, min_deps, bundle, max_dist, queue, visited, order, job>>

\* The parts that are not in use stay as they are.
IdleHir == hir = <<>> /\ pass = "idle" /\ work = <<>> /\ lir = <<>> /\ meaning = <<>>
IdleRegalloc == source = (CHOOSE p \in Programs : TRUE) /\ Init
IdleCombine ==
    /\ block = <<>> /\ step = "idle" /\ cur = 0 /\ deps = {} /\ true_deps = {} /\ min_deps = {}
    /\ bundle = <<>> /\ max_dist = <<>> /\ queue = {} /\ visited = {} /\ order = <<>>

BackendInit ==
    \/ part = "hir" /\ IdleRegalloc /\ IdleCombine /\ job = <<>> /\ Hir!Init
    \/ part = "regalloc" /\ IdleHir /\ IdleCombine /\ job = <<>> /\ Init
    \/ part = "combine" /\ IdleHir /\ IdleRegalloc /\ Combining!Init /\ job = <<>>
    \/ part = "peephole" /\ IdleHir /\ IdleRegalloc /\ Peephole!PeepholeInit

Compile == part = "hir" /\ Hir!Next /\ UNCHANGED <<part, vars, combine_vars>>
Allocate == part = "regalloc" /\ Next /\ UNCHANGED <<part, hir_vars, combine_vars>>
Schedule == part = "combine" /\ Combining!Next /\ UNCHANGED <<part, hir_vars, vars, job>>
Optimize == part = "peephole" /\ Peephole!PeepholeNext /\ UNCHANGED <<part, hir_vars, vars>>

BackendNext == Compile \/ Allocate \/ Schedule \/ Optimize

backend_vars == <<part, vars, hir_vars, combine_vars>>

\* The allocator, once called, runs.
BackendSpec ==
    BackendInit /\ [][BackendNext]_backend_vars /\ WF_backend_vars(Allocate)
-----------------------------------------------------------------------------
(* The allocator ends (or reaches the bound on temporaries).               *)
RoundTerminates ==
    (part = "regalloc") ~>
        (pc \in {"done", "failed"} \/ (pc = "spill" /\ prog.temps >= MaxTemps))

(* Every pass over the high-level IR, and the lowering, keep what the      *)
(* shader computes (copy_propagation.c, reg_narrow.c, phi_elim.c,          *)
(* reorder.c, lower.c).                                                    *)
ShaderMeaning == part = "hir" => Hir!ShaderMeaning

(* The merged instructions compute what the block computed, and find each  *)
(* constant where they look for it (combine_scheduler.c, instr_combine.c); *)
(* so do the ones the peephole optimizer leaves, in every order the graph  *)
(* allows, and no cycle or unexpected instruction stops it (peephole.c).   *)
CombinePreserves ==
    /\ part = "combine" => Combining!CombinePreserves
    /\ part = "peephole" => Peephole!PeepholePreserves

(* The dependence graph stays in step with the list while instructions are *)
(* merged (combine_deps).                                                  *)
EdgesFollowList == part = "combine" => Combining!EdgesFollowList
=============================================================================
