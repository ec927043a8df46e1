# A TLA+ model of the lima shader compiler

The lima compiler turns a pair of GLSL ES shaders into programs for the two
processors of a Mali-200/400: the *PP* runs fragment shaders, the *GP* runs vertex
shaders. Its own code is in `src/lima` (about 40 000 lines of C and C++); the
front end in `src/glsl` and `src/mesa` is Mesa's, with small changes.

All paths in this file are relative to `src/lima` unless they start with `src/`.

The compiler is one sequential program: nothing runs concurrently, nothing is
persisted, no message is lost. What makes it hard to get right is different:
work lists that revisit what they did, index variables and sets that change
while they are walked, fixed buffers without checks, graphs that must follow the
program they describe through every rewrite, and orders that several passes rely
on without saying so. Those are the behaviours modelled here. Most properties
have one of two forms: *what a pass makes of a program means what the program
meant*, and *what the pass keeps on the side (queues, graphs, bitsets) agrees
with what it is about, at every step*.

Contents: [1 the system](#1-the-system), [2 plan](#2-plan),
[3 modules and code](#3-modules-and-code), [4 runs](#4-runs),
[5 proofs](#5-proofs), [6 disagreements](#6-disagreements-between-code-and-comments),
[7 what is not modelled](#7-what-is-not-modelled).

## 1 The system

### Pipeline

`shader/shader.cpp` calls everything, in this order; the results of the passes
of both back ends are ignored.

    source text
      parse      glcpp, Mesa parser, linker, lowering            src/glsl
      optimize   Mesa's passes until nothing changes             src/glsl
      lower      lower_conditions, lower_scalar_args, lower_output_writemask
      symbols    convert_symbols, lima_shader_symbols_pack       symbols/
      PP:  pp_hir from GLSL; validate, dce, copy propagation, cfold, xform in a loop
           split_crit_edges, reorder, fill_fs_info, convert_to_cssa
           pp_hir -> pp_lir (lower.c)
           calc_dep_info, peephole, schedule (register pressure), delete_dep_info
           regalloc  (liveness inside, once per round)
           calc_dep_info, schedule (combining), delete_dep_info
           codegen
      GP:  gp_ir from GLSL; if_convert, dce, reg_eliminate, const_fold, phi elimination
           liveness, regalloc, lower, lower_consts
           dependencies, critical path, schedule, codegen
      mbs        container file                                  mbs/

The components share the program they rewrite and little else. What crosses
between them, and what the models therefore compare:

* *symbols → both back ends → run time*: `symbol->offset` and `stride`, in floats,
  and the total sizes. Written by `pack.c`, read by `from_glsl.cpp` of either back
  end; the two stages have to agree on varyings.
* *liveness → register allocation*: `live_out` of every instruction.
* *dep_info → the three schedulers and the peephole pass*: `preds`, `succs`,
  `true_preds`, `true_succs`, `min_preds`, `min_succs` of every instruction; the
  merging code updates them.
* *priority queue ↔ schedulers*: a comparison callback that reads the state of the
  schedule.
* `fixed_queue`, `ptrset`, `priority_queue` are used by nearly every pass.

### Components

| component | state | operations | what is hard | what makes it correct |
|---|---|---|---|---|
| work queue `fixed_queue.c` | a ring and two indices | create, is_empty, push, pop | no check for a full ring; one spare slot; wrap | a FIFO, as long as the caller keeps to the capacity |
| hash set `ptrset.c` | open addressing table, `size`, `total_size` | add, remove, contains, union, first, empty, iterate | removed slots, growth, iteration while removing | a set; every probe ends |
| priority queue `priority_queue.c` | binary heap, its buffer | push, pull | sift loops, buffer grown at powers of two | pull returns a greatest element, each once |
| PP liveness `pp_lir/liveness.c` | live-in/out of blocks, `live_out` of instructions, ring | one scan, then a work list | shared index variable, ring of `num_blocks`, slots of one instruction run in stages | equals the solution of the dataflow equations |
| PP register allocator `pp_lir/regalloc.c` | two interference matrices, three queues, moves, select stack | simplify, coalesce, freeze, select spill, assign, rewrite, spill | component-wise interference and aliases, degrees kept incrementally | the program means the same; a round ends; queues and states agree |
| PP dependences `pp_lir/dep_info.c` | the graph on instructions | add_dep_instr, calc_min_dep_info, delete | early exits of the backward scan; transitive reduction | every conflict is ordered |
| PP schedulers `pp_lir/abstract_scheduler.c`, `simple_`, `reg_pressure_` | work list, visited marks, list being rebuilt | schedule_block and two policies | readiness, priorities that read the list | same instructions, conflicts in order |
| PP conversion to instruction words `pp_lir/linear_to_scheduled.c`, `compress_const.c` | ten slots, two constant registers | one case per operation | slots run in parallel in pairs; constants in eight places | every operation has the slot and the constants it needs |
| PP merging `pp_lir/instr_combine.c`, `combine_scheduler.c` | as above, with the graph | combine_before, combine_after, combine_indep; insertion | moving operations between slots past others; remapping constants; graph edges | merged instructions mean the same |
| PP peephole `pp_lir/peephole.c` | the block and its graph | rewrites to pipeline registers | changes the graph while it walks it | program means the same |
| PP LIR structures, code generation | lists, registers; bit fields, branch offsets | constructors, encode | branch offsets by instruction size | branches reach their block |
| PP HIR control flow `pp_hir/cfg_traverse.c`, `reorder.c`, `dominance.c`, `phi_elim.c` | blocks, dominator tree, frontiers, phi nodes | traverse, reorder, dominators, split critical edges, to CSSA | predecessors of deleted blocks; parallel copies | dominators as defined; phi values preserved |
| PP HIR passes `dce.c`, `copy_propagation.c`, `cfold.c`, `xform.c` | SSA commands | rewrite until stable | uses kept while commands go | meaning preserved |
| PP HIR to LIR `pp_hir/lower.c` | both programs | per command; `convert_branch` | order of blocks and fall-through | control flow preserved |
| GP liveness and allocation `gp_ir/liveness.c`, `regalloc.c` | bitsets, ring, interference lists | work list; colouring with spilling | ring filled to the brim; emptiness read as "no work" | as for PP |
| GP scheduling `gp_ir/dep_info.c`, `scheduler.c`, `scheduler_helper.c` | nodes with distances, instruction slots | list scheduling, moves | minimum and maximum distances; slots shared | every distance kept |
| GP SSA `to_ssa.c`, `phi_elim.c`, `if_conversion.c`, `dominance.c` | phi nodes, registers | insert, rename, eliminate, convert branches | lost copies, parallel phis | meaning preserved |
| GP simplification and lowering `const_fold.c`, `lower.c`, `lower_consts.c`, `dce.c`, `reg_eliminate.c` | expression nodes | node-local rewrites, dead nodes | nodes with several parents | meaning preserved |
| symbol packing `symbols/pack.c`, `symbols.c` | free rows per column, offsets, sizes, constants | pack_std, pack_align, pack_attr, add constants | units (rows, floats), unsigned differences, nested offsets | every element its own floats; stages agree |
| import `pp_hir/from_glsl.cpp`, `gp_ir/from_glsl.cpp` | IR under construction | one visitor per node; offsets of dereferences | offset rules per packing | as symbol packing |
| GLSL lowering `lower/` | none | three tree visitors | - | local |
| driver `shader/` | the shader | parse, optimize, compile | order of passes | - |
| export, (dis)assemblers, MBS, standalone | none | pure input and output | - | - |
| vectors, bit sets, half floats, lists | data | pure | - | - |
| Mesa front end | third-party | | | |

The hazards of the code, each at its line and with the properties aimed at it,
are listed in `PROJECT.json`.

## 2 Plan

The back end of the fragment processor came first: it is the part with the most
state and the one in which a mistake gives a program that runs and computes
something else. Done, in this order:

1. `FixedQueue`, `PpLiveness`: the work list and its first client, with proofs.
2. `PpRegalloc`: the allocator, its rounds and its spilling, with proofs.
3. `PpDepInfo`, `PpSchedule`: the graph and the list schedulers, with proofs.
4. `PriorityQueue`, `PtrSet`: the containers the schedulers and the allocator
   stand on, each against an abstract specification, with proofs.
5. `SymbolTypes`, `SymbolsPack`, `SymbolsAlign`: packing against the addresses both
   back ends compute.
6. `PpBundles`, `PpCombine`, `PpPeephole`: merging, the last scheduler and the
   peephole optimizer.
7. `GpIr`, the passes of the vertex back end from SSA form to register allocation
   (`GpPasses`), and its scheduler and code generator (`GpDeps`, `GpInstr`,
   `GpSchedule`, `GpCodegen`).
8. `PpHir` and the passes of the fragment middle end (`PpHirClean`, `PpHirXform`,
   `PpHirLower`).

Not done, in the order in which it would be worth doing:

| what | source | states |
|---|---|---|
| constant folding and lowering of the vertex back end | `gp_ir/const_fold.c`, `lower.c`, `lower_consts.c` | every rewriting keeps the meaning and the graph (`MeaningKept`, `GraphExact`); the disagreements already seen are in section 6 |
| branch offsets | `pp_lir/codegen.c` | a branch reaches its block |
| temporaries to registers | `pp_hir/temp_to_reg.c`, `compress_temp_arrays.c` | meaning kept |

Theorems still worth proving: `SymbolsPack` (the rows given to two symbols of one table do
not meet); `PpCombine` (an operation finds its constants where they were moved to);
`PpPeephole` (no merge closes a cycle).

## 3 Modules and code

Every module names the source file at its head; `map` in `PROJECT.json` gives the
lines of each definition. Names are the code's where TLA+ allows. An operator
commented `Slip:` is a plausible mistake in the code beside it; the specification
never uses it, the mutants do.

### Containers

**`FixedQueue`**, **`FixedQueueClient`**, **`BoundedFifo`** (`fixed_queue.c`). The struct is a
record, the operations are operators on it, so that other modules keep a
`fixed_queue_t` in a variable. `FixedQueueClient` is any client that stays within
the capacity it asked for; `BoundedFifo` is what it sees, through the mapping
`Contents`.

**`PriorityQueue`**, **`PullSet`** (`priority_queue.c`). One step per comparison of the two
sift loops, with the buffer and its reallocation; `PullSet` is a set one pulls a
greatest element from.

**`PtrSet`**, **`PointerSet`** (`ptrset.c`). The table is a record with the code's four
fields; the loops that add elements, a union and the expansion into a table twice as
large (`new`), take one step per element, so that what the table holds in between is
checked too; the probing loops are operators, `cur` is the iterator. It implements
`PointerSet`, a set with an iterator, for clients that, while they iterate, remove
nothing the iterator has still to yield and add nothing.

**`Containers`** has one of each, with their variables side by side, and states what
is checked and proved of them; it is what `MCShared` instantiates.

### Symbols

**`SymbolTypes`**, **`SymbolsPack`**, **`SymbolsAlign`** (`symbols/pack.c`, `symbols.c`, and the
offset computations in the two `from_glsl.cpp`). `SymbolsPack` is the packing by rows
and columns used for vertex shaders, with the recursion over structures as a list
of tasks, and the constants placed behind the tables later. `SymbolsAlign` is the
packing by alignment, for fragment shaders and varyings; it uses recursive
operators and is therefore only model-checked.

### Fragment processor

**`PpHir`**, **`PpHirClean`**, **`PpHirXform`**, **`PpHirLower`** (`pp_hir/`). `PpHir` is the program
in SSA form with the operations the passes edit it by, the sets of uses the code
keeps beside it, and what a program computes (`Run`, over numbers modulo 101 counted
in halves). `PpHirClean` narrows results, removes dead commands and propagates
copies; `PpHirXform` rewrites the operations the hardware does not have, each
rewriting a sequence of commands that takes the place of one; `PpHirLower` splits
critical edges, puts the blocks in reverse postorder, inserts the copies around phi
nodes and lowers to the linear IR, and has the order of the passes
(`shader/shader.cpp`). `PpHirShaders` has the shaders of the run, as
`from_glsl.cpp` emits them.

**`PpLiveness`** (`pp_lir/liveness.c`). One action per part of a loop body: `ScanBlock`,
`CalcInstr`, `BlockSame`, `BlockChanged`, `PushPred`, `PushDone`, `PopBlock`, `Finish`.
The variable `i` is the one variable that all the `for` loops of
`lima_pp_lir_liveness_calc_prog` share, and `work_queue` is the ring of `FixedQueue`.
A program carries one solution of its dataflow equations, as a ghost, for the
properties to compare with.

**`PpRegalloc`** (`pp_lir/regalloc.c`). Its first part is the program as the allocator sees it
(`IsProgram`), the classes with the p and q tables, interference component by component,
and what spilling does to an instruction. Then the work loop with its priorities:
`Simplify` before the coalescing actions (`CoalesceSame`, `CoalesceImpossible`,
`CoalesceLater`, `Coalesce`), these before `Freeze`, that before
`SelectSpill`; then `AssignColor` for each register of the stack, `Return`, and, if
registers found no place, spilling and another round. `SpillReg` takes one register of
the set, `SpillInstr` rewrites one instruction (`spilling` and `at` say which),
`SpillDone` starts the round. Moves that become dead in the rewritten program are
removed. The order in which a `ptrset` is iterated is any order. Programs are
straight-line.

**`PpDepInfo`**, **`PpSchedule`** (`pp_lir/dep_info.c`, `abstract_scheduler.c`,
`simple_scheduler.c`, `reg_pressure_scheduler.c`). `AddDepInstr` is one call of
`add_dep_instr`, `CalcMinDepInfo` one of `remove_edges` on an instruction; `CutFanOutNodes`,
`CalcPressure` and `CalcMaxDist` are the passes of the pressure scheduler, the last two one
instruction per step; `Pull(i)` is one turn of the loop of
`lima_pp_lir_schedule_block` with its insertion and the pushes that follow.
`Pull` takes any instruction that no other beats, which is all a heap promises. The
recursion of `remove_edges` visits what can be reached; `Reached` says so without
recursion, as the least set closed under successors.

**`PpBundles`**, **`PpCombine`**, **`PpPeephole`** (`linear_to_scheduled.c`, `compress_const.c`;
`instr_combine.c`, `combine_scheduler.c`; `peephole.c`). `PpBundles` is the conversion of
one linear instruction to an instruction word: its slot, the slots it may move to,
moves through pipeline registers, constants. `PpCombine` extends `PpDepInfo`; a pulled
instruction goes through `CombineBefore`, `CombineIndep` or `InsertStart`, tried in that
order. `PpPeephole` takes a block and its graph, walks it as the pass does, and lets
the scheduler then choose any order the graph allows. `Meaning` runs instruction
words stage by stage.

### Vertex processor

**`GpIr`** (`gp_ir/node.c`, `block.c`, ...): blocks of root nodes over expression nodes that
may be shared, with the field `successor` every edit has to keep right, and what a
program computes.

**`GpSsa`** (to SSA and out of it), **`GpClean`** (if-conversion, dead code, register
elimination), **`GpRegalloc`** (with the liveness analysis) are one pass or two each, over the four variables that `GpClean` declares (`prog`,
`pass`, `work`: the local variables of the pass, `meaning`: what the program computed
when it came in); **`GpPasses`** runs them in the order of `shader/shader.cpp`. A shader
that is not in SSA form is first converted, as `gp_ir/ir.c` has it.

**`GpDeps`**, **`GpInstr`**, **`GpSchedule`**, **`GpCodegen`** (`dep_info.c`, `instr.c`, `scheduler.c`,
`scheduler_helper.c`, `codegen.c`): one basic block through the scheduler. The
schedule is filled from the end, a node is put near all its readers, or carried on
by moves, or kept in a register, or the block is started again. `GpCodegen` reads the
result the way the hardware does: an operand names a unit of one of the last two
instructions, never a node. `GpBlocks` has the blocks of the run.

Modules `MC...` hold the inputs of the runs. Three of them run several components,
one per behaviour (a variable names the part in use and never changes):
`MCShared` (ring, heap, hash set, two ways of packing), `MCPpBackend` (middle end,
allocator, combining scheduler, peephole), `MCGp` (passes, scheduler).

Where the code's result depends on memory it does not control (the position of
a pointer in a hash set, the order of a set by address, or the entry in front of
`const_map` that `instr_combine.c:216` reads), the model lets any value be chosen.

### Fairness

Temporal properties that say something ends assume weak fairness of the next-state
relation of the function under way: it keeps running. Nothing else can run in its
place, and it waits for nobody, so this is what calling it means.
(`MCPpBackend` asks it of the allocator, whose termination is the question there.)
Specifications without a liveness property have no fairness.

## 4 Runs

Each passing run has, for every property, a mutant of the code that it catches
(`mutants` in `PROJECT.json`).

| run | inputs and bounds | shows |
|---|---|---|
| `shared`, ring | capacity 3, three elements: every position of both indices | a bounded FIFO (`ImplementsFifo`, `TypeOK`) |
| `shared`, heap | six elements, four priorities, any pushes and pulls | a set one pulls a greatest element from (`ImplementsQueue`); the buffer is never written behind its end and the heap is ordered where the two loops do not work (`HeapFits`) |
| `shared`, hash set | four pointers, three in one chain, a table that grows from 4 to 8 slots | a set with an iterator that allows removals (`ImplementsSet`); every probe ends (`ProbesEnd`) |
| `shared`, rows and columns | eight rows; up to four symbols of every shape, at most one structure per table; up to four constants behind small tables | every element has its own floats (`ElementsDisjoint`), in the rows there are (`WithinRows`), away from the other table and the constants (`ConstsDisjoint`) |
| `shared`, alignment | up to five symbols with nested structures, arrays and matrices | no two elements share a float although every term is rounded (`MembersDisjoint`); both stages find a varying in the same place (`VaryingsAgree`) |
| `pp_liveness` | if/else, while, and a loop with a break, each of four code fragments in each block: 1 536 programs | result never too large at any step (`NothingDeadIsLive`) and complete at the end (`EveryUseIsLive`); the ring is never full on a push (`WorkQueueHolds`); the analysis ends (`Terminates`) |
| `pp_backend`, middle end | about 1 200 shaders with expressions, swizzles, ifs, discards and loops; a run enters 24 blocks at most; two inputs | every pass keeps what the shader computes (`ShaderMeaning`) |
| `pp_backend`, allocator | 2 physical registers, at most 3 temporaries; 1 406 programs of whole-register and component copies | what is allocated and spilled computes the same (`AllocationPreserves`), `BeginningHonoured`, `NeighboursApart`; `QueuesMatch` and `LiveMovesLive` at every step; the rounds end (`RoundTerminates`) |
| `pp_backend`, combining | all blocks of three words of 14 kinds, the last also a branch or a store of the result, and of four ALU words: 7 386 blocks; two places per constant register instead of four | merging preserves the meaning (`CombinePreserves`), graph and list agree (`EdgesFollowList`) |
| `pp_backend`, peephole | 2 816 blocks of four and five loads, samples and ALU operations over six registers | in every order the graph then allows the block computes the same (`CombinePreserves`); no merge closes a cycle (`EdgesFollowList`) |
| `pp_schedule` | all blocks of four instructions over three channels from seven kinds and two branches, both policies: 6 272 starts | the graph orders every conflict (`DepsCoverConflicts`) and its reduction is exact (`MinDepsReduced`); `EveryInstrScheduledOnce`, `ConflictsKeepOrder`, `Terminates` |
| `gp`, passes | shaders with an if, if/else, one in another, a loop, an if in a loop, with every choice from a pool of statements, and loops in SSA form; one physical register, a run enters 20 blocks at most, three inputs | `MeaningKept` and `GraphExact` at every step, `DominanceExact`, `SsaForm`, `LivenessExact`; every step of the liveness analysis gets it ahead (`LivenessProgress`) |
| `gp`, scheduler | chains of values, values stored, used again, used wide apart, complex functions, crowded instructions; at most 3 restarts | the emitted instructions compute what the block means (`MachineMeaning`), the units reserved for stores are there (`StoresHaveRoom`), scheduling ends (`NeverAbandoned`) |

and seven runs in which TLC finds a disagreement (section 6):
`pp_liveness_diamonds` (`LiveOutIsUnion`), `pp_schedule_branch` (`BranchesRunLast`),
`symbols_structs` (`ElementsDisjoint`), `pp_hir_swizzled_phi` (`ShaderMeaning`),
`gp_if_liveness` (`LivenessExact`), `gp_temp_reload` (`MeaningKept`), `gp_store_room`
(`StoresHaveRoom`).

Why the bounds are enough. *Liveness*: three graphs have a join, a back edge and
a second exit; the fragments have a definition, a use, a use before a
definition inside one word, and nothing, which are all the effects a component
can see. *Middle end*: the loops trade their variables with and without break and
continue, which is what splits edges and needs copies; the arithmetic is modulo a
prime large enough that two different expressions of the families differ for one of
the inputs (each rewriting of `xform.c` has a mutant that is caught). *Allocation*:
with two physical registers, three registers that live
together need a spill and a fourth brings coalescing under pressure; all queues
and all actions occur. The register count only enters through p. *Scheduling*:
a conflict through a third instruction, and two independent ones beside it, need
four. *Combining*: a merge into the first successor, one past an independent
word, and a merge into a word already merged need three; the room for constants
is reached with two places. *Peephole*: a load, two uses of it and an instruction
that a merge must not pass need four; a cycle through a stale edge needs five.
*Vertex passes*: one physical register makes every second value spill; loops run
twice at most for the inputs there are. *Vertex scheduler*: a chain longer than
the reach of an operand needs moves, a value used in front of and behind it a
register, seven values at once exceed the units. *Heap*: six elements fill three
levels and cross the reallocation at four. *Hash set*: three used slots of four
exceed the load of 0.7, so the table grows with and without removed elements in
it. *Symbols*: the shapes cover each branch of
`pack_std`; eight rows are few enough that the high rows are used and that tables
do not fit.

What the passing runs leave out because the code is known to be wrong there is
listed in section 6, each with the reason.

`CHECK_DEADLOCK FALSE` is set where a pass simply returns; the others end in a `Done`
step.

## 5 Proofs

TLAPS checks the theorems for every value of the constants.

**`ContainersProof`**, for the ring, from `MaxElemsAssumption` (the capacity is a positive
number).

* `QueueTyping`: `Spec => []TypeOK`. The indices stay inside the array.
* `RingImplementsFifo`: `Spec => ImplementsFifo`. The argument: a push writes the slot
  behind the last one of `Contents` and, as the client keeps to the capacity, does
  not reach the oldest; a pop moves `back_index` so that every remaining element
  moves one place forward. `PushAppends` and `PopTakesHead` say so for the sequence
  `Contents`, from the effect on the fields (`PushEffect`, `PopEffect`), with a case for
  each way an index may wrap.

**`PriorityQueueProof`**, from `QueueAssumption` (the constants are what a caller passes: a set
of elements, a priority for each).

* `HeapInvariant`: the heap and its buffer, at every comparison of the two sift loops.
* `HeapImplementsQueue`: the specification implements `PullSet`.

The inductive invariant is `IInv`: `TypeOK`, `Ordered` (every parent beats its children,
except at the element that moves), `OrderedAcross` (the parent of the element that
moves beats its children: without it the heap would be out of order when the loop goes
on past it), `Distinct` and `RoomFits` (the buffer has the least power of two that is
enough, so the test for a power of two in `push` is the test for a full buffer). That
the root beats all is shown by taking the least index that is not beaten.

**`PtrSetProof`**, from `PtrSetAssumption` (the hash is any function; the first table has four
slots at least; a pointer is neither mark).

* `TableInvariant`, `SearchesEnd`: every search comes to an empty slot, so the loops
  without a bound end.
* `TableImplementsSet`: the specification implements `PointerSet`.

`IInv` is `SetOK` (a pointer is found where probing looks for it; the counts are those of
the slots), `LoadOK` (an add starts from a load of at most 0.7), `NewOK` (while the set is
expanded, the new table has what was moved) and `CallOK`. `SetOK` relates
`total_size` to the slots that are not empty by an inequality only: `ptrset_empty` leaves it
too large.

`ContainersProof` also states the last two for the components that the run has side by side:
`HeapStaysHeap` (`HeapFits`), `PullIsGreatest` (`ImplementsQueue`), `EverySearchEnds`
(`ProbesEnd`), `TableIsSet` (`ImplementsSet`). `SameHeap` and `SameTable` carry the theorems over
to the instances.

**`PpLivenessProof`**, for every set of programs with any number of blocks and any
control-flow graph. Assumptions: `Output` is a set of components, programs are well
formed (`ProgramsAssumption`), and what a program carries as `solution` satisfies the
dataflow equations (`SolutionAssumption`), which the MC module computes and TLC checks.

* `LivenessTyping`: `Spec => []TypeOK`.
* `LivenessWithinSolutions`: `Spec => []NothingDeadIsLive`. At no step, in whatever order
  blocks are visited and even if the ring should overflow, does the analysis call
  a component live that some solution does not; so the sets it ends with are
  inside the least solution.
* `LiveOutCompleteUnlessFull`: `Spec /\ []WorkQueueHolds => []LiveOutIsUnion`. If no push finds
  the ring full, the comment at `pp_lir/liveness.c:389` is true in the end, although the
  first loop jumps and skips. So the overflow of section 6 is the only way for it to be
  false.
* `UsesLiveUnlessFullOrSkipped`: if in addition no block with a use is left out
  (`NoneSkipped`) and a program carries its least solution, `EveryUseIsLive`. With
  `LivenessWithinSolutions` the result is then exactly the least solution.

The inductive invariant of the first two is `LiveInv`, the conjunction of `prog \in Programs`,
`TypeOK` and `NothingDeadIsLive`. None of the parts can be left out: a step of `CalcInstr` needs
that `cur_live` is inside the solution behind instruction k and that k is an
instruction of `block`, the merge of live-in sets needs that all of them are inside
the solution, and a popped block has to be one of the program's.
`SchedLiveIsNeeded` is the heart of it: the eight groups of slots, visited
backwards as the code does, compute exactly what the stages of the hardware need.

Completeness needs `CompleteInv` as well: a block that is computed again only gets more
(`Grown`), a block is not computed yet, being computed or consistent (`InCalc`, `Visited`), and
its `live_out` lacks what a successor needs only while it is in the ring or about to be
pushed (`Merged`, `Served`). `Served` is what an overflow breaks, hence the hypothesis.
Neither hypothesis is true of every graph; on the 1 536 programs of the run both
are (`WorkQueueHolds` and `EveryUseIsLive` are among its properties).

**`PpDepInfoProof`** and **`PpScheduleProof`**, for every set of blocks and both policies. Assumptions:
`BlocksAssumption`, a block is a sequence of instructions and not empty (in an empty
one, none of the loops of the code runs), and `PoliciesAssumption`.

* `ScheduleTyping`: `Spec => []TypeOK`.
* `GraphCoversConflicts`: `Spec => []DepsCoverConflicts`.
* `GraphIsReduced`: `Spec => []MinDepsReduced`.
* `AllScheduledOnce`: `Spec => []EveryInstrScheduledOnce`.
* `ScheduleKeepsConflicts`: `Spec => []ConflictsKeepOrder`.

The inductive invariant is `SchedInv`, with three parts. `GraphInv` says what the edges
are as `add_dep_instr` works through the block: they lead forward, and each
instruction is joined to the instructions that conflict with it directly.
`QueueInv` relates the queue to the graph: what waits, or has been visited, has all its
successors visited, and whatever has all its successors visited has been
pushed. `OrderInv` relates the result to the graph: it has every visited instruction
once, and none before an instruction it depends on. Each needs the one before:
without forward edges, a set of unvisited instructions need not have one that is
ready, and the queue could run empty too early. Two more invariants go with it:
`MinInv` (what `remove_edges` has taken away so far) and `ValuesInv` (what the passes of the
pressure scheduler compute are numbers, and cutting fan-out only removes edges).

That nothing is lost follows from the last unvisited instruction: its successors
come later, are therefore visited, so it is in the queue, and an empty queue means
that there is no such instruction. That conflicts keep their order needs more,
because most conflicting pairs have no edge: `add_dep_instr` joins an instruction to
the readers and the writer of a component up to the next one that overwrites it.
`ConflictStep` shows that two conflicting instructions either have an edge or have a
third one between them that the first is joined to and that itself conflicts with
the second. `InOrder` then takes the last instruction that is out of order with a
later one: the third instruction would be a later one still. Everything about what can
be reached goes the same way: by the last instruction, or the closest pair, that is an
exception (`LastExists`, `FirstExists`), and by the lemmas on `Reached` (it is closed,
transitive, and grows with the edges). What is about the graph alone is in
`PpDepInfoProof`: the combining scheduler needs it too.

**`PpCombineProof`**, for every block of words as `linear_to_scheduled.c` makes them
(`CombineAssumption`: the slots say what the operations do, and of two ALU operations of one
word none may move), with constant registers of any size. TLC checks the assumption on the
blocks of the run (`CombiningAssumption`).

* `EdgesStayInList`: `Spec => []EdgesFollowList`.
* `OperationsKept`: `Spec => [](EndsApart(block) => OpsKept)`. Every operation of the block is in the new
  list exactly once, in a slot that can run it and that no other operation has, reading
  and writing what it did; and of two operations of different words that may not change
  places (`can_swap`), the one that came first runs first, in an earlier word or in an
  earlier stage of the same word.

`EndsApart` says that no two words use the slot of branches, and none the slot of stores
unless both store to temporaries: `combine_indep` does not look at these slots (section 6,
`instr_combine.c:951` and 957), and only an edge keeps two of them apart. The blocks of the
run have it (`StoresAndBranchesApart`).

The inductive invariant of the first is `CombineInv`. `MergeInv` has what the merging needs: every edge
among the words still to come leads forward in the block, one to the list ends at
a word that is really there, and one within the list leads forward in it (`EdgeFits`).
`combine_deps` keeps it because a word is only merged in front of its successors
(`LatestSuccIs`) and, being visited, no longer has a visited predecessor. The queue is
exactly the set of words whose successors are all visited, though a merge
changes the edges, so nobody is left behind (`SomebodyWaits`).

The second needs to know where things went, which no variable says. `OpsInv` states that
there is a `History`: for each word of the block the word it is part of now, and for each operation
its slot. While the list is made, words to come are as they were (`Homes`), those of
the list consist of what was brought to them (`Arrived`), pairs that conflict are in turn
if the first is visited (`InTurnSoFar`), and a conflict between words to come is a path, in the
graph as it is now, between the words they are part of (`PathsCover`): this begins as
`DepsCoverConflicts` and survives merges because a path whose ends are renamed is a path
(`RenamedPath`). Then, when a word is merged, whatever conflicts with it is at or
behind its first successor (`ConflictsBehind`); in front of that place nothing
can go wrong but a slot used twice (`IndepIsFree`, `StoresStayApart`), and at that
place `combine_before` has compared each pair (`BeforeIsInFront`). `AluMapFits` is about
the slots themselves: in order, free, possible, and, if limited, in front of everything
they may not change places with (`Limit`, with the pairs of slots that run in parallel).
`OpsKept` does not say that an operation finds its constants: the map of constants is a
recursive function of lists. `CombinePreserves` checks that, and what it all computes,
with TLC.

**`PpRegallocProof`**, for every program and every number of physical registers
(`ProgramsAssumption`, `NumPhysAssumption`), through every round.

* `MovesStayLive`: `Spec /\ []PrecoloredStays => []LiveMovesLive`. The registers of a move that is
  still to be tried know of it and are still in the graph, so no coalescing can change
  a register that was already simplified.
* `AllocationApart`: `Spec /\ []PrecoloredStays => []NeighboursApart`. In the allocation, two
  registers that interfere in the program and were not merged have no place in common.

`PrecoloredStays` is the comment at `pp_lir/regalloc.c:54`, that the degree of `$0` never
drops below its p, so that `$0` is never simplified. It is not true of every program
(*chain* in section 6), and three more theorems say when it is.

* `ReservedDegree`: `Spec /\ []NoOwnEnd /\ []CountersFit => []PrecoloredStays`.
* `NoneLostOrDoubled`: `Spec /\ []NoOwnEnd /\ []CountersFit => []QueuesMatch`. Every register of
  the graph waits where its state says, and one in the spill queue fails the <p, q> test.
* `ApartUnlessOwnEnd`: `LiveMovesLive` and `NeighboursApart` under the same two conditions.

And one is about the registers of loads and stores, whose components have to stay in place:

* `BeginningInPlace`: `Spec /\ []PrecoloredStays /\ [][MergedOnce]_vars => []BeginningHonoured`.
  `MergedOnce` says that a register that one of them was merged into is not merged once more,
  unless it must start at the first component as well. `combine` does not carry the attribute
  over (*beginning* in section 6); this is the only harm it does. No program of the run breaks
  `MergedOnce`.

`CountersFit` says that the unsigned degrees do not overflow; `UInt` stands for 2^32 there, and
the proofs use no more of it than that it is a positive number. `NoOwnEnd` says that whenever
`freeze_moves` may run, no register it could give up has a move left whose other end was
coalesced into it. It is what goes wrong in *chain* and nothing more: TLC
finds 1 642 of the 34 935 states of the run's allocator programs that break it or are
reached only through one that does, and in all the others the invariant of these proofs (`MatchInv`)
holds, as it should. In those 1 642 states `PrecoloredStays` and `QueuesMatch` hold too:
it takes a program like `PushedTwice` to break them.

The inductive invariant is `RoundInv`. `RoundTypes`, `PlaceTypes` and `AliasInv` say what the
variables are (an alias is the end of its chain). `StateInv` and `QueueInv` have what the
steps need to know of the queues: a register waits where its state says, and neither
`$0` nor a register merged into another waits or is on the stack. `EdgeInv` (a neighbour
has the register as its neighbour) carries `StackInv`, the heart of it:
of two registers that interfere, in whatever registers they have been merged into, each
has the other in its list as long as neither is simplified; of two on the stack, the
earlier one, which is coloured later, has the other, perhaps under the name of a
register that was merged into it since. Coalescing keeps that because the edges of
both registers end up with the one that is left, freezing and spilling because they
do not touch edges, and colouring uses it: whoever comes off the stack sees all those
that came off before. `AssignInv` says that these do not overlap, and `RewriteInv` that
spilling leaves a program (`IsProgram`) for the next round.

For the degrees it is joined by `MatchInv`. `DegreeInv` bounds the q of every register
from both sides: it is at least the sum over the neighbours that are left, and at most
the sum over all in the list, and a register linked to itself counts itself once more
(`Fits`); the q of `$0` is at least its p and one for each register that is left: it starts
there, and a register that goes takes one at most. `OnceInv` says that no register is in the simplify
queue and on the stack, or twice in the queue: then each one that goes is subtracted
once from each neighbour, so no q wraps and `$0` loses at most what was reserved for it.
Freezing is the step that needs `NoOwnEnd`: a register pushed as the other end of its own
move is pushed again as itself.

What stays with TLC, and why. Liveness properties (`Terminates`, `RoundTerminates`,
`LivenessProgress`, `NeverAbandoned`): beyond the prover. `WorkQueueHolds`: not true of
every input. `EveryUseIsLive` and `QueuesMatch` are not either, and are proved under the
condition that keeps them. What the
programs compute (`AllocationPreserves`, `ShaderMeaning`, `CombinePreserves`, `MeaningKept`,
`MachineMeaning`) is a recursive function over data; what one returns for every input needs
induction over data, which none of the provers can do (an argument by a least or
greatest number, as above, is possible). `SymbolsAlign` has RECURSIVE operators and
cannot have theorems, nor can the modules of the vertex processor and the fragment middle end,
and `PpPeephole`, whose programs are trees, graphs and loops walked by RECURSIVE operators. The
disjointness of packed symbols is not true of every input (section 6) and computed by folds
over paths.

## 6 Disagreements between code and comments

### With a run

* `pp_liveness_diamonds`: the ring is made for `num_blocks` elements
  (`pp_lir/liveness.c:371`) and the pushes at 378-380 do not check. The first loop, whose
  index the inner loop reuses, starts again near the front each time and pops nothing:
  after two conditionals in sequence it pushes eight blocks into a ring for seven,
  `front_index` meets `back_index`, the ring looks empty, and the live-out set of a block
  is not the union its comment promises (`pp_lir/liveness.c:389`). There is no other
  way for the comment to fail (`LiveOutCompleteUnlessFull`).
* `pp_schedule_branch`: `add_dep_instr` returns early for the last instruction of
  a block (`pp_lir/dep_info.c:243`), where a branch is. The code behind the comment
  "we need to make sure we run after all other instructions"
  (`pp_lir/dep_info.c:289`) is not reached for it, and the pressure scheduler moves
  the branch in front of instructions that only later blocks depend on.
* `symbols_structs`: members of a structure get absolute offsets in `pack_std`, and
  `calc_deref_offset` adds the offset of the structure once more
  (`gp_ir/from_glsl.cpp:1438`); the comment at `symbols/pack.c:178` wants "a consistent
  offset for the structure".
* `pp_hir_swizzled_phi`: a swizzle moves from a copy to the source of a phi node,
  where `convert_to_cssa` (`pp_hir/phi_elim.c:115`) and `lower.c` ignore it.
* `gp_if_liveness`: the liveness analysis starts with its ring full of copies of the
  last block (`gp_ir/liveness.c:208`); if that has two predecessors, one more is
  pushed, the ring looks empty and no other block is computed.
* `gp_temp_reload`: register elimination keeps reads of temporaries in front of stores
  (`gp_ir/reg_eliminate.c:52`), but looks for `load_temp` only, and `from_glsl.cpp` reads
  temporary arrays with `load_uniform`.
* `gp_store_room`: `lima_gp_ir_instr_remove_alu_node` (`gp_ir/instr.c:665`) gives a store's
  unit back for a move that was never placed; the count the assertion at 668 is about
  then exceeds the free units, and without assertions the block is scheduled for ever.

### Disagreements without a run

Found while modelling, kept out of the passing runs by their inputs.

*Fragment allocator*

* *chain.* `freeze_moves` (`pp_lir/regalloc.c:806`) compares the registers
  of a move with `reg` without `get_alias`. After a coalescing the "other" register
  can be `reg` itself: it is pushed twice, more often than the simplify queue has room
  for, and its neighbours are decremented twice. `$0`'s `q_total` then falls below the value
  the comment at `pp_lir/regalloc.c:54` says it never drops below, and `$0` is pushed on the
  select stack. `MCPpBackend.PushedTwice` is such a program, with a chain of two copies
  of which one is coalesced and the other frozen: with `Programs <- PushedTwice` TLC refutes
  `PrecoloredStays` and `QueuesMatch`, while `LiveMovesLive`, `NeighboursApart` and
  `AllocationPreserves` hold on it. Some programs of the run have such moves, but none that breaks these.
* *lost edge.* When registers are merged, edges are inherited only for
  neighbour components below `dst->size` (`pp_lir/regalloc.c:594` takes the size of
  the wrong register), so a wide neighbour loses some; the comment at 770 says
  that nothing but spills speaks against the merge any more. In the run's
  programs no later merge depends on an edge that is lost.
* *exchange.* A move is exempt from interference with *every* component it
  copies (`pp_lir/regalloc.c:199`), also with those that go to another component of
  the destination: an exchange `a.xy = b.yx` may be placed on top of itself. The run
  has moves of one component and moves of whole registers.
* *beginning.* `combine` (`pp_lir/regalloc.c:613`) does not carry the
  attribute `beginning` over to the register that is left.
* *spilling.* `reg_to_reg_instr` (`pp_lir/regalloc.c:1195`) files a use under the
  definitions, so that the assertion at 1447 fails when a spilled register is read
  where it is written, or where the pipeline register is not available (the model ends
  there, `pc = "failed"`). The comment at 841 speaks of `reg->spilled`, which is never
  set.

*Fragment scheduling and merging*

* `instr_combine.c:951` and 957 test the slots for temporary stores and branches only
  when they are free, so a jump merged into a word with a conditional branch replaces
  it; two stores merged lose one. The run's blocks have one branch and no
  independent pair of stores.
* A constant of `const1` is looked up in front of the map (`instr_combine.c:216`, index
  `swizzle - 4`). The model takes any place; the run has no word that uses both constant
  registers before merging.
* Peephole (excluded by `WithinRules` in `MCPpBackend`): `peephole_discard_move` moves the
  condition of a select away from the load it belongs to; a moved definition with
  constants is not rewritten, keeps positions that lie behind the select's slot, and
  disappears with its edges if the map of constants fails; the minimal successors are
  stale while `peephole_varying` and `peephole_texture` merge, against the comment above
  `lima_pp_lir_calc_min_dep_info`, which can close cycles; `peephole_texture` (702) tests
  `instr` instead of `move` and uses a null pointer; a sample that is only the offset of
  a uniform load merged into it keeps reading a register that is gone;
  `peephole_varying` deletes a register other blocks use; `peephole_uniform` adds no edge
  from the uses to a later redefinition of the offset; the inner `continue` of
  `find_discard_move` does not check mask and swizzle; two selects may share a condition.

*Fragment middle end*

* `cfold.c` 73-80 has the comparisons inverted (and any/all are built on them), folds
  round by truncation, ignores the swizzle of a constant, and its loop reads the next
  pointer of a command that `block_replace` freed (850-883). None of it is reached by
  what `from_glsl.cpp` makes (section 7).
* `xform.c`: `abs_xform` keeps the negation and toggles the absolute value;
  `normalize_xform` never sets `c[2]->src[1]`; a division or `mod` of vectors takes a
  reciprocal of one component (33-62); `all_eq` and `any_ne` of vectors compare with the
  size of a scalar (1087-1198).
* `copy_propagation.c`: `try_replace_use` removes the use although a later argument may
  refuse the replacement, and stops at the first refusal, in the order of addresses.
* `reorder.c:102`: blocks that cannot be reached are deleted but stay in the predecessor
  lists and phi sources of the blocks behind them.
* `from_glsl.cpp`: `floor` emits a negation (739), `f2i` a sign with rounding (686),
  `csel` passes the condition first although `select` takes it third, `get_const_source`
  allocates four floats where four doubles are read (613), `emit_store` of three
  components stores four, a masked store of one component asks for a `combine` of one,
  an if with two empty branches has duplicate predecessors.

*Vertex processor*

* The driver (`shader/shader.cpp` 342-372) never computes predecessors, so nothing is
  if-converted; `convert_to_ssa` is called by a driver that is commented out.
* `if_conversion.c` 217-226: the predecessor of a phi source is stale after two
  conversions in a row. `to_ssa.c` asserts that no path leaves a register undefined.
* `liveness.c:109`: an empty block reports a change every time, so a loop through one
  never ends. `regalloc.c:101`: `colorable` asks whether the register itself, and not its
  neighbour, has a place. `temp_alloc` leaves out the uniforms, so spilled registers
  collide with temporaries and constants. `regalloc.c` and `scheduler.c` compute the
  liveness of physical registers at different times.
* `dep_info.c:320`: a uniform load with an offset register has no edge to the stores of
  it, although `scheduler_helper.c` has a distance for the pair; loads through an offset
  may move past another store of it. Two values in one physical register with different
  offsets miss their order.
* `scheduler.c`: the child edge of a value that went through a register is kept (754);
  moves around a register are not remembered when the block is started again; a move
  that never was placed has an uninitialised instruction; the relaxed loop of
  `try_place_node` does not set `sched_pos`; slot arrays of six nodes are filled unchecked.
* `codegen.c`: `load_temp` has no case in `get_alu_input`; offset register 3 is emitted as
  offset register 0 (about 703).
* `const_fold.c` folds `f2b` inverted. `lower.c`: `lower_not` builds `max(1, -x)` where the
  comment says "not(x) = 1.0 - x"; `lower_ne` links the first comparison twice and the
  second never (1114), so a constant operand is deleted while it is still read.
* `from_glsl.cpp`: `cos` emits `ceil` (612), `max` and `or` emit `min` (about 687), `any`
  reduces with `min`, `dot` adds instead of multiplying, `abs` passes two operands,
  `insert` swaps its arguments (211, 219), `emit_temp_store` never links the address.

*Symbols and containers*

* `high_pos - my_num_rows >= low_pos` (`symbols/pack.c:265`) is
  computed without a sign: a symbol with more rows than are left passes. The run's
  two-component symbols have at most as many rows as there are.
* `pack_table_std` reports rows when high rows are used and floats
  otherwise (`symbols/pack.c:333`), and the sum of the two is compared with 304 rows
  (`symbols/pack.c:522`). Constants behind a table in high rows overwrite it; most
  programs are refused at a quarter of the memory. In the run, tables with high rows
  are refused by that test.
* For the vertex stage a column of a matrix is addressed with
  the stride of the whole symbol (`gp_ir/from_glsl.cpp:1341`, and the same way for
  uniforms). The run compares varyings that are vectors and arrays of vectors.
* `ptrset_empty` (`ptrset.c:206`) resets `size` and leaves `total_size`: the table grows
  earlier than it needs to. The set itself stays right, and `ProbesEnd` holds.

## 7 What is not modelled

* *Constant folding and lowering of the vertex back end* (`const_fold.c`, `lower.c`,
  `lower_consts.c`): not yet; see section 2.
* *Constant folding of the fragment middle end* (`cfold.c`): `from_glsl.cpp` emits a
  constant as a move, which copy propagation does not forward, so no command ever has a
  constant to fold; there is no reachable input to check.
* *Code generation of the fragment back end, `temp_to_reg.c`, `compress_temp_arrays.c`*: not
  yet. *`pp_hir/dominance.c`*: nothing calls it.
* *Building the IR* (`from_glsl.cpp`): a visitor per node of Mesa's tree, without state of its
  own; what it emits is the input of the runs.
* *Pure data structures and constructors* (blocks, lists, vectors, bit sets): TLA+
  sequences, sets and records stand in their place. *Printing, assembling,
  disassembling, encoding, files*: translations without state.
* *Names of symbols, lookup and export, half-float conversion*: no property is about
  them.
* *Mesa's front end* (`src/glsl`, `src/mesa`): third-party, and two thirds of the
  repository's lines.
