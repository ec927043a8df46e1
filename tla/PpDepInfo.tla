------------------------------ MODULE PpDepInfo ------------------------------
(***************************************************************************)
(* The dependence graph of one block of scheduled instructions, as built   *)
(* by lima_pp_lir_calc_dep_info (pp_lir/dep_info.c).                       *)
(*                                                                         *)
(* An instruction is known by its position in the block; what it does is   *)
(*   slots   the reads and writes of its slots in pipeline order (the sets *)
(*           hold channels, i.e. components of registers),                 *)
(*   load, store   whether it loads from or stores to a temporary,         *)
(*   branch  "none", "cond" (falls through when false) or "jump".          *)
(* The ptrsets succs and preds are always each other's inverse: add_dep    *)
(* writes both, so the set of edges deps stands for the two, and           *)
(* true_deps and min_deps likewise for true_ and min_ succs and preds.     *)
(***************************************************************************)
EXTENDS Naturals, Sequences, FiniteSets

CONSTANTS Chans,    \* the channels registers are made of
          Blocks    \* the blocks to analyse: sequences of instructions

VARIABLES block,      \* the block being analysed
          pc,         \* "deps", "min", then what uses the graph
          cur,        \* the instruction the current loop has reached
          deps, true_deps, min_deps

depVars == <<block, pc, cur, deps, true_deps, min_deps>>

SlotType  == [reads : SUBSET Chans, writes : SUBSET Chans]
InstrType == [slots : Seq(SlotType), load : BOOLEAN, store : BOOLEAN,
              branch : {"none", "cond", "jump"}]

Instrs == 1..Len(block)

Succs(E, i) == {j \in Instrs : <<i, j>> \in E}
Preds(E, i) == {j \in Instrs : <<j, i>> \in E}

\* Edges that only lead forward.
Edges == {e \in Instrs \X Instrs : e[1] < e[2]}

----------------------------------------------------------------------------
(* What one instruction reads and writes.                                  *)

\* A channel an earlier slot of the same instruction has written is not read.
ReadRegs(instr) ==
  UNION {instr.slots[k].reads \ UNION {instr.slots[j].writes : j \in 1..(k - 1)} :
           k \in DOMAIN instr.slots}

WriteRegs(instr) == UNION {instr.slots[k].writes : k \in DOMAIN instr.slots}

\* Slip: the write that is being looked at has killed its channels already.
RemainingAfter(regs, i, j) ==
  regs \ UNION {WriteRegs(block[k]) : k \in (i + 1)..j}

\* What is left of regs when the loop that starts behind i comes to j.
Remaining(regs, i, j) ==
  regs \ UNION {WriteRegs(block[k]) : k \in (i + 1)..(j - 1)}

----------------------------------------------------------------------------
(* The instructions behind i that add_dep_instr makes depend on it.        *)

TrueDepsOf(i) ==
  {j \in (i + 1)..Len(block) :
     Remaining(WriteRegs(block[i]), i, j) \cap ReadRegs(block[j]) # {}}

AntiDepsOf(i) ==
  {j \in (i + 1)..Len(block) :
     (Remaining(ReadRegs(block[i]), i, j) \cup Remaining(WriteRegs(block[i]), i, j))
        \cap WriteRegs(block[j]) # {}}

\* Accesses to temporaries, up to and including the next store.
TempDepsOf(i) ==
  {j \in (i + 1)..Len(block) :
     /\ \A k \in (i + 1)..(j - 1) : ~block[k].store
     /\ \/ block[j].store /\ (block[i].store \/ block[i].load)
        \/ block[j].load /\ block[i].store}

\* Slip: the loop does not end at the branch itself.
BranchDepsAll(E, i) ==
  IF block[i].branch = "none" THEN {}
  ELSE {<<o, i>> : o \in {o \in Instrs \ {i} : Succs(E, o) = {}}}

\* A branch comes after everything before it that nothing else comes after.
BranchDeps(E, i) ==
  IF block[i].branch = "none" THEN {}
  ELSE {<<o, i>> : o \in {o \in 1..(i - 1) : Succs(E, o) = {}}}

\* add_dep_instr does nothing at all for the last instruction of the block.
NewDeps(i) ==
  IF i = Len(block) THEN deps
  ELSE LET E == deps \cup ({i} \X (TrueDepsOf(i) \cup AntiDepsOf(i) \cup TempDepsOf(i)))
       IN  E \cup BranchDeps(E, i)

NewTrueDeps(i) ==
  IF i = Len(block) THEN true_deps ELSE true_deps \cup ({i} \X TrueDepsOf(i))

----------------------------------------------------------------------------
(* The instructions that must come after each one, directly or not.        *)

Closed(E, S) == \A k \in S : Succs(E, k) \subseteq S

\* What following the edges from i reaches: the least set that is closed.
Reached(E, i) ==
  {j \in Instrs : \A S \in SUBSET Instrs : Succs(E, i) \subseteq S /\ Closed(E, S) => j \in S}

Below(E) == [i \in Instrs |-> Reached(E, i)]

\* Slip: remove_edges without the recursive call.
IndirectOnce(i) == UNION {Succs(deps, s) : s \in Succs(deps, i)}

\* remove_edges: what can be reached in two steps or more from i.
Indirect(i) == LET below == Below(deps) IN UNION {below[s] : s \in Succs(deps, i)}

----------------------------------------------------------------------------
DepInit ==
  /\ block \in Blocks
  /\ pc = "deps" /\ cur = 1
  /\ deps = {} /\ true_deps = {} /\ min_deps = {}

\* Slip: the loop does not move on.
AdvanceStuck(phase) == cur' = cur /\ pc' = pc

\* The loop over the instructions moves on, or ends and the next phase starts.
Advance(phase) ==
  IF cur < Len(block) THEN cur' = cur + 1 /\ pc' = pc
                      ELSE cur' = 1 /\ pc' = phase

AddDepInstr ==
  /\ pc = "deps"
  /\ deps' = NewDeps(cur)
  /\ min_deps' = deps'
  /\ true_deps' = NewTrueDeps(cur)
  /\ Advance("min")
  /\ UNCHANGED block

CalcMinDepInfo ==
  /\ pc = "min"
  /\ min_deps' = min_deps \ ({cur} \X Indirect(cur))
  /\ Advance("schedule")
  /\ UNCHANGED <<block, deps, true_deps>>

----------------------------------------------------------------------------
(* Two instructions that must not change places, stated without regard to  *)
(* what lies between them: one writes what the other reads or writes, or   *)
(* both access temporaries and one of them stores.                         *)
Reads(instr) == UNION {instr.slots[k].reads : k \in DOMAIN instr.slots}

Conflict(a, b) ==
  \/ WriteRegs(a) \cap (Reads(b) \cup WriteRegs(b)) # {}
  \/ WriteRegs(b) \cap Reads(a) # {}
  \/ a.store /\ (b.load \/ b.store)
  \/ a.load /\ b.store

(* Every pair of instructions that must keep its order is joined by a      *)
(* path, although add_dep_instr stops at the first write that kills a      *)
(* channel and at the first store behind an access to a temporary.         *)
DepsCoverConflicts ==
  pc # "deps" =>
    LET below == Below(deps)
    IN  \A i, j \in Instrs :
          i < j /\ Conflict(block[i], block[j]) => j \in below[i]

(* What the comment above lima_pp_lir_calc_min_dep_info promises: the      *)
(* minimal graph orders exactly what the full one orders, and no edge of   *)
(* it can be replaced by a longer path, so that its ends can be merged.    *)
MinDepsReduced ==
  pc \notin {"deps", "min"} =>
    /\ Below(min_deps) = Below(deps)
    /\ \A e \in min_deps : e[2] \notin Below(min_deps \ {e})[e[1]]
=============================================================================
