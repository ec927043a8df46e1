------------------------------ MODULE PpSchedule ------------------------------
(***************************************************************************)
(* The list scheduler of a block (pp_lir/abstract_scheduler.c) over the    *)
(* graph of PpDepInfo, with the two policies that insert instructions      *)
(* without merging them: "simple" (simple_scheduler.c) and "reg_pressure"  *)
(* (reg_pressure_scheduler.c).                                             *)
(*                                                                         *)
(* The block is scheduled backwards: order, the list being rebuilt, grows  *)
(* at its front.  The priority queue is the set of its elements: which of  *)
(* several instructions of highest priority is pulled depends on how the   *)
(* heap was filled, and any of them may be.                                *)
(***************************************************************************)
EXTENDS PpDepInfo, SequencesExt, FiniteSetsExt

CONSTANT Policies   \* the schedulers to run: subset of {"simple", "reg_pressure"}

\* An empty block is not scheduled: its loops have nothing to do.
ASSUME BlocksAssumption == Blocks \subseteq Seq(InstrType) \ {<<>>}
ASSUME PoliciesAssumption == Policies \subseteq {"simple", "reg_pressure"}

VARIABLES policy,
          pressure,   \* reg_pressure of every instruction
          max_dist,   \* length of the longest path to it, roughly
          queue,      \* work_queue
          visited,    \* the instructions pulled so far
          order       \* the new instr_list

schedVars == <<policy, pressure, max_dist, queue, visited, order>>
vars == <<depVars, schedVars>>

----------------------------------------------------------------------------
(* Priorities of the register pressure scheduler.                          *)

\* cut_fan_out_nodes: a value read more than once has no parent.
CutFanOut == {e \in true_deps : Cardinality(Succs(true_deps, e[1])) < 2}

\* The children in the order of their own pressure; qsort leaves those of the
\* same pressure in any order.
ByOwnPressure(S) ==
  {s \in SetToSeqs(S) : \A j, k \in DOMAIN s : j < k => pressure[s[j]] <= pressure[s[k]]}

\* calc_reg_pressure: each child needs what the ones sorted behind it leave over.
RegPressure(sorted) ==
  Max({0} \cup {pressure[sorted[k]] + Len(sorted) - k : k \in DOMAIN sorted})

\* calc_max_dist for one instruction, its predecessors met in this order: each
\* raises the distance to its own if that is larger, and then by one.
MaxDist(preds) ==
  Max({Len(preds)} \cup {max_dist[preds[k]] + Len(preds) + 1 - k : k \in DOMAIN preds})

\* The index sched_insert_start gives: the number of instructions behind.
IndexOf(i) == Len(order) - SelectInSeq(order, LAMBDA x : x = i)

Parents(i)  == Succs(true_deps, i)
ParentIndex(i) == IndexOf(CHOOSE s \in Parents(i) : TRUE)

ByPressure(i, o) ==
  \/ pressure[i] < pressure[o]
  \/ pressure[i] = pressure[o] /\ max_dist[i] >= max_dist[o]

\* sched_priority(i, o): i goes first.  Of two parents the one with the larger
\* index counts, and no parent counts least.
ParentFirst(i, o) ==
  IF Parents(i) # {} /\ Parents(o) # {} THEN ParentIndex(i) > ParentIndex(o)
                                       ELSE Parents(i) # {}

SameParent(i, o) ==
  IF Parents(i) # {} /\ Parents(o) # {} THEN ParentIndex(i) = ParentIndex(o)
                                       ELSE Parents(i) = Parents(o)

Priority(i, o) ==
  policy = "reg_pressure" =>
    (ParentFirst(i, o) \/ (SameParent(i, o) /\ ByPressure(i, o)))

\* Slip: succs_visited is not computed.
ReadyAtOnce(i) == Preds(deps, i) \ (visited \cup queue)

\* The predecessors of i that wait for no other instruction.
NewlyReady(i) == {p \in Preds(deps, i) : Succs(deps, p) \subseteq visited \cup {i}}

\* Slip: only the last instruction of the block is pushed at first.
LastOnly == {Len(block)}

\* The instructions lima_pp_lir_schedule_block starts from.
Roots == {i \in Instrs : Succs(deps, i) = {}}

----------------------------------------------------------------------------
Init ==
  /\ DepInit
  /\ policy \in Policies
  /\ pressure = <<>> /\ max_dist = <<>>
  /\ queue = {} /\ visited = {} /\ order = <<>>

Analyse ==
  /\ AddDepInstr \/ CalcMinDepInfo
  /\ UNCHANGED schedVars

\* The simple scheduler has no priorities to compute.
StartSimple ==
  /\ pc = "schedule" /\ policy = "simple"
  /\ pc' = "pull"
  /\ queue' = Roots
  /\ UNCHANGED <<block, cur, deps, true_deps, min_deps, policy, pressure, max_dist, visited, order>>

CutFanOutNodes ==
  /\ pc = "schedule" /\ policy = "reg_pressure"
  /\ pc' = "pressure"
  /\ true_deps' = CutFanOut
  /\ pressure' = [i \in Instrs |-> 0]
  /\ UNCHANGED <<block, cur, deps, min_deps, policy, max_dist, queue, visited, order>>

\* calc_reg_pressure_block goes down from the roots of the forest that is left
\* and computes the children first; the order of the block is one that does.
CalcPressure ==
  /\ pc = "pressure"
  /\ \E sorted \in ByOwnPressure(Preds(true_deps, cur)) :
       pressure' = [pressure EXCEPT ![cur] = RegPressure(sorted)]
  /\ Advance("dist")
  /\ max_dist' = IF pc' = "dist" THEN [i \in Instrs |-> 0] ELSE max_dist
  /\ UNCHANGED <<block, deps, true_deps, min_deps, policy, queue, visited, order>>

\* calc_max_dist takes the instructions in some order in which all
\* predecessors come first; the order of the block is one, and the result
\* does not depend on which.
CalcMaxDist ==
  /\ pc = "dist"
  /\ \E preds \in SetToSeqs(Preds(deps, cur)) :
       max_dist' = [max_dist EXCEPT ![cur] = MaxDist(preds)]
  /\ Advance("pull")
  /\ queue' = IF pc' = "pull" THEN Roots ELSE queue
  /\ UNCHANGED <<block, deps, true_deps, min_deps, policy, pressure, visited, order>>

Pull(i) ==
  /\ pc = "pull" /\ i \in queue
  /\ \A o \in queue : Priority(i, o)
  /\ visited' = visited \cup {i}
  /\ order' = <<i>> \o order
  /\ queue' = (queue \ {i}) \cup NewlyReady(i)
  /\ UNCHANGED <<depVars, policy, pressure, max_dist>>

Finish ==
  /\ pc = "pull" /\ queue = {}
  /\ pc' = "done"
  /\ UNCHANGED <<block, cur, deps, true_deps, min_deps, schedVars>>

Done == pc = "done" /\ UNCHANGED vars

Next ==
  \/ Analyse \/ StartSimple \/ CutFanOutNodes \/ CalcPressure \/ CalcMaxDist
  \/ \E i \in Instrs : Pull(i)
  \/ Finish \/ Done

Spec == Init /\ [][Next]_vars /\ WF_vars(Next)

----------------------------------------------------------------------------
(* The shape of the state.  Edges only lead forward, so that the graph has *)
(* no cycle in which instructions would wait for each other forever.       *)
TypeOK ==
  /\ block \in Seq(InstrType)
  /\ policy \in {"simple", "reg_pressure"}
  /\ pc \in {"deps", "min", "schedule", "pressure", "dist", "pull", "done"}
  /\ cur \in Instrs
  /\ deps \subseteq Edges /\ true_deps \subseteq deps /\ min_deps \subseteq deps
  /\ pressure \in {<<>>} \cup [Instrs -> Nat]
  /\ max_dist \in {<<>>} \cup [Instrs -> Nat]
  /\ queue \subseteq Instrs \ visited
  /\ visited \subseteq Instrs
  /\ order \in Seq(Instrs)

Place(i) == SelectInSeq(order, LAMBDA x : x = i)

(* lima_pp_lir_schedule_block has emptied the list and puts back what it   *)
(* pulls; an instruction that never becomes ready, or becomes ready twice, *)
(* would be lost or duplicated without an error.                           *)
EveryInstrScheduledOnce ==
  pc = "done" => Len(order) = Len(block) /\ ToSet(order) = Instrs

(* The schedule computes what the block computed: no two instructions that *)
(* conflict have changed places, whatever the priorities say.              *)
ConflictsKeepOrder ==
  pc = "done" =>
    \A i, j \in Instrs :
      i < j /\ Conflict(block[i], block[j]) => Place(i) < Place(j)

(* "If we have a branch instruction, then we need to make sure we run      *)
(* after all other instructions" (dep_info.c:289-290): what follows a      *)
(* branch in the code is not executed when the branch is taken.            *)
BranchesRunLast ==
  pc = "done" =>
    \A i, j \in Instrs : i < j /\ block[j].branch # "none" => Place(i) < Place(j)

(* Every block is scheduled.                                               *)
Terminates == <>(pc = "done")
=============================================================================
